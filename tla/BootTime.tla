------------------------------ MODULE BootTime ------------------------------
(***************************************************************************)
(* MavlinkBootTimeTracker of brov_base/brov_base/mavlink_time.py: it       *)
(* classifies the uint32 boot time of every telemetry payload and detects  *)
(* a reboot of the autopilot from two streams that both report it.         *)
(*                                                                         *)
(* The tracker is a record, so that the module needs no variables; time    *)
(* is in abstract ticks (in the code: milliseconds of boot time, seconds   *)
(* of receive time).                                                       *)
(***************************************************************************)
EXTENDS Integers

CONSTANTS Streams,             \* the streams that carry a boot time
          None,                \* "not in the dictionary", Python's None
          Modulus,             \* 2^32 in the code
          ReorderTolerance,
          ConfirmationWindow,
          CandidateMaxBoot,
          CandidateSkew,
          WrapWindow,
          MaxForwardJump,
          ClockSlack

\* The checks of the constructor.
ASSUME BootTimeAssumption ==
  /\ Modulus \in Nat
  /\ {ReorderTolerance, ConfirmationWindow, CandidateMaxBoot, CandidateSkew,
      MaxForwardJump} \subseteq Nat
  /\ WrapWindow \in Nat \ {0} /\ 2 * WrapWindow < Modulus
  /\ ClockSlack \in Nat \ {0}

BootTimes == 0 .. Modulus - 1

\* One accepted or suspected sample: boot time and receive time.
Sample == [boot : BootTimes, rx : Nat]

ASSUME NoneAssumption == None \notin Sample /\ None \notin Nat

\* last is _last_by_stream with _last_rx_by_stream, anchor is the epoch anchor.
Tracker == [last : [Streams -> Sample \cup {None}],
            candidates : [Streams -> Sample \cup {None}],
            anchor : Sample \cup {None},
            resets : Nat, wraps : Nat, lastWrap : Nat \cup {None}]

NewTracker == [last |-> [s \in Streams |-> None],
               candidates |-> [s \in Streams |-> None],
               anchor |-> None,
               resets |-> 0, wraps |-> 0, lastWrap |-> None]

\* Mutant: a candidate does not outlive its tick.
UnexpiredNow(t, rx) ==
  [t EXCEPT !.candidates = [s \in Streams |->
     IF t.candidates[s] # None /\ t.candidates[s].rx >= rx
     THEN t.candidates[s] ELSE None]]

\* _drop_expired_reset_candidates
Unexpired(t, rx) ==
  [t EXCEPT !.candidates = [s \in Streams |->
     IF t.candidates[s] # None /\ t.candidates[s].rx >= rx - ConfirmationWindow
     THEN t.candidates[s] ELSE None]]

\* How far a clock may plausibly have advanced since a sample.
Allowed(since, rx) ==
  MaxForwardJump + ClockSlack * (IF rx > since.rx THEN rx - since.rx ELSE 0)

\* _plausible_forward_progress: no limit before the first reset.
PlausibleProgress(t, s, boot, rx) ==
  t.anchor # None => boot - t.last[s].boot <= Allowed(t.last[s], rx)

\* _plausible_first_sample_in_epoch
PlausibleFirst(t, boot, rx) ==
  t.anchor # None =>
    IF boot < t.anchor.boot THEN t.anchor.boot - boot <= CandidateSkew
                            ELSE boot - t.anchor.boot <= Allowed(t.anchor, rx)

\* The three ways a payload later than, or unrelated to, the last one is taken.
InOrder(t, s, boot, rx) ==
  IF t.last[s] = None THEN PlausibleFirst(t, boot, rx)
  ELSE boot >= t.last[s].boot /\ PlausibleProgress(t, s, boot, rx)

Wrapped(t, s, boot) ==
  /\ t.last[s] # None
  /\ boot < t.last[s].boot
  /\ t.last[s].boot >= Modulus - WrapWindow
  /\ boot <= WrapWindow

\* Mutant: no tolerance for reordered packets.
SuspiciousBackwards(t, s, boot) ==
  /\ t.last[s] # None
  /\ boot < t.last[s].boot
  /\ ~ Wrapped(t, s, boot)
  /\ boot <= CandidateMaxBoot

\* A backwards step too large for reordering, close to the start of a boot.
Suspicious(t, s, boot) ==
  /\ t.last[s] # None
  /\ boot < t.last[s].boot
  /\ ~ Wrapped(t, s, boot)
  /\ t.last[s].boot - boot > ReorderTolerance
  /\ boot <= CandidateMaxBoot

Distance(a, b) == IF a > b THEN a - b ELSE b - a

\* Another stream has reported a compatible boot time within the window.
Confirmed(t, s, boot, rx) ==
  \E other \in Streams \ {s} :
    /\ Unexpired(t, rx).candidates[other] # None
    /\ Distance(Unexpired(t, rx).candidates[other].boot, boot) <= CandidateSkew

\* The payload becomes the last one of its stream.
Taken(t, s, boot, rx) ==
  [Unexpired(t, rx) EXCEPT !.last[s] = [boot |-> boot, rx |-> rx],
                           !.candidates[s] = None]

\* Streams pass the wrap one after the other and it counts once.
TakenWrap(t, s, boot, rx) ==
  LET again == t.lastWrap # None /\ rx - t.lastWrap <= ConfirmationWindow
  IN [Taken(t, s, boot, rx) EXCEPT
        !.wraps = IF again THEN @ ELSE @ + 1,
        !.lastWrap = IF again THEN @ ELSE rx]

Suspected(t, s, boot, rx) ==
  [Unexpired(t, rx) EXCEPT !.candidates[s] = [boot |-> boot, rx |-> rx]]

\* The confirming payload is the first of the new epoch and its anchor.
ConfirmedReset(t, s, boot, rx) ==
  [t EXCEPT !.last = [r \in Streams |->
                        IF r = s THEN [boot |-> boot, rx |-> rx] ELSE None],
            !.candidates = [r \in Streams |-> None],
            !.anchor = [boot |-> boot, rx |-> rx],
            !.resets = @ + 1]

\* observe: the disposition and the tracker after it.
Disposition(t, s, boot, rx) ==
  IF InOrder(t, s, boot, rx) THEN "accept"
  ELSE IF Wrapped(t, s, boot) THEN "wrap"
  ELSE IF ~ Suspicious(t, s, boot) THEN "drop_reordered"
  ELSE IF Confirmed(t, s, boot, rx) THEN "reset" ELSE "reset_candidate"

Observe(t, s, boot, rx) ==
  LET d == Disposition(t, s, boot, rx)
  IN IF d = "accept" THEN Taken(t, s, boot, rx)
     ELSE IF d = "wrap" THEN TakenWrap(t, s, boot, rx)
     ELSE IF d = "reset" THEN ConfirmedReset(t, s, boot, rx)
     ELSE IF d = "reset_candidate" THEN Suspected(t, s, boot, rx)
     ELSE Unexpired(t, rx)

\* accept_payload
Accepted(d) == d \in {"accept", "wrap", "reset"}
=============================================================================
