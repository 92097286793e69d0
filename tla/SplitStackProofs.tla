---------------------------- MODULE SplitStackProofs ----------------------------
(* Proofs about the mission progress of SplitStack, for any number of        *)
(* waypoints and laps and any timing of the nodes.                           *)
EXTENDS SplitStack, TLAPS

\* What is known of the progress of a mission flown with configuration c.  The laps
\* end a mission of random attitudes, and no other loop ends.  A path is left at its
\* last waypoint but one.
ProgressInv(c, p) ==
  /\ p \in [wp_idx : 0 .. NumWp - 1, complete : BOOLEAN, dwell : Nat, elapsed : Nat,
            laps : 0 .. MaxLaps, event : Nat]
  /\ ~c.loop => p.wp_idx <= NumWp - 2 /\ p.laps = 0
  /\ ~IsRandom(c) => p.laps = 0 /\ (p.complete => ~c.loop /\ p.wp_idx = NumWp - 2)
  /\ IsRandom(c) =>
       /\ p.laps = MaxLaps => p.complete
       /\ p.event + (IF p.laps = MaxLaps THEN 1 ELSE 0) = p.laps * NumWp + p.wp_idx

\* The progress without its clocks.
Untimed(p) == [p EXCEPT !.elapsed = 0, !.dwell = 0]

\* guidance_node has its fields, and a progress that is in order.
GuidanceFields(g) ==
  g = [active |-> g.active, initialized |-> g.initialized, locked |-> g.locked,
       status |-> g.status, progress |-> g.progress, last |-> g.last, edge |-> g.edge,
       own |-> g.own]

GuidanceInv ==
  /\ config \in Configs
  /\ GuidanceFields(guidance)
  /\ guidance.last \in Nat \cup {None}
  /\ ProgressInv(config, guidance.progress)

-----------------------------------------------------------------------------
\* There are waypoints and laps to count.
LEMMA Sizes == /\ NumWp \in Nat /\ NumWp >= 2 /\ MaxLaps \in Nat /\ MaxLaps >= 1
  BY LOSGuidanceAssumption

\* A mission that begins.
LEMMA NewProgressInv == ASSUME NEW c PROVE ProgressInv(c, NewProgress)
  BY Sizes DEF ProgressInv, NewProgress

\* After a full turn one more lap is counted.
LEMMA OneMoreLap == ASSUME NEW l \in Nat PROVE (l + 1) * NumWp = l * NumWp + NumWp /\ l * NumWp \in Nat
  BY Sizes, SMT

\* The waypoint that follows i.
LEMMA NextWaypoint ==
  ASSUME NEW c \in Configs, NEW i \in 0 .. NumWp - 1
  PROVE  /\ NextIndex(c, i) \in 0 .. NumWp - 1
         /\ IsRandom(c) => NextIndex(c, i) = IF i = NumWp - 1 THEN 0 ELSE i + 1
<1>1. i < NumWp - 1 => (i + 1) % NumWp = i + 1
  BY Sizes, SMT
<1>2. i = NumWp - 1 => (i + 1) % NumWp = 0
  BY Sizes, SMT
<1>3. IsRandom(c) => ~Takeoff(c)
  BY DEF IsRandom, Takeoff
<1> QED
  BY Sizes, <1>1, <1>2, <1>3 DEF NextIndex

-----------------------------------------------------------------------------
(* One call of compute, stage by stage.                                    *)

\* The clocks leave the rest alone, but that the first may end the mission.
LEMMA ClocksKeep ==
  ASSUME NEW c \in Configs, NEW p, ProgressInv(c, p), NEW place, NEW settled \in BOOLEAN,
         NEW dt \in Nat,
         NEW timed, timed = Elapsed(c, p, dt),
         NEW held, held = Dwelling(c, timed, place, settled, dt)
  PROVE  /\ ProgressInv(c, timed) /\ ProgressInv(c, held)
         /\ held = [timed EXCEPT !.dwell = held.dwell]
         /\ p.complete => timed.complete /\ Untimed(timed) = Untimed(p)
         /\ ~IsRandom(c) => timed = p /\ held = p
<1>1. CASE ~IsRandom(c)
  <2>1. timed = p /\ held = p
    BY <1>1 DEF Elapsed, Dwelling
  <2>2. p = [p EXCEPT !.dwell = p.dwell]
    BY DEF ProgressInv
  <2> QED
    BY <2>1, <2>2, <1>1
<1>2. CASE IsRandom(c)
  <2>1. PICK e \in Nat, over \in BOOLEAN :
          timed = [p EXCEPT !.elapsed = e, !.complete = over] /\ (p.complete => over)
    <3> DEFINE e == Upto(MaxDuration, p.elapsed + dt)
    <3>1. e \in Nat
      BY LOSGuidanceAssumption DEF Upto, ProgressInv
    <3>2. timed = [p EXCEPT !.elapsed = e, !.complete = p.complete \/ e = MaxDuration]
      BY <1>2, Zenon DEF Elapsed
    <3>3. (p.complete \/ e = MaxDuration) \in BOOLEAN
      OBVIOUS
    <3> QED
      BY <3>1, <3>2, <3>3, Zenon
  <2>2. ProgressInv(c, timed) /\ (p.complete => timed.complete /\ Untimed(timed) = Untimed(p))
    BY <1>2, <2>1 DEF ProgressInv, Untimed
  <2>3. PICK d \in Nat : held = [timed EXCEPT !.dwell = d]
    BY <1>2, <2>2, LOSGuidanceAssumption DEF Dwelling, Upto, ProgressInv
  <2>4. ProgressInv(c, held) /\ held.dwell = d
    BY <1>2, <2>2, <2>3 DEF ProgressInv
  <2> QED
    BY <1>2, <2>2, <2>3, <2>4
<1> QED
  BY <1>1, <1>2

\* The record the fields of which are given.
LEMMA ByFields ==
  ASSUME NEW c \in Configs, NEW r,
         NEW i \in 0 .. NumWp - 1, NEW k \in BOOLEAN, NEW d \in Nat, NEW e \in Nat,
         NEW l \in 0 .. MaxLaps, NEW v \in Nat,
         r = [wp_idx |-> i, complete |-> k, dwell |-> d, elapsed |-> e, laps |-> l, event |-> v],
         ~c.loop => i <= NumWp - 2 /\ l = 0,
         ~IsRandom(c) => l = 0 /\ (k => ~c.loop /\ i = NumWp - 2),
         IsRandom(c) => /\ l = MaxLaps => k
                        /\ v + (IF l = MaxLaps THEN 1 ELSE 0) = l * NumWp + i
  PROVE  ProgressInv(c, r)
  BY DEF ProgressInv

\* What Arrived does to a progress m.
LEMMA ArrivedFields ==
  ASSUME NEW m, NEW r, NEW w \in Nat,
         m \in [wp_idx : 0 .. NumWp - 1, complete : BOOLEAN, dwell : Nat, elapsed : Nat,
                laps : 0 .. MaxLaps, event : Nat],
         r = [m EXCEPT !.event = w, !.dwell = 0]
  PROVE  /\ r \in [wp_idx : 0 .. NumWp - 1, complete : BOOLEAN, dwell : Nat, elapsed : Nat,
                   laps : 0 .. MaxLaps, event : Nat]
         /\ r.wp_idx = m.wp_idx /\ r.complete = m.complete /\ r.laps = m.laps /\ r.event = w
  OBVIOUS

\* Reaching a waypoint that does not end a lap.
LEMMA OneMoreWaypoint ==
  ASSUME NEW c \in Configs, NEW q, ProgressInv(c, q), IsRandom(c), ~q.complete,
         q.laps \in 0 .. MaxLaps - 1, q.event = q.laps * NumWp + q.wp_idx,
         q.laps * NumWp \in Nat,
         IF c.loop THEN q.wp_idx # NumWp - 1 ELSE q.wp_idx + 1 <= NumWp - 2,
         NEW d \in Nat, NEW held, held = [q EXCEPT !.dwell = d],
         NEW moved,
         moved = [held EXCEPT !.wp_idx = q.wp_idx + 1, !.laps = q.laps, !.complete = FALSE]
  PROVE  ProgressInv(c, Arrived(c, q, moved))
<1>1. q.wp_idx \in 0 .. NumWp - 1 /\ q.event \in Nat
  BY DEF ProgressInv
<1>2. moved = [q EXCEPT !.wp_idx = q.wp_idx + 1, !.laps = q.laps, !.complete = FALSE, !.dwell = d]
  BY DEF ProgressInv
<1>3. moved.wp_idx = q.wp_idx + 1 /\ moved.complete = FALSE /\ moved.event = q.event
  BY <1>2 DEF ProgressInv
<1>4. moved.wp_idx # q.wp_idx
  BY <1>1, <1>3
<1>5. Arrived(c, q, moved) = [moved EXCEPT !.event = q.event + 1, !.dwell = 0]
  BY <1>3, <1>4 DEF Arrived
<1>6. /\ Arrived(c, q, moved) = [wp_idx |-> q.wp_idx + 1, complete |-> FALSE, dwell |-> 0,
                                elapsed |-> q.elapsed, laps |-> q.laps, event |-> q.event + 1]
      /\ q.elapsed \in Nat
      /\ ~c.loop => q.laps = 0
  BY <1>2, <1>5 DEF ProgressInv
<1>7. /\ q.wp_idx + 1 \in 0 .. NumWp - 1 /\ q.event + 1 \in Nat
      /\ q.event + 1 + 0 = q.laps * NumWp + (q.wp_idx + 1) /\ q.laps # MaxLaps
  BY <1>1, Sizes
<1>8. q.laps \in 0 .. MaxLaps
  BY Sizes
<1> QED
  BY <1>6, <1>7, <1>8, ByFields, Zenon

\* Reaching a waypoint and the attitude it brings.
LEMMA ArrivalKeeps ==
  ASSUME NEW c \in Configs, NEW q, ProgressInv(c, q), IsRandom(c) => ~q.complete,
         NEW d \in Nat, NEW held, held = [q EXCEPT !.dwell = d],
         NEW moved, moved = Advanced(c, held)
  PROVE  ProgressInv(c, Arrived(c, q, moved))
<1>1. /\ ProgressInv(c, held) /\ held.wp_idx = q.wp_idx /\ held.complete = q.complete
      /\ held.laps = q.laps /\ held.event = q.event
      /\ q.wp_idx \in 0 .. NumWp - 1 /\ q.laps \in 0 .. MaxLaps /\ q.event \in Nat
      /\ q.elapsed \in Nat /\ q.complete \in BOOLEAN
  BY DEF ProgressInv
<1>f. held = [wp_idx |-> q.wp_idx, complete |-> q.complete, dwell |-> d,
              elapsed |-> q.elapsed, laps |-> q.laps, event |-> q.event]
  BY DEF ProgressInv
<1>2. CASE ~IsRandom(c)
  <2>1. Arrived(c, q, moved) = moved /\ q.laps = 0
    BY <1>2 DEF Arrived, ProgressInv
  <2>2. CASE c.loop
    <3>1. ~held.complete /\ held.laps = 0 /\ MaxLaps # 0
      BY <1>1, <1>2, <2>1, <2>2, Sizes DEF ProgressInv
    <3>2. moved = [held EXCEPT !.wp_idx = NextIndex(c, held.wp_idx), !.laps = 0, !.complete = FALSE]
      BY <1>2, <2>2, <3>1 DEF Advanced
    <3>3. NextIndex(c, held.wp_idx) \in 0 .. NumWp - 1
      BY <1>1, NextWaypoint
    <3>4. moved = [wp_idx |-> NextIndex(c, held.wp_idx), complete |-> FALSE, dwell |-> d,
                   elapsed |-> q.elapsed, laps |-> 0, event |-> q.event]
      BY <1>1, <1>f, <3>2
    <3>5. 0 \in 0 .. MaxLaps
      BY Sizes
    <3> HIDE DEF IsRandom
    <3>6. ProgressInv(c, moved)
      BY <1>1, <1>2, <2>2, <3>3, <3>4, <3>5, ByFields, Zenon
    <3> QED
      BY <2>1, <3>6
  <2>3. CASE ~c.loop /\ LastSegment(held)
    <3>1. moved = [held EXCEPT !.complete = TRUE] /\ held.wp_idx = NumWp - 2
      BY <2>3 DEF Advanced, LastSegment
    <3> QED
      BY <1>1, <1>2, <2>1, <2>3, <3>1 DEF ProgressInv
  <2>4. CASE ~c.loop /\ ~LastSegment(held)
    <3>1. moved = [held EXCEPT !.wp_idx = held.wp_idx + 1] /\ held.wp_idx # NumWp - 2
      BY <2>4 DEF Advanced, LastSegment
    <3>2. ~held.complete /\ held.wp_idx + 1 \in 0 .. NumWp - 2
      BY <1>1, <1>2, <2>4, <3>1, Sizes DEF ProgressInv
    <3>3. held.wp_idx + 1 \in 0 .. NumWp - 1
      BY <3>2, Sizes
    <3>4. moved = [wp_idx |-> held.wp_idx + 1, complete |-> FALSE, dwell |-> d,
                   elapsed |-> q.elapsed, laps |-> q.laps, event |-> q.event]
      BY <1>1, <1>f, <3>1, <3>2
    <3>5. held.wp_idx + 1 <= NumWp - 2
      BY <3>2, Sizes
    <3> QED
      BY <1>1, <1>2, <2>1, <2>4, <3>3, <3>4, <3>5, ByFields
  <2> QED
    BY <2>2, <2>3, <2>4
<1>3. CASE IsRandom(c)
  <2>1. ~q.complete /\ q.laps \in 0 .. MaxLaps - 1 /\ q.event = q.laps * NumWp + q.wp_idx
    <3>1. ~q.complete /\ q.laps # MaxLaps
      BY <1>3 DEF ProgressInv
    <3>2. q.event + 0 = q.laps * NumWp + q.wp_idx
      BY <1>3, <3>1 DEF ProgressInv
    <3> QED
      BY <1>1, <3>1, <3>2, Sizes
  <2>2. (q.laps + 1) * NumWp = q.laps * NumWp + NumWp /\ q.laps * NumWp \in Nat
    BY <1>1, OneMoreLap, Sizes
  <2>3. CASE c.loop /\ q.wp_idx = NumWp - 1
    <3>1. NextIndex(c, q.wp_idx) = 0
      BY <1>1, <1>3, <2>3, NextWaypoint
    <3>2. moved = [held EXCEPT !.wp_idx = 0, !.laps = q.laps + 1, !.complete = (q.laps + 1 = MaxLaps)]
      BY <1>1, <1>3, <2>1, <2>3, <3>1 DEF Advanced
    <3>3. moved.wp_idx = 0 /\ moved.event = q.event /\ moved.complete = (q.laps + 1 = MaxLaps)
      BY <1>1, <3>2 DEF ProgressInv
    <3>4. moved.wp_idx # q.wp_idx /\ q.laps + 1 \in 0 .. MaxLaps
      BY <2>1, <2>3, <3>3, Sizes
    <3>5. q.event + 1 = (q.laps + 1) * NumWp
      BY <2>1, <2>2, <2>3, Sizes
    <3>6. CASE q.laps + 1 = MaxLaps
      <4>1. moved = [held EXCEPT !.wp_idx = 0, !.laps = MaxLaps, !.complete = TRUE]
        BY <3>2, <3>6
      <4>2. Arrived(c, q, moved) = [moved EXCEPT !.event = q.event, !.dwell = 0]
        BY <1>3, <3>3, <3>4, <3>6 DEF Arrived
      <4>3. Arrived(c, q, moved) = [wp_idx |-> 0, complete |-> TRUE, dwell |-> 0,
                                    elapsed |-> q.elapsed, laps |-> MaxLaps, event |-> q.event]
        BY <1>f, <4>1, <4>2, Zenon
      <4>4. q.event + 1 = MaxLaps * NumWp + 0
        BY <3>5, <3>6, Sizes
      <4>5. MaxLaps \in 0 .. MaxLaps /\ 0 \in 0 .. NumWp - 1 /\ 0 \in Nat
        BY Sizes
      <4> QED
        BY <1>1, <1>3, <2>3, <4>3, <4>4, <4>5, ByFields, Zenon
    <3>7. CASE q.laps + 1 # MaxLaps
      <4>1. moved = [held EXCEPT !.wp_idx = 0, !.laps = q.laps + 1, !.complete = FALSE]
        BY <3>2, <3>7
      <4>2. Arrived(c, q, moved) = [moved EXCEPT !.event = q.event + 1, !.dwell = 0]
        BY <1>3, <3>3, <3>4, <3>7 DEF Arrived
      <4>3. q.event + 1 + 0 = (q.laps + 1) * NumWp + 0 /\ q.event + 1 \in Nat
        BY <1>1, <2>2, <3>5, Sizes
      <4>4. /\ moved \in [wp_idx : 0 .. NumWp - 1, complete : BOOLEAN, dwell : Nat,
                          elapsed : Nat, laps : 0 .. MaxLaps, event : Nat]
            /\ moved.wp_idx = 0 /\ moved.complete = FALSE /\ moved.laps = q.laps + 1
        <5>1. held \in [wp_idx : 0 .. NumWp - 1, complete : BOOLEAN, dwell : Nat, elapsed : Nat,
                        laps : 0 .. MaxLaps, event : Nat]
          BY <1>1 DEF ProgressInv
        <5>2. 0 \in 0 .. NumWp - 1
          BY Sizes
        <5> QED
          BY <3>4, <4>1, <5>1, <5>2
      <4>5. PICK r : r = Arrived(c, q, moved)
        OBVIOUS
      <4>6. /\ r \in [wp_idx : 0 .. NumWp - 1, complete : BOOLEAN, dwell : Nat, elapsed : Nat,
                      laps : 0 .. MaxLaps, event : Nat]
            /\ r.wp_idx = 0 /\ r.complete = FALSE /\ r.laps = q.laps + 1 /\ r.event = q.event + 1
        BY <4>2, <4>3, <4>4, <4>5, ArrivedFields
      <4>7. r.event + (IF r.laps = MaxLaps THEN 1 ELSE 0) = r.laps * NumWp + r.wp_idx
        BY <3>7, <4>3, <4>6, Sizes
      <4> QED
        BY <1>3, <2>3, <3>7, <4>5, <4>6, <4>7 DEF ProgressInv
    <3> QED
      BY <3>6, <3>7
  <2>4. CASE c.loop /\ q.wp_idx # NumWp - 1
    <3>1. NextIndex(c, q.wp_idx) = q.wp_idx + 1
      BY <1>1, <1>3, <2>4, NextWaypoint
    <3>2. moved = [held EXCEPT !.wp_idx = q.wp_idx + 1, !.laps = q.laps, !.complete = FALSE]
      <4>1. held.laps # MaxLaps /\ ~held.complete /\ held.wp_idx # NumWp - 1
        BY <1>1, <2>1, <2>4, Sizes
      <4>2. moved = [held EXCEPT !.wp_idx = NextIndex(c, held.wp_idx), !.laps = held.laps,
                                 !.complete = FALSE]
        BY <1>3, <2>4, <4>1 DEF Advanced
      <4> QED
        BY <1>1, <3>1, <4>2
    <3> QED
      BY <1>1, <1>3, <2>1, <2>2, <2>4, <3>2, OneMoreWaypoint
  <2>5. CASE ~c.loop /\ LastSegment(held)
    <3>1. moved = [held EXCEPT !.complete = TRUE]
      BY <2>5 DEF Advanced
    <3>2. Arrived(c, q, moved) = [moved EXCEPT !.event = q.event, !.dwell = 0]
      BY <1>1, <1>3, <2>1, <3>1 DEF Arrived, ProgressInv
    <3>3. PICK r : r = Arrived(c, q, moved)
      OBVIOUS
    <3>5. /\ r \in [wp_idx : 0 .. NumWp - 1, complete : BOOLEAN, dwell : Nat, elapsed : Nat,
                    laps : 0 .. MaxLaps, event : Nat]
          /\ r.wp_idx = q.wp_idx /\ r.complete = TRUE /\ r.laps = q.laps /\ r.event = q.event
      <4>1. /\ moved \in [wp_idx : 0 .. NumWp - 1, complete : BOOLEAN, dwell : Nat,
                          elapsed : Nat, laps : 0 .. MaxLaps, event : Nat]
            /\ moved.wp_idx = q.wp_idx /\ moved.complete = TRUE
            /\ moved.laps = q.laps /\ moved.event = q.event
        BY <1>1, <3>1 DEF ProgressInv
      <4>2. r = [moved EXCEPT !.event = q.event, !.dwell = 0] /\ q.event \in Nat
        BY <1>1, <3>2, <3>3
      <4>3. /\ r \in [wp_idx : 0 .. NumWp - 1, complete : BOOLEAN, dwell : Nat, elapsed : Nat,
                      laps : 0 .. MaxLaps, event : Nat]
            /\ r.wp_idx = moved.wp_idx /\ r.complete = moved.complete /\ r.laps = moved.laps
            /\ r.event = q.event
        BY <4>1, <4>2, ArrivedFields, Zenon
      <4> QED
        BY <4>1, <4>3
    <3>4. /\ q.event + (IF q.laps = MaxLaps THEN 1 ELSE 0) = q.laps * NumWp + q.wp_idx
          /\ q.wp_idx <= NumWp - 2 /\ q.laps = 0 /\ 0 \in Nat
      BY <1>3, <2>5 DEF ProgressInv
    <3> QED
      BY <1>3, <3>3, <3>4, <3>5 DEF ProgressInv
  <2>6. CASE ~c.loop /\ ~LastSegment(held)
    <3>1. moved = [held EXCEPT !.wp_idx = q.wp_idx + 1] /\ q.wp_idx # NumWp - 2
      BY <1>1, <2>6 DEF Advanced, LastSegment
    <3>2. moved = [held EXCEPT !.wp_idx = q.wp_idx + 1, !.laps = q.laps, !.complete = FALSE]
      BY <1>1, <2>1, <3>1
    <3>3. q.wp_idx + 1 <= NumWp - 2
      BY <1>1, <2>6, <3>1, Sizes DEF ProgressInv
    <3> QED
      BY <1>1, <1>3, <2>1, <2>2, <2>6, <3>2, <3>3, OneMoreWaypoint, Sizes
  <2> QED
    BY <2>3, <2>4, <2>5, <2>6
<1> QED
  BY <1>2, <1>3

\* compute keeps what is known of the progress, and a complete mission as it is.
LEMMA ComputeKeeps ==
  ASSUME NEW c \in Configs, NEW p, ProgressInv(c, p), NEW place, NEW settled \in BOOLEAN,
         NEW dt \in Nat
  PROVE  /\ ProgressInv(c, Compute(c, p, place, settled, dt))
         /\ p.complete => Untimed(Compute(c, p, place, settled, dt)) = Untimed(p)
<1>0. PICK timed, held, moved :
        /\ timed = Elapsed(c, p, dt)
        /\ held = Dwelling(c, timed, place, settled, dt)
        /\ moved = IF Reached(c, held, place) THEN Advanced(c, held) ELSE held
        /\ Compute(c, p, place, settled, dt) = Arrived(c, timed, moved)
  BY Zenon DEF Compute
<1>1. /\ ProgressInv(c, timed) /\ ProgressInv(c, held)
      /\ held = [timed EXCEPT !.dwell = held.dwell]
      /\ p.complete => timed.complete /\ Untimed(timed) = Untimed(p)
      /\ ~IsRandom(c) => timed = p /\ held = p
  BY <1>0, ClocksKeep
<1>2. CASE ~Reached(c, held, place)
  <2>1. moved = held
    BY <1>0, <1>2
  <2>2. held.wp_idx = timed.wp_idx /\ held.complete = timed.complete
    BY <1>1 DEF ProgressInv
  <2>3. Arrived(c, timed, moved) = held
    BY <1>1, <2>1, <2>2 DEF Arrived
  <2>4. Untimed(held) = Untimed(timed)
    BY <1>1 DEF Untimed, ProgressInv
  <2> QED
    BY <1>0, <1>1, <2>3, <2>4
<1>3. CASE Reached(c, held, place)
  <2>1. moved = Advanced(c, held) /\ held.dwell \in Nat
    BY <1>0, <1>1, <1>3 DEF ProgressInv
  <2>2. IsRandom(c) => ~timed.complete
    BY <1>1, <1>3 DEF Reached, ProgressInv
  <2>3. ProgressInv(c, Arrived(c, timed, moved))
    BY <1>1, <2>1, <2>2, ArrivalKeeps
  <2>4. ASSUME p.complete PROVE Arrived(c, timed, moved) = p
    <3>1. ~IsRandom(c) /\ held = p /\ ~c.loop /\ p.wp_idx = NumWp - 2
      BY <1>1, <2>2, <2>4 DEF ProgressInv
    <3>2. moved = [p EXCEPT !.complete = TRUE]
      BY <2>1, <3>1 DEF Advanced, LastSegment
    <3>3. moved = p
      BY <2>4, <3>2 DEF ProgressInv
    <3> QED
      BY <3>1, <3>3 DEF Arrived
  <2> QED
    BY <1>0, <2>3, <2>4
<1> QED
  BY <1>2, <1>3

-----------------------------------------------------------------------------
(* The node.                                                               *)

\* A node that starts has begun no mission.
LEMMA GuidanceInvInit == Init => GuidanceInv
  BY NewProgressInv DEF Init, GuidanceInv, NewGuidance, GuidanceFields

\* Tally counts.
LEMMA TallyType == ASSUME NEW limit \in Nat, NEW n \in Nat \cup {None}
                   PROVE  Tally(limit, n) \in Nat \cup {None}
  BY DEF Tally

\* What the handler of a state does to the node, and what it leaves.
LEMMA OnStateKeeps ==
  ASSUME GuidanceInv, GuidanceOnState
  PROVE  /\ GuidanceInv'
         /\ guidance.progress.complete /\ guidance.initialized
              => Untimed(guidance'.progress) = Untimed(guidance.progress)
<1> DEFINE framed == Framed(guidance)
<1>1. GuidanceFields(framed) /\ framed.last = guidance.last /\ ProgressInv(config, framed.progress)
      /\ (guidance.initialized => framed = guidance)
  BY NewProgressInv DEF GuidanceInv, Framed, GuidanceFields
<1>2. CASE UNCHANGED guidance
  BY <1>2 DEF GuidanceOnState, GuidanceInv
<1>3. CASE ~UNCHANGED guidance
  <2>1. PICK place \in Places, settled \in BOOLEAN :
          guidance' = [framed EXCEPT
            !.progress = Compute(config, framed.progress, place, settled,
                                 IF framed.last = None THEN 0 ELSE framed.last),
            !.last = IF IsRandom(config) THEN 0 ELSE framed.last]
    BY <1>3, Zenon DEF GuidanceOnState
  <2>2. PICK dt \in Nat : dt = IF framed.last = None THEN 0 ELSE framed.last
    BY <1>1 DEF GuidanceInv
  <2>3. PICK q : q = Compute(config, framed.progress, place, settled, dt)
    OBVIOUS
  <2>4. ProgressInv(config, q) /\ (framed.progress.complete => Untimed(q) = Untimed(framed.progress))
    BY <1>1, <2>3, ComputeKeeps DEF GuidanceInv
  <2>5. guidance' = [framed EXCEPT !.progress = q,
                                   !.last = IF IsRandom(config) THEN 0 ELSE framed.last]
    BY <2>1, <2>2, <2>3, Zenon
  <2>6. GuidanceFields(guidance') /\ guidance'.progress = q
        /\ guidance'.last = IF IsRandom(config) THEN 0 ELSE framed.last
    BY <1>1, <2>5 DEF GuidanceFields
  <2>7. config' = config /\ config \in Configs /\ guidance'.last \in Nat \cup {None}
    <3>1. config' = config /\ config \in Configs /\ framed.last \in Nat \cup {None}
      BY <1>1, Zenon DEF GuidanceInv, GuidanceOnState
    <3> HIDE DEF framed
    <3> QED
      BY <2>6, <3>1
  <2> QED
    BY <1>1, <2>4, <2>6, <2>7 DEF GuidanceInv
<1> QED
  BY <1>2, <1>3

\* The steps that leave the progress alone, or begin it anew.
LEMMA OthersKeep ==
  ASSUME GuidanceInv, [Next]_vars, ~GuidanceOnState
  PROVE  /\ GuidanceInv'
         /\ ~guidance'.initialized \/ guidance'.progress = guidance.progress
<1> SUFFICES /\ config' = config
             /\ GuidanceFields(guidance')
             /\ guidance'.last \in Nat \cup {None}
             /\ \/ guidance'.progress = guidance.progress
                \/ guidance'.progress = NewProgress /\ ~guidance'.initialized
  BY NewProgressInv DEF GuidanceInv
<1>1. CASE UNCHANGED guidance /\ UNCHANGED config
  BY <1>1 DEF GuidanceInv
<1>2. CASE PublishState
  <2>1. guidance' = [guidance EXCEPT !.last = Tally(MaxDuration, guidance.last)]
        /\ Tally(MaxDuration, guidance.last) \in Nat \cup {None}
    BY <1>2, TallyType, LOSGuidanceAssumption DEF PublishState, GuidanceInv
  <2> QED
    BY <1>2, <2>1 DEF PublishState, GuidanceInv, GuidanceFields
<1>3. CASE Start
  BY <1>3 DEF Start, GuidanceInv, GuidanceFields
<1>4. CASE Realign
  BY <1>4 DEF Realign, GuidanceInv, GuidanceFields
<1>5. CASE StatusAges
  BY <1>5 DEF StatusAges, GuidanceInv, GuidanceFields
<1>6. CASE GuidanceDies
  BY <1>6 DEF GuidanceDies, NewGuidance, GuidanceFields
<1>7. CASE GuidanceOnActive
  BY <1>7 DEF GuidanceOnActive, Edge, GuidanceInv, GuidanceFields
<1>8. CASE OnPoolStatus
  BY <1>8 DEF OnPoolStatus, GuidanceInv, GuidanceFields
<1>9. Next => \/ UNCHANGED guidance /\ UNCHANGED config
              \/ PublishState \/ Start \/ Realign \/ StatusAges \/ GuidanceDies
              \/ GuidanceOnActive \/ OnPoolStatus \/ GuidanceOnState
  BY DEF Next, Handlers, PublishActive, Stop, PublishStatus, ObservationOnActive, OnDesired,
         ObservationOnState, OnObservation, OnWrench, ResetIntegrator
<1> QED
  BY <1>1, <1>2, <1>3, <1>4, <1>5, <1>6, <1>7, <1>8, <1>9 DEF vars

\* Every step keeps what the node counts.
LEMMA GuidanceInvStep == GuidanceInv /\ [Next]_vars => GuidanceInv'
  BY OnStateKeeps, OthersKeep

\* Every waypoint reached but the last of the mission brings one random attitude, for
\* any number of waypoints and laps: one per arrival (guidance.py:597), and
\* none for the last.
THEOREM AttitudesCounted == Spec => []AttitudePerArrival
<1>1. GuidanceInv => AttitudePerArrival
  BY DEF GuidanceInv, ProgressInv, AttitudePerArrival
<1> QED
  BY GuidanceInvInit, GuidanceInvStep, <1>1, PTL DEF Spec

\* A mission that is complete does not move on (guidance.py:555): the waypoint, the
\* laps and the attitude stay, until the next edge of /brov/control_active.
THEOREM CompleteStays == Spec => CompleteIsFinal
<1>1. GuidanceInv /\ [Next]_vars =>
        [guidance.progress.complete /\ guidance.initialized /\ guidance'.initialized
           => [guidance'.progress EXCEPT !.elapsed = 0, !.dwell = 0]
                = [guidance.progress EXCEPT !.elapsed = 0, !.dwell = 0]]_vars
  BY OnStateKeeps, OthersKeep DEF Untimed
<1> QED
  BY GuidanceInvInit, GuidanceInvStep, <1>1, PTL DEF Spec, CompleteIsFinal

-----------------------------------------------------------------------------
(* What is past on its way to the thrusters, and when it ends.  Each stage   *)
(* of the loop may keep a message that goes back to before for Lag ticks,    *)
(* observation_node a target for DesiredMaxAge: the ticks since the START,   *)
(* the alignment or the death of guidance_node are bounded by the age of     *)
(* what is past.                                                             *)

Waiting(i) == inbox[i] # None
Age(i) == inbox[i].age
Message(i) == inbox[i].message

\* Types, of what the timing depends on.
Epochs == 1 .. localization

BaseFields ==
  /\ base \in [active : BOOLEAN, idle : 0 .. MinGap, publishing : BOOLEAN]
  /\ localization \in Nat \ {0}
  /\ since \in 0 .. Settle

GuidanceTypes ==
  /\ guidance.active \in BOOLEAN /\ guidance.initialized \in BOOLEAN
  /\ guidance.edge \in BOOLEAN /\ guidance.own \in BOOLEAN
  /\ ~alive => ~guidance.active

ObservationFields ==
  observation \in [active : BOOLEAN, desired : [own : BOOLEAN] \cup {None},
                   desired_age : 0 .. DesiredMaxAge + 1,
                   integral : {"zero", "own", "carried"}]

Shaped(box) ==
  /\ DOMAIN box = Inboxes
  /\ \A i \in Inboxes : box[i] # None =>
       box[i] = [message |-> box[i].message, age |-> box[i].age] /\ box[i].age \in 0 .. Lag

InboxInv ==
  /\ Shaped(inbox)
  /\ Waiting("active_guidance") => Message("active_guidance") \in [active : BOOLEAN, own : BOOLEAN]
  /\ Waiting("active_observation") => Message("active_observation") \in BOOLEAN
  /\ Waiting("status_guidance") => Message("status_guidance") \in {localization, None}
  /\ Waiting("desired_observation") => Message("desired_observation") \in [own : BOOLEAN]
  /\ Waiting("observation_policy") =>
       Message("observation_policy") \in [valid : BOOLEAN, own : BOOLEAN]
  /\ Waiting("wrench_base") => Message("wrench_base") \in [own : BOOLEAN]
  /\ ~alive => \A i \in GuidanceInboxes : ~Waiting(i)

\* The constants of the timing.
LEMMA Bounds ==
  /\ Lag \in Nat /\ MinGap \in Nat /\ DesiredMaxAge \in Nat
  /\ Settle \in Nat /\ Settle >= 1 /\ DesiredMaxAge >= 1
  /\ 0 \in 0 .. MinGap /\ MinGap \in 0 .. MinGap /\ 0 \in 0 .. Settle
  /\ 0 \in 0 .. DesiredMaxAge + 1
  BY SplitStackAssumption

\* The inboxes, by name.
LEMMA Names ==
  /\ "state_guidance" \in Inboxes /\ "active_guidance" \in Inboxes /\ "status_guidance" \in Inboxes
  /\ "state_observation" \in Inboxes /\ "active_observation" \in Inboxes
  /\ "desired_observation" \in Inboxes /\ "observation_policy" \in Inboxes
     /\ "wrench_base" \in Inboxes
  /\ "state_guidance" \in GuidanceInboxes /\ "active_guidance" \in GuidanceInboxes
     /\ "status_guidance" \in GuidanceInboxes
  /\ "state_observation" \notin GuidanceInboxes /\ "active_observation" \notin GuidanceInboxes
  /\ "desired_observation" \notin GuidanceInboxes
     /\ "observation_policy" \notin GuidanceInboxes /\ "wrench_base" \notin GuidanceInboxes
  /\ "state_guidance" \notin Computed /\ "active_guidance" \notin Computed
     /\ "status_guidance" \notin Computed
  /\ "state_observation" \notin Computed /\ "active_observation" \notin Computed
  /\ "desired_observation" \in Computed /\ "observation_policy" \in Computed
     /\ "wrench_base" \in Computed
  /\ GuidanceInboxes \subseteq Inboxes /\ Computed \subseteq Inboxes
BY DEF Inboxes, GuidanceInboxes, Computed

\* None is no count.
LEMMA NoneIsNoCount == None \notin Nat
BY NoneAssumption

\* Putting a message into an inbox of a node that runs, and of guidance_node when it does not.
LEMMA PutBox ==
  ASSUME NEW box, Shaped(box), NEW i \in Inboxes, NEW m, i \in GuidanceInboxes => alive
  PROVE  /\ Shaped(Put(box, i, m))
         /\ \A j \in Inboxes : j # i => Put(box, i, m)[j] = box[j]
         /\ Put(box, i, m)[i].message = m
         /\ Put(box, i, m)[i].age = IF box[i] = None THEN 0 ELSE box[i].age
BY Bounds DEF Put, Shaped

\* A node that is gone gets nothing.
LEMMA PutDead ==
  ASSUME NEW box, NEW i \in GuidanceInboxes, NEW m, ~alive
  PROVE  Put(box, i, m) = box
BY DEF Put

\* What /brov/control_active and the pool status say.
Says == BOOLEAN \cup Nat \cup {None} \cup [active : BOOLEAN, own : BOOLEAN]

\* A message that says so is one.
LEMMA MessageIsOne ==
  ASSUME NEW a \in Nat, NEW m \in Says
  PROVE  [message |-> m, age |-> a] # None
BY NoneAssumption DEF Says

\* It is there once it is put, and is still there older.
LEMMA SaysBox ==
  ASSUME NEW box, Shaped(box), NEW i \in Inboxes
  PROVE  /\ \A m \in Says : (i \in GuidanceInboxes => alive) => Put(box, i, m)[i] # None
         /\ box[i] # None /\ box[i].message \in Says => Older(box)[i] # None
<1>1. ASSUME NEW m \in Says, i \in GuidanceInboxes => alive
      PROVE  Put(box, i, m)[i] # None
  <2>1. PICK a \in Nat : Put(box, i, m)[i] = [message |-> m, age |-> a]
    BY <1>1, Bounds DEF Put, Shaped
  <2> QED
    BY <2>1, MessageIsOne
<1>2. ASSUME box[i] # None, box[i].message \in Says
      PROVE  Older(box)[i] # None
  <2>1. PICK a \in Nat : Older(box)[i] = [message |-> box[i].message, age |-> a]
    BY <1>2, Bounds DEF Older, Shaped
  <2> QED
    BY <1>2, <2>1, MessageIsOne
<1> QED
  BY <1>1, <1>2

\* Taking what is in an inbox.
LEMMA TakenBox ==
  ASSUME Shaped(inbox), NEW i \in Inboxes
  PROVE  /\ Shaped(Taken(i)) /\ Taken(i)[i] = None
         /\ \A j \in Inboxes : j # i => Taken(i)[j] = inbox[j]
BY DEF Taken, Shaped

\* A tick, in time.
LEMMA OlderBox ==
  ASSUME Shaped(inbox), InTime
  PROVE  /\ Shaped(Older(inbox))
         /\ \A i \in Inboxes : inbox[i] = None => Older(inbox)[i] = None
         /\ \A i \in Inboxes : inbox[i] # None =>
              /\ Older(inbox)[i].message = inbox[i].message
              /\ Older(inbox)[i].age = inbox[i].age + 1 /\ inbox[i].age < Lag
BY Bounds DEF Older, Shaped, InTime

Gone(message) == [message EXCEPT !.own = FALSE]

\* The latest START or alignment makes past what is in some inboxes.
LEMMA PastBox ==
  ASSUME Shaped(inbox), NEW boxes \in SUBSET Inboxes
  PROVE  /\ Shaped(Past(inbox, boxes))
         /\ \A i \in Inboxes : i \notin boxes \/ inbox[i] = None =>
              Past(inbox, boxes)[i] = inbox[i]
         /\ \A i \in boxes : inbox[i] # None =>
              /\ Past(inbox, boxes)[i].message = Gone(inbox[i].message)
              /\ Past(inbox, boxes)[i].age = inbox[i].age
<1>1. ASSUME NEW i \in boxes, inbox[i] # None
      PROVE  /\ Past(inbox, boxes)[i] =
                  [message |-> Gone(inbox[i].message), age |-> inbox[i].age]
             /\ inbox[i].age \in 0 .. Lag
  <2>1. Past(inbox, boxes)[i] = [inbox[i] EXCEPT !.message.own = FALSE]
    BY <1>1 DEF Past
  <2>2. inbox[i] = [message |-> inbox[i].message, age |-> inbox[i].age] /\ inbox[i].age \in 0 .. Lag
    BY <1>1 DEF Shaped
  <2> QED
    BY <2>1, <2>2 DEF Gone
<1>f. ASSUME NEW i \in boxes, inbox[i] # None
      PROVE  /\ Past(inbox, boxes)[i].message = Gone(inbox[i].message)
             /\ Past(inbox, boxes)[i].age = inbox[i].age
  <2>1. PICK m, a : m = Gone(inbox[i].message) /\ a = inbox[i].age
    OBVIOUS
  <2>2. Past(inbox, boxes)[i] = [message |-> m, age |-> a]
    BY <1>1, <1>f, <2>1
  <2> QED
    BY <2>1, <2>2
<1>2. ASSUME NEW i \in Inboxes, i \notin boxes \/ inbox[i] = None
      PROVE  Past(inbox, boxes)[i] = inbox[i]
  BY <1>2 DEF Past
<1>3. DOMAIN Past(inbox, boxes) = Inboxes
  BY DEF Past
<1>4. Shaped(Past(inbox, boxes))
  <2> SUFFICES ASSUME NEW i \in Inboxes, Past(inbox, boxes)[i] # None
               PROVE  /\ Past(inbox, boxes)[i] = [message |-> Past(inbox, boxes)[i].message,
                                                 age |-> Past(inbox, boxes)[i].age]
                      /\ Past(inbox, boxes)[i].age \in 0 .. Lag
    BY <1>3 DEF Shaped
  <2>1. CASE i \in boxes /\ inbox[i] # None
    <3>1. PICK m, a : Past(inbox, boxes)[i] = [message |-> m, age |-> a] /\ a \in 0 .. Lag
      BY <1>1, <2>1
    <3> QED
      BY <3>1
  <2>2. CASE i \notin boxes \/ inbox[i] = None
    BY <1>2, <2>2 DEF Shaped
  <2> QED
    BY <2>1, <2>2
<1> QED
  BY <1>2, <1>4, <1>f

\* What is past is not own.
LEMMA OwnGone ==
  /\ \A m \in [active : BOOLEAN, own : BOOLEAN] :
       LET p == Gone(m)
       IN p \in [active : BOOLEAN, own : BOOLEAN] /\ p.active = m.active /\ p.own = FALSE
  /\ \A m \in [valid : BOOLEAN, own : BOOLEAN] :
       LET p == Gone(m)
       IN p \in [valid : BOOLEAN, own : BOOLEAN] /\ p.valid = m.valid /\ p.own = FALSE
  /\ \A m \in [own : BOOLEAN] :
       LET p == Gone(m) IN p \in [own : BOOLEAN] /\ p.own = FALSE
BY DEF Gone

TypesInv == BaseFields /\ GuidanceTypes /\ ObservationFields /\ InboxInv

\* Everything keeps its type.
LEMMA TypesStep == GuidanceInv /\ TypesInv /\ [Next]_vars => TypesInv'
<1> SUFFICES ASSUME GuidanceInv, BaseFields, GuidanceTypes, ObservationFields, InboxInv,
                    [Next]_vars
             PROVE  BaseFields' /\ GuidanceTypes' /\ ObservationFields' /\ InboxInv'
  BY DEF TypesInv
<1> USE Names
<1>s. Shaped(inbox)
  BY DEF InboxInv
<1>g. GuidanceFields(guidance)
  BY DEF GuidanceInv
<1>1. CASE PublishState
  <2>1. PICK reading : inbox' = Put(Put(Older(inbox), "state_guidance", reading),
                                    "state_observation", reading)
    BY <1>1 DEF PublishState
  <2>2. Shaped(inbox') /\ \A i \in Inboxes : i # "state_guidance" /\ i # "state_observation" =>
          /\ inbox[i] = None => inbox'[i] = None
          /\ inbox[i] # None => inbox'[i].message = inbox[i].message
    BY <1>1, <1>s, <2>1, OlderBox, PutBox, PutDead DEF PublishState
  <2>3. InboxInv'
    <3>1. ~alive => inbox'["state_guidance"] = None
      BY <1>1, <1>s, <2>1, OlderBox, PutBox, PutDead DEF PublishState, InboxInv, Waiting
    <3>2. alive' = alive /\ localization' = localization
      BY <1>1 DEF PublishState
    <3> QED
      BY <2>2, <3>1, <3>2 DEF InboxInv, Waiting, Message
  <2>4. BaseFields'
    <3>1. base.idle \in 0 .. MinGap /\ since \in 0 .. Settle
      BY DEF BaseFields
    <3>2. Tally(MinGap, base.idle) \in 0 .. MinGap /\ Tally(Settle, since) \in 0 .. Settle
      BY <3>1, Bounds, NoneIsNoCount DEF Tally
    <3> QED
      BY <1>1, <3>2 DEF PublishState, BaseFields
  <2>5. GuidanceTypes'
    BY <1>1, <1>g DEF PublishState, GuidanceTypes, GuidanceFields
  <2>6. ObservationFields'
    BY <1>1, Bounds, NoneAssumption DEF PublishState, ObservationFields, Tally
  <2> QED
    BY <2>3, <2>4, <2>5, <2>6
<1>2. CASE PublishActive
  <2> DEFINE message == [active |-> base.active, own |-> TRUE]
             first == Put(inbox, "active_guidance", message)
  <2>1. inbox' = Put(first, "active_observation", base.active)
    BY <1>2 DEF PublishActive
  <2>2. Shaped(first)
    BY <1>s, PutBox, PutDead
  <2> HIDE DEF first
  <2>3. Shaped(inbox') /\ \A i \in Inboxes : i # "active_guidance" /\ i # "active_observation" =>
          inbox'[i] = inbox[i]
    BY <1>s, <2>1, <2>2, PutBox, PutDead DEF first
  <2>4. inbox'["active_observation"].message = base.active
    BY <2>1, <2>2, PutBox, PutDead
  <2>5. inbox'["active_guidance"] = first["active_guidance"]
    BY <2>1, <2>2, PutBox, PutDead
  <2>6. IF alive THEN inbox'["active_guidance"].message = message
                 ELSE inbox'["active_guidance"] = inbox["active_guidance"]
    BY <1>s, <2>5, PutBox, PutDead DEF first
  <2>7. InboxInv'
    <3>1. alive' = alive /\ localization' = localization /\ base.active \in BOOLEAN
      BY <1>2 DEF PublishActive, BaseFields
    <3>2. message \in [active : BOOLEAN, own : BOOLEAN]
      BY <3>1
    <3> HIDE DEF message
    <3> QED
      BY <2>3, <2>4, <2>6, <3>1, <3>2 DEF InboxInv, Waiting, Message
  <2> QED
    BY <1>2, <2>7 DEF PublishActive, BaseFields, GuidanceTypes, ObservationFields
<1>3. CASE Start
  <2>1. inbox' = Past(inbox, Computed \cup {"active_guidance"})
    BY <1>3 DEF Start
  <2>2. /\ Shaped(inbox')
        /\ \A i \in Inboxes : i \notin Computed \cup {"active_guidance"} => inbox'[i] = inbox[i]
        /\ \A i \in Computed \cup {"active_guidance"} :
              IF inbox[i] = None THEN inbox'[i] = None
              ELSE inbox'[i].message = Gone(inbox[i].message)
    BY <1>s, <2>1, PastBox
  <2>3. InboxInv'
    <3>1. alive' = alive /\ localization' = localization
      BY <1>3 DEF Start
    <3> QED
      BY <2>2, <3>1, OwnGone DEF InboxInv, Waiting, Message
  <2>4. BaseFields'
    BY <1>3, Bounds DEF Start, BaseFields
  <2>5. GuidanceTypes' /\ ObservationFields'
    BY <1>3, <1>g DEF Start, GuidanceTypes, GuidanceFields, ObservationFields, PastDesired
  <2> QED
    BY <2>3, <2>4, <2>5
<1>4. CASE Stop \/ OnWrench
  <2>1. BaseFields'
    BY <1>4, Bounds DEF Stop, OnWrench, Stopped, BaseFields
  <2>2. Shaped(inbox') /\ \A i \in Inboxes : inbox'[i] \in {inbox[i], None}
    BY <1>4, <1>s, TakenBox DEF Stop, OnWrench
  <2>3. InboxInv'
    <3>1. alive' = alive /\ localization' = localization
      BY <1>4 DEF Stop, OnWrench
    <3> QED
      BY <2>2, <3>1 DEF InboxInv, Waiting, Message
  <2> QED
    BY <1>4, <2>1, <2>3 DEF Stop, OnWrench, GuidanceTypes, ObservationFields
<1>5. CASE PublishStatus
  <2>1. PICK epoch \in {localization, None} : inbox' = Put(inbox, "status_guidance", epoch)
    BY <1>5 DEF PublishStatus
  <2>2. /\ Shaped(inbox') /\ (\A i \in Inboxes : i # "status_guidance" => inbox'[i] = inbox[i])
        /\ IF alive THEN inbox'["status_guidance"].message = epoch ELSE inbox'["status_guidance"] = inbox["status_guidance"]
    BY <1>s, <2>1, PutBox, PutDead
  <2>3. InboxInv'
    <3>1. alive' = alive /\ localization' = localization
      BY <1>5 DEF PublishStatus
    <3> QED
      BY <2>2, <3>1 DEF InboxInv, Waiting, Message
  <2> QED
    BY <1>5, <2>3 DEF PublishStatus, BaseFields, GuidanceTypes, ObservationFields
<1>6. CASE Realign
  <2> DEFINE past == Past(inbox, Computed)
  <2>1. inbox' = Put(past, "status_guidance", localization')
    BY <1>6 DEF Realign
  <2>2. /\ Shaped(past) /\ (\A i \in Inboxes : i \notin Computed => past[i] = inbox[i])
        /\ \A i \in Computed :
              IF inbox[i] = None THEN past[i] = None
              ELSE past[i].message = Gone(inbox[i].message)
    BY <1>s, PastBox
  <2> HIDE DEF past
  <2>3. /\ Shaped(inbox') /\ (\A i \in Inboxes : i # "status_guidance" => inbox'[i] = past[i])
        /\ IF alive THEN inbox'["status_guidance"].message = localization'
                    ELSE inbox'["status_guidance"] = past["status_guidance"]
    BY <2>1, <2>2, PutBox, PutDead
  <2>4. InboxInv'
    <3>1. alive' = alive
      BY <1>6 DEF Realign
    <3> QED
      BY <2>2, <2>3, <3>1, OwnGone DEF InboxInv, Waiting, Message
  <2>5. BaseFields'
    BY <1>6, Bounds DEF Realign, BaseFields
  <2>6. GuidanceTypes' /\ ObservationFields'
    BY <1>6, <1>g DEF Realign, GuidanceTypes, GuidanceFields, ObservationFields, PastDesired
  <2> QED
    BY <2>4, <2>5, <2>6
<1>7. CASE StatusAges
  BY <1>7, <1>g DEF StatusAges, GuidanceTypes, GuidanceFields, BaseFields, ObservationFields,
     InboxInv, Waiting, Message, Shaped
<1>8. CASE GuidanceOnActive \/ OnPoolStatus
  <2>1. Shaped(inbox') /\ \A i \in Inboxes : inbox'[i] \in {inbox[i], None}
    BY <1>8, <1>s, TakenBox DEF GuidanceOnActive, OnPoolStatus
  <2>2. InboxInv'
    <3>1. alive' = alive /\ localization' = localization
      BY <1>8 DEF GuidanceOnActive, OnPoolStatus
    <3> QED
      BY <2>1, <3>1 DEF InboxInv, Waiting, Message
  <2>3. GuidanceTypes'
    <3>1. alive
      BY <1>8 DEF GuidanceOnActive, OnPoolStatus, InboxInv, Waiting
    <3>2. CASE GuidanceOnActive
      <4>1. inbox["active_guidance"].message \in [active : BOOLEAN, own : BOOLEAN]
        BY <3>2 DEF GuidanceOnActive, InboxInv, Waiting, Message
      <4> QED
        BY <1>g, <3>1, <3>2, <4>1 DEF GuidanceOnActive, Edge, GuidanceTypes, GuidanceFields
    <3>3. CASE OnPoolStatus
      BY <1>g, <3>1, <3>3 DEF OnPoolStatus, GuidanceTypes, GuidanceFields
    <3> QED
      BY <1>8, <3>2, <3>3
  <2> QED
    BY <1>8, <2>2, <2>3 DEF GuidanceOnActive, OnPoolStatus, BaseFields, ObservationFields
<1>9. CASE GuidanceOnState
  <2> DEFINE framed == Framed(guidance)
  <2>1. /\ GuidanceFields(framed) /\ framed.active = guidance.active
        /\ framed.edge = guidance.edge
        /\ framed.initialized \in BOOLEAN /\ framed.own \in BOOLEAN
    BY <1>g DEF Framed, GuidanceFields, GuidanceTypes
  <2> HIDE DEF framed
  <2>2. GuidanceTypes'
    <3>1. CASE UNCHANGED guidance
      BY <1>9, <3>1 DEF GuidanceOnState, GuidanceTypes
    <3>2. CASE ~UNCHANGED guidance
      <4>1. \E p, l : guidance' = [framed EXCEPT !.progress = p, !.last = l]
        BY <1>9, <3>2, Zenon DEF GuidanceOnState, framed
      <4>2. alive
        BY <1>9 DEF GuidanceOnState, InboxInv, Waiting
      <4>3. alive' = alive
        BY <1>9 DEF GuidanceOnState
      <4> QED
        BY <2>1, <4>1, <4>2, <4>3 DEF GuidanceTypes, GuidanceFields
    <3> QED
      BY <3>1, <3>2
  <2>3. \/ inbox' = Taken("state_guidance")
        \/ inbox' = Put(Taken("state_guidance"), "desired_observation", [own |-> framed.own])
    BY <1>9, Zenon DEF GuidanceOnState, framed
  <2>4. /\ Shaped(inbox')
        /\ \A i \in Inboxes : i # "desired_observation" => inbox'[i] \in {inbox[i], None}
        /\ \/ inbox'["desired_observation"] = inbox["desired_observation"]
           \/ inbox'["desired_observation"].message = [own |-> framed.own]
    BY <1>s, <2>3, TakenBox, PutBox, PutDead
  <2>5. InboxInv'
    <3>1. alive' = alive /\ localization' = localization
      BY <1>9 DEF GuidanceOnState
    <3> QED
      BY <2>1, <2>4, <3>1 DEF InboxInv, Waiting, Message
  <2> QED
    BY <1>9, <2>2, <2>5 DEF GuidanceOnState, BaseFields, ObservationFields
<1>10. CASE GuidanceDies
  <2> DEFINE past == Past(inbox, Computed)
  <2>1. inbox' = [i \in Inboxes |-> IF i \in GuidanceInboxes THEN None ELSE past[i]]
    BY <1>10 DEF GuidanceDies
  <2>2. /\ Shaped(past) /\ (\A i \in Inboxes : i \notin Computed => past[i] = inbox[i])
        /\ \A i \in Computed :
              IF inbox[i] = None THEN past[i] = None
              ELSE past[i].message = Gone(inbox[i].message)
    BY <1>s, PastBox
  <2> HIDE DEF past
  <2>3. Shaped(inbox')
    BY <2>1, <2>2 DEF Shaped
  <2>4. InboxInv'
    BY <2>1, <2>2, <2>3, OwnGone DEF InboxInv, Waiting, Message
  <2>5. BaseFields' /\ GuidanceTypes'
    BY <1>10, Bounds DEF GuidanceDies, BaseFields, GuidanceTypes, NewGuidance
  <2>6. ObservationFields'
    BY <1>10 DEF GuidanceDies, ObservationFields, PastDesired
  <2> QED
    BY <2>4, <2>5, <2>6
<1>11. CASE ObservationOnActive \/ OnDesired \/ ResetIntegrator
  <2>1. Shaped(inbox') /\ \A i \in Inboxes : inbox'[i] \in {inbox[i], None}
    BY <1>11, <1>s, TakenBox DEF ObservationOnActive, OnDesired, ResetIntegrator
  <2>2. InboxInv'
    <3>1. alive' = alive /\ localization' = localization
      BY <1>11 DEF ObservationOnActive, OnDesired, ResetIntegrator
    <3> QED
      BY <2>1, <3>1 DEF InboxInv, Waiting, Message
  <2>3. ObservationFields'
    <3>1. CASE ObservationOnActive
      <4>1. inbox["active_observation"].message \in BOOLEAN
        BY <3>1 DEF ObservationOnActive, InboxInv, Waiting, Message
      <4> QED
        BY <3>1, <4>1 DEF ObservationOnActive, ObservationEdge, ObservationFields
    <3>2. CASE OnDesired
      <4>1. inbox["desired_observation"].message \in [own : BOOLEAN]
        BY <3>2 DEF OnDesired, InboxInv, Waiting, Message
      <4> QED
        BY <3>2, <4>1, Bounds DEF OnDesired, ObservationFields
    <3>3. CASE ResetIntegrator
      BY <3>3 DEF ResetIntegrator, ObservationFields
    <3> QED
      BY <1>11, <3>1, <3>2, <3>3
  <2> QED
    BY <1>11, <2>2, <2>3 DEF ObservationOnActive, OnDesired, ResetIntegrator, BaseFields,
       GuidanceTypes
<1>12. CASE ObservationOnState
  <2>1. PICK v \in BOOLEAN, o \in BOOLEAN :
          inbox' = Put(Taken("state_observation"), "observation_policy", [valid |-> v, own |-> o])
    BY <1>12 DEF ObservationOnState, ObservationFields
  <2>2. /\ Shaped(inbox')
        /\ \A i \in Inboxes : i # "observation_policy" => inbox'[i] \in {inbox[i], None}
        /\ inbox'["observation_policy"].message = [valid |-> v, own |-> o]
    BY <1>s, <2>1, TakenBox, PutBox, PutDead
  <2>3. InboxInv'
    <3>1. alive' = alive /\ localization' = localization
      BY <1>12 DEF ObservationOnState
    <3> QED
      BY <2>2, <3>1 DEF InboxInv, Waiting, Message
  <2>4. ObservationFields'
    BY <1>12 DEF ObservationOnState, ObservationFields
  <2> QED
    BY <1>12, <2>3, <2>4 DEF ObservationOnState, BaseFields, GuidanceTypes
<1>13. CASE OnObservation
  <2>1. inbox["observation_policy"].message \in [valid : BOOLEAN, own : BOOLEAN]
    BY <1>13 DEF OnObservation, InboxInv, Waiting, Message
  <2>2. \/ inbox' = Taken("observation_policy")
        \/ inbox' = Put(Taken("observation_policy"), "wrench_base",
                        [own |-> inbox["observation_policy"].message.own])
    BY <1>13 DEF OnObservation
  <2>3. /\ Shaped(inbox')
        /\ \A i \in Inboxes : i # "wrench_base" => inbox'[i] \in {inbox[i], None}
        /\ \/ inbox'["wrench_base"] = inbox["wrench_base"]
           \/ inbox'["wrench_base"].message = [own |-> inbox["observation_policy"].message.own]
    BY <1>s, <2>2, TakenBox, PutBox, PutDead
  <2>4. InboxInv'
    <3>1. alive' = alive /\ localization' = localization
      BY <1>13 DEF OnObservation
    <3> QED
      BY <2>1, <2>3, <3>1 DEF InboxInv, Waiting, Message
  <2> QED
    BY <1>13, <2>4 DEF OnObservation, BaseFields, GuidanceTypes, ObservationFields
<1>14. CASE UNCHANGED vars
  BY <1>14 DEF vars, BaseFields, GuidanceTypes, ObservationFields, InboxInv, Waiting, Message,
     Shaped
<1> QED
  BY <1>1, <1>2, <1>3, <1>4, <1>5, <1>6, <1>7, <1>8, <1>9, <1>10, <1>11, <1>12, <1>13, <1>14
  DEF Next, Handlers

\* What a step may do to an inbox.
Kept(i) == inbox'[i] = inbox[i]

Aged(i) ==
  IF inbox[i] = None THEN inbox'[i] = None
  ELSE /\ inbox'[i].message = inbox[i].message
       /\ inbox'[i].age = inbox[i].age + 1 /\ inbox[i].age < Lag

Filled(i, m) ==
  /\ inbox'[i].message = m
  /\ inbox'[i].age = IF inbox[i] = None THEN 0 ELSE inbox[i].age

MadePast(i) ==
  IF inbox[i] = None THEN inbox'[i] = None
  ELSE /\ inbox'[i].message = Gone(inbox[i].message)
       /\ inbox'[i].age = inbox[i].age

Emptied(i) == \A j \in Inboxes : IF j = i THEN inbox'[j] = None ELSE Kept(j)

\* What base_node and the alignment do to the inboxes.
LEMMA BaseMoves ==
  ASSUME Shaped(inbox), ~alive => \A i \in GuidanceInboxes : inbox[i] = None
  PROVE  /\ PublishState =>
              /\ \A i \in Inboxes : i # "state_guidance" /\ i # "state_observation" => Aged(i)
              /\ ~alive => inbox'["state_guidance"] = None
         /\ PublishActive =>
              /\ \A i \in Inboxes : i # "active_guidance" /\ i # "active_observation" => Kept(i)
              /\ IF alive THEN Filled("active_guidance", [active |-> base.active, own |-> TRUE])
                 ELSE Kept("active_guidance")
              /\ Filled("active_observation", base.active)
         /\ Start => \A i \in Inboxes :
              IF i \in Computed \cup {"active_guidance"} THEN MadePast(i) ELSE Kept(i)
         /\ PublishStatus => \E epoch \in {localization, None} :
              /\ \A i \in Inboxes : i # "status_guidance" => Kept(i)
              /\ IF alive THEN Filled("status_guidance", epoch) ELSE Kept("status_guidance")
         /\ Realign =>
              /\ \A i \in Inboxes : i # "status_guidance" =>
                   IF i \in Computed THEN MadePast(i) ELSE Kept(i)
              /\ IF alive THEN Filled("status_guidance", localization + 1)
                 ELSE Kept("status_guidance")
         /\ OnWrench => Emptied("wrench_base")
<1> USE Names
<1>1. ASSUME PublishState
      PROVE  /\ \A i \in Inboxes : i # "state_guidance" /\ i # "state_observation" => Aged(i)
             /\ ~alive => inbox'["state_guidance"] = None
  <2>1. PICK reading : inbox' = Put(Put(Older(inbox), "state_guidance", reading),
                                    "state_observation", reading)
    BY <1>1 DEF PublishState
  <2>2. InTime
    BY <1>1 DEF PublishState
  <2> DEFINE older == Older(inbox)
             first == Put(older, "state_guidance", reading)
  <2>3. Shaped(older)
    BY <2>2, OlderBox
  <2>4. \A i \in Inboxes :
          IF inbox[i] = None THEN older[i] = None
          ELSE /\ older[i].message = inbox[i].message
               /\ older[i].age = inbox[i].age + 1 /\ inbox[i].age < Lag
    BY <2>2, OlderBox
  <2> HIDE DEF older
  <2>5. /\ Shaped(first) /\ (\A i \in Inboxes : i # "state_guidance" => first[i] = older[i])
        /\ ~alive => first = older
    BY <2>3, PutBox, PutDead
  <2> HIDE DEF first
  <2>6. \A i \in Inboxes : i # "state_observation" => inbox'[i] = first[i]
    BY <2>1, <2>5, PutBox DEF first, older
  <2> QED
    BY <2>4, <2>5, <2>6 DEF Aged
<1>2. ASSUME PublishActive
      PROVE  /\ \A i \in Inboxes : i # "active_guidance" /\ i # "active_observation" => Kept(i)
             /\ IF alive THEN Filled("active_guidance", [active |-> base.active, own |-> TRUE])
                ELSE Kept("active_guidance")
             /\ Filled("active_observation", base.active)
  <2> DEFINE message == [active |-> base.active, own |-> TRUE]
             first == Put(inbox, "active_guidance", message)
  <2>1. inbox' = Put(first, "active_observation", base.active)
    BY <1>2 DEF PublishActive
  <2> HIDE DEF message
  <2>2. /\ Shaped(first) /\ (\A i \in Inboxes : i # "active_guidance" => first[i] = inbox[i])
        /\ IF alive THEN /\ first["active_guidance"].message = message
                         /\ first["active_guidance"].age = IF inbox["active_guidance"] = None THEN 0
                                                           ELSE inbox["active_guidance"].age
           ELSE first = inbox
    BY PutBox, PutDead
  <2> HIDE DEF first
  <2>3. /\ \A i \in Inboxes : i # "active_observation" => inbox'[i] = first[i]
        /\ inbox'["active_observation"].message = base.active
        /\ inbox'["active_observation"].age = IF first["active_observation"] = None THEN 0
                                              ELSE first["active_observation"].age
    BY <2>1, <2>2, PutBox
  <2>4. inbox'["active_guidance"] = first["active_guidance"]
        /\ first["active_observation"] = inbox["active_observation"]
    BY <2>2, <2>3
  <2>5. \A i \in Inboxes : i # "active_guidance" /\ i # "active_observation" => Kept(i)
    BY <2>2, <2>3 DEF Kept
  <2>6. IF alive THEN Filled("active_guidance", message) ELSE Kept("active_guidance")
    BY <2>2, <2>4 DEF Kept, Filled
  <2>7. Filled("active_observation", base.active)
    BY <2>3, <2>4 DEF Filled
  <2> QED
    BY <2>5, <2>6, <2>7 DEF message
<1>3. ASSUME Start
      PROVE  \A i \in Inboxes :
               IF i \in Computed \cup {"active_guidance"} THEN MadePast(i) ELSE Kept(i)
  BY <1>3, PastBox DEF Start, MadePast, Kept
<1>4. ASSUME PublishStatus
      PROVE  \E epoch \in {localization, None} :
               /\ \A i \in Inboxes : i # "status_guidance" => Kept(i)
               /\ IF alive THEN Filled("status_guidance", epoch) ELSE Kept("status_guidance")
  BY <1>4, PutBox, PutDead DEF PublishStatus, Kept, Filled
<1>5. ASSUME Realign
      PROVE  /\ \A i \in Inboxes : i # "status_guidance" =>
                  IF i \in Computed THEN MadePast(i) ELSE Kept(i)
             /\ IF alive THEN Filled("status_guidance", localization + 1)
                ELSE Kept("status_guidance")
  <2> DEFINE past == Past(inbox, Computed)
  <2>1. inbox' = Put(past, "status_guidance", localization + 1)
    BY <1>5 DEF Realign
  <2>2. /\ Shaped(past)
        /\ \A i \in Inboxes : IF i \notin Computed \/ inbox[i] = None THEN past[i] = inbox[i]
                              ELSE /\ past[i].message = Gone(inbox[i].message)
                                   /\ past[i].age = inbox[i].age
    BY PastBox
  <2> HIDE DEF past
  <2> QED
    BY <2>1, <2>2, PutBox, PutDead DEF MadePast, Kept, Filled
<1>6. ASSUME OnWrench
      PROVE  Emptied("wrench_base")
  BY <1>6, TakenBox DEF OnWrench, Emptied, Kept
<1> QED
  BY <1>1, <1>2, <1>3, <1>4, <1>5, <1>6

\* What the other nodes do to the inboxes.
LEMMA NodeMoves ==
  ASSUME Shaped(inbox), ObservationFields
  PROVE  /\ GuidanceOnActive => Emptied("active_guidance")
         /\ OnPoolStatus => Emptied("status_guidance")
         /\ GuidanceOnState =>
              /\ \A i \in Inboxes : i # "state_guidance" /\ i # "desired_observation" => Kept(i)
              /\ inbox'["state_guidance"] = None
              /\ \/ Kept("desired_observation") /\ UNCHANGED guidance
                 \/ /\ Filled("desired_observation", [own |-> Framed(guidance).own])
                    /\ config.frame = "pool" => UsablePoolStatus(guidance)
         /\ GuidanceDies => \A i \in Inboxes :
              IF i \in GuidanceInboxes THEN inbox'[i] = None
              ELSE IF i \in Computed THEN MadePast(i) ELSE Kept(i)
         /\ ObservationOnActive => Emptied("active_observation")
         /\ OnDesired => Emptied("desired_observation")
         /\ ObservationOnState =>
              /\ \A i \in Inboxes : i # "state_observation" /\ i # "observation_policy" => Kept(i)
              /\ \E valid, own \in BOOLEAN :
                   /\ Filled("observation_policy", [valid |-> valid, own |-> own])
                   /\ valid /\ ~own =>
                        /\ observation.desired # None /\ observation.desired_age <= DesiredMaxAge
                        /\ ~observation.desired.own \/ observation.integral = "carried"
         /\ OnObservation =>
              /\ \A i \in Inboxes : i # "wrench_base" /\ i # "observation_policy" => Kept(i)
              /\ inbox'["observation_policy"] = None
              /\ \/ Kept("wrench_base")
                 \/ /\ inbox["observation_policy"].message.valid
                    /\ Filled("wrench_base", [own |-> inbox["observation_policy"].message.own])
<1> USE Names
<1>1. GuidanceOnActive => Emptied("active_guidance")
  BY TakenBox DEF GuidanceOnActive, Emptied, Kept
<1>2. OnPoolStatus => Emptied("status_guidance")
  BY TakenBox DEF OnPoolStatus, Emptied, Kept
<1>3. ASSUME GuidanceOnState
      PROVE  /\ \A i \in Inboxes : i # "state_guidance" /\ i # "desired_observation" => Kept(i)
             /\ inbox'["state_guidance"] = None
             /\ \/ Kept("desired_observation") /\ UNCHANGED guidance
                \/ /\ Filled("desired_observation", [own |-> Framed(guidance).own])
                   /\ config.frame = "pool" => UsablePoolStatus(guidance)
  <2> DEFINE message == [own |-> Framed(guidance).own]
  <2>1. \/ inbox' = Taken("state_guidance") /\ UNCHANGED guidance
        \/ /\ inbox' = Put(Taken("state_guidance"), "desired_observation", message)
           /\ ~GuidanceSilent(inbox["state_guidance"].message)
    BY <1>3, Zenon DEF GuidanceOnState
  <2> HIDE DEF message
  <2>2. \/ inbox' = Taken("state_guidance") /\ UNCHANGED guidance
        \/ /\ inbox' = Put(Taken("state_guidance"), "desired_observation", message)
           /\ config.frame = "pool" => UsablePoolStatus(guidance)
    BY <2>1, Zenon DEF GuidanceSilent
  <2>3. /\ \A i \in Inboxes : i # "state_guidance" /\ i # "desired_observation" => Kept(i)
        /\ inbox'["state_guidance"] = None
        /\ \/ Kept("desired_observation") /\ UNCHANGED guidance
           \/ /\ Filled("desired_observation", message)
              /\ config.frame = "pool" => UsablePoolStatus(guidance)
    BY <2>2, TakenBox, PutBox DEF Kept, Filled
  <2> QED
    BY <2>3, Zenon DEF message
<1>4. ASSUME GuidanceDies
      PROVE  \A i \in Inboxes : IF i \in GuidanceInboxes THEN inbox'[i] = None
                                ELSE IF i \in Computed THEN MadePast(i) ELSE Kept(i)
  <2> DEFINE past == Past(inbox, Computed)
  <2>1. inbox' = [i \in Inboxes |-> IF i \in GuidanceInboxes THEN None ELSE past[i]]
    BY <1>4 DEF GuidanceDies
  <2>2. \A i \in Inboxes : IF i \notin Computed \/ inbox[i] = None THEN past[i] = inbox[i]
                           ELSE /\ past[i].message = Gone(inbox[i].message)
                                /\ past[i].age = inbox[i].age
    BY PastBox
  <2> HIDE DEF past
  <2> QED
    BY <2>1, <2>2 DEF MadePast, Kept
<1>5. (ObservationOnActive => Emptied("active_observation"))
      /\ (OnDesired => Emptied("desired_observation"))
  BY TakenBox DEF ObservationOnActive, OnDesired, Emptied, Kept
<1>6. ASSUME ObservationOnState
      PROVE  /\ \A i \in Inboxes : i # "state_observation" /\ i # "observation_policy" => Kept(i)
             /\ \E valid, own \in BOOLEAN :
                  /\ Filled("observation_policy", [valid |-> valid, own |-> own])
                  /\ valid /\ ~own =>
                       /\ observation.desired # None /\ observation.desired_age <= DesiredMaxAge
                       /\ ~observation.desired.own \/ observation.integral = "carried"
  <2>1. \E valid, own \in BOOLEAN :
           /\ inbox' = Put(Taken("state_observation"), "observation_policy",
                           [valid |-> valid, own |-> own])
           /\ valid /\ ~own =>
                /\ observation.desired # None /\ observation.desired_age <= DesiredMaxAge
                /\ ~observation.desired.own \/ observation.integral = "carried"
    <3>1. CASE inbox' = Put(Taken("state_observation"), "observation_policy",
                            [valid |-> FALSE, own |-> FALSE])
      BY <3>1
    <3>2. CASE /\ Observes(inbox["state_observation"].message)
               /\ inbox' = Put(Taken("state_observation"), "observation_policy",
                               [valid |-> TRUE,
                                own |-> observation.desired.own /\ observation'.integral # "carried"])
               /\ \E gap \in BOOLEAN :
                    observation' = [observation EXCEPT !.integral =
                      IF @ = "zero" /\ observation.active /\ ~gap THEN "own" ELSE @]
      <4> DEFINE o == observation.desired.own /\ observation'.integral # "carried"
      <4>1. o \in BOOLEAN /\ observation.desired # None
            /\ observation.desired_age <= DesiredMaxAge
        BY <3>2 DEF Observes
      <4>2. observation'.integral = "carried" => observation.integral = "carried"
        BY <3>2 DEF ObservationFields
      <4>3. ~o => ~observation.desired.own \/ observation.integral = "carried"
        BY <4>2
      <4>4. inbox' = Put(Taken("state_observation"), "observation_policy",
                         [valid |-> TRUE, own |-> o])
        BY <3>2
      <4> HIDE DEF o
      <4> QED
        BY <4>1, <4>3, <4>4
    <3> QED
      BY <1>6, <3>1, <3>2, Zenon DEF ObservationOnState
  <2>2. PICK valid \in BOOLEAN, own \in BOOLEAN :
           /\ inbox' = Put(Taken("state_observation"), "observation_policy",
                           [valid |-> valid, own |-> own])
           /\ valid /\ ~own =>
                /\ observation.desired # None /\ observation.desired_age <= DesiredMaxAge
                /\ ~observation.desired.own \/ observation.integral = "carried"
    BY <2>1
  <2> DEFINE message == [valid |-> valid, own |-> own]
  <2> HIDE DEF message
  <2>3. (\A i \in Inboxes : i # "state_observation" /\ i # "observation_policy" => Kept(i))
        /\ Filled("observation_policy", message)
    BY <2>2, TakenBox, PutBox DEF Kept, Filled, message
  <2> QED
    BY <2>2, <2>3, Zenon DEF message
<1>7. ASSUME OnObservation
      PROVE  /\ \A i \in Inboxes : i # "wrench_base" /\ i # "observation_policy" => Kept(i)
             /\ inbox'["observation_policy"] = None
             /\ \/ Kept("wrench_base")
                \/ /\ inbox["observation_policy"].message.valid
                   /\ Filled("wrench_base", [own |-> inbox["observation_policy"].message.own])
  <2> DEFINE message == [own |-> inbox["observation_policy"].message.own]
  <2>1. \/ inbox' = Taken("observation_policy")
        \/ /\ inbox' = Put(Taken("observation_policy"), "wrench_base", message)
           /\ inbox["observation_policy"].message.valid
    BY <1>7 DEF OnObservation
  <2> HIDE DEF message
  <2>2. /\ \A i \in Inboxes : i # "wrench_base" /\ i # "observation_policy" => Kept(i)
        /\ inbox'["observation_policy"] = None
        /\ \/ Kept("wrench_base")
           \/ inbox["observation_policy"].message.valid /\ Filled("wrench_base", message)
    BY <2>1, TakenBox, PutBox DEF Kept, Filled
  <2> QED
    BY <2>2 DEF message
<1> QED
  BY <1>1, <1>2, <1>3, <1>4, <1>5, <1>6, <1>7, Zenon

\* What is waiting about control or the alignment stays until it is taken.
LEMMA StaysWaiting ==
  ASSUME InboxInv, BaseFields
  PROVE  /\ PublishState => \A i \in GuidanceInboxes \cup {"active_observation"} :
              i # "state_guidance" /\ Waiting(i) => Waiting(i)'
         /\ PublishActive => /\ alive => Waiting("active_guidance")'
                             /\ Waiting("active_observation")'
         /\ Start => (Waiting("active_guidance") => Waiting("active_guidance")')
         /\ (PublishStatus \/ Realign) /\ alive => Waiting("status_guidance")'
<1> USE Names
<1>s. Shaped(inbox) /\ localization \in Nat /\ base.active \in BOOLEAN
  BY DEF InboxInv, BaseFields
<1>1. ASSUME PublishState, NEW i \in GuidanceInboxes \cup {"active_observation"},
             i # "state_guidance", Waiting(i)
      PROVE  Waiting(i)'
  <2>1. PICK reading : inbox' = Put(Put(Older(inbox), "state_guidance", reading),
                                    "state_observation", reading)
    BY <1>1 DEF PublishState
  <2>2. Shaped(Older(inbox)) /\ i \in Inboxes
    BY <1>1, <1>s, OlderBox DEF PublishState
  <2>3. Message(i) \in Says
    BY <1>1, <1>s DEF Says, InboxInv, GuidanceInboxes
  <2>4. Older(inbox)[i] # None
    BY <1>1, <1>s, <2>2, <2>3, SaysBox DEF Waiting, Message
  <2>5. inbox'[i] = Older(inbox)[i]
    BY <1>1, <2>1, <2>2, PutBox, PutDead
  <2> QED
    BY <2>4, <2>5 DEF Waiting
<1>2. ASSUME PublishActive
      PROVE  (alive => Waiting("active_guidance")') /\ Waiting("active_observation")'
  <2> DEFINE message == [active |-> base.active, own |-> TRUE]
             first == Put(inbox, "active_guidance", message)
  <2>1. inbox' = Put(first, "active_observation", base.active)
    BY <1>2 DEF PublishActive
  <2>2. message \in Says /\ base.active \in Says
    BY <1>s DEF Says
  <2> HIDE DEF message
  <2>3. Shaped(first) /\ (alive => first["active_guidance"] # None)
    BY <1>s, <2>2, PutBox, PutDead, SaysBox
  <2> HIDE DEF first
  <2>4. inbox'["active_guidance"] = first["active_guidance"]
    BY <2>1, <2>3, PutBox
  <2>5. inbox'["active_observation"] # None
    BY <2>1, <2>2, <2>3, SaysBox
  <2> QED
    BY <2>3, <2>4, <2>5 DEF Waiting
<1>3. ASSUME Start, Waiting("active_guidance")
      PROVE  Waiting("active_guidance")'
  <2>1. PICK m, a : m = Gone(Message("active_guidance")) /\ a = Age("active_guidance")
    OBVIOUS
  <2>2. m \in Says /\ a \in Nat
    BY <1>3, <2>1, OwnGone, Bounds DEF InboxInv, Shaped, Waiting, Age, Says
  <2>3. inbox["active_guidance"] = [message |-> inbox["active_guidance"].message,
                                    age |-> inbox["active_guidance"].age]
    BY <1>3, <1>s DEF Shaped, Waiting
  <2>4. inbox'["active_guidance"] = [inbox["active_guidance"] EXCEPT !.message.own = FALSE]
    BY <1>3 DEF Start, Past, Waiting
  <2>5. inbox'["active_guidance"] = [message |-> Gone(inbox["active_guidance"].message),
                                     age |-> inbox["active_guidance"].age]
    BY <2>3, <2>4 DEF Gone
  <2>6. inbox'["active_guidance"] = [message |-> m, age |-> a]
    BY <2>1, <2>5 DEF Message, Age
  <2> QED
    BY <2>2, <2>6, MessageIsOne DEF Waiting
<1>4. ASSUME PublishStatus \/ Realign, alive
      PROVE  Waiting("status_guidance")'
  <2>1. {localization, None, localization + 1} \subseteq Says
    BY <1>s DEF Says
  <2>2. CASE PublishStatus
    BY <1>4, <1>s, <2>1, <2>2, SaysBox DEF PublishStatus, Waiting
  <2>3. CASE Realign
    <3>1. inbox' = Put(Past(inbox, Computed), "status_guidance", localization + 1)
      BY <2>3 DEF Realign
    <3>2. Shaped(Past(inbox, Computed))
      BY <1>s, PastBox
    <3> QED
      BY <1>4, <2>1, <3>1, <3>2, SaysBox DEF Waiting
  <2> QED
    BY <1>4, <2>2, <2>3
<1> QED
  BY <1>1, <1>2, <1>3, <1>4

-----------------------------------------------------------------------------
(* The edges of /brov/control_active.                                      *)

\* base_node has said, since control ended, that it has.
Told == base.idle > (IF base.publishing THEN 1 ELSE 0)

\* Out of control, who still believes in it has been told otherwise.
QuietInv ==
  ~base.active /\ Told =>
    /\ Waiting("active_guidance") => ~Message("active_guidance").active
    /\ guidance.active => /\ Waiting("active_guidance")
                          /\ Age("active_guidance") + 1 >= base.idle
    /\ Waiting("active_observation") => ~Message("active_observation")
    /\ observation.active => /\ Waiting("active_observation")
                             /\ Age("active_observation") + 1 >= base.idle

\* Ages are numbers up to Lag.
LEMMA Ages ==
  ASSUME InboxInv, NEW i \in Inboxes, Waiting(i)
  PROVE  Age(i) \in Nat /\ Age(i) <= Lag
BY Bounds DEF InboxInv, Shaped, Waiting, Age

\* What a tick, and what /brov/control_active, do to what is waiting.
LEMMA AgedBox ==
  ASSUME InboxInv, BaseFields, PublishState,
         NEW i \in GuidanceInboxes \cup {"active_observation"}, i # "state_guidance"
  PROVE  /\ Waiting(i)' <=> Waiting(i)
         /\ Waiting(i) => /\ Message(i)' = Message(i) /\ Age(i)' = Age(i) + 1
                          /\ Age(i) < Lag
<1>1. Aged(i)
  BY Names, BaseMoves DEF InboxInv, Waiting
<1>2. Waiting(i) => Waiting(i)'
  BY StaysWaiting
<1> QED
  BY <1>1, <1>2 DEF Aged, Waiting, Message, Age

\* What base_node says of control reaches every inbox of it, in the place of what waited there.
LEMMA ToldBox ==
  ASSUME InboxInv, BaseFields, PublishActive, NEW i \in {"active_guidance", "active_observation"},
         i = "active_guidance" => alive
  PROVE  /\ Waiting(i)' /\ Age(i)' = IF Waiting(i) THEN Age(i) ELSE 0
         /\ Message(i)' = IF i = "active_guidance" THEN [active |-> base.active, own |-> TRUE]
                          ELSE base.active
<1>1. Filled(i, IF i = "active_guidance" THEN [active |-> base.active, own |-> TRUE]
                ELSE base.active)
  BY Names, BaseMoves DEF InboxInv, Waiting
<1> QED
  BY <1>1, StaysWaiting DEF Filled, Waiting, Message, Age

\* A START makes the message about control past, and leaves it its place.
LEMMA StartBox ==
  ASSUME InboxInv, BaseFields, Start
  PROVE  /\ Waiting("active_guidance")' <=> Waiting("active_guidance")
         /\ Waiting("active_guidance") =>
              /\ Message("active_guidance")'.active = Message("active_guidance").active
              /\ Age("active_guidance")' = Age("active_guidance")
         /\ Kept("active_observation") /\ Kept("status_guidance")
<1>1. MadePast("active_guidance") /\ Kept("active_observation") /\ Kept("status_guidance")
  BY Names, BaseMoves DEF InboxInv, Waiting
<1>2. Waiting("active_guidance") =>
        Gone(Message("active_guidance")).active = Message("active_guidance").active
  BY OwnGone DEF InboxInv
<1> QED
  BY <1>1, <1>2, StaysWaiting DEF MadePast, Waiting, Message, Age

\* A step that changes no control message and gives control to none keeps QuietInv.
LEMMA QuietKept ==
  ASSUME QuietInv, Kept("active_guidance"), Kept("active_observation"),
         guidance'.active = guidance.active, observation'.active = observation.active,
         UNCHANGED base
  PROVE  QuietInv'
BY DEF QuietInv, Kept, Told, Waiting, Message, Age

\* QuietInv is inductive.
LEMMA QuietStep ==
  ASSUME GuidanceInv, TypesInv, QuietInv, [Next]_vars
  PROVE  QuietInv'
<1> USE Names
<1>s. /\ Shaped(inbox) /\ ObservationFields /\ InboxInv /\ BaseFields /\ GuidanceTypes
      /\ ~alive => \A i \in GuidanceInboxes : inbox[i] = None
  BY DEF TypesInv, InboxInv, Waiting
<1>g. GuidanceFields(guidance)
  BY DEF GuidanceInv
<1>n. MinGap \in Nat /\ None \notin Nat
  BY Bounds, NoneAssumption
<1>b. base.idle \in Nat /\ base.active \in BOOLEAN
  BY <1>s, Bounds DEF BaseFields
<1>a. /\ Waiting("active_guidance") => Age("active_guidance") \in Nat
      /\ Waiting("active_observation") => Age("active_observation") \in Nat
  BY <1>s, Ages
<1>1. CASE PublishState
  <2>1. /\ ~base.publishing
        /\ base' = [base EXCEPT !.publishing = TRUE,
                                !.idle = IF base.active THEN base.idle
                                         ELSE Tally(MinGap, base.idle)]
    BY <1>1 DEF PublishState
  <2>2. /\ base'.publishing = TRUE /\ base'.active = base.active
        /\ ~base.active => base'.idle = Tally(MinGap, base.idle)
    BY <1>s, <2>1 DEF BaseFields
  <2>3. ~base.active => base'.idle \in Nat /\ base'.idle <= base.idle + 1
    BY <1>n, <1>b, <2>2 DEF Tally
  <2>4. ~base.active /\ Told' => Told
    BY <1>b, <2>1, <2>2, <2>3 DEF Told
  <2>5. guidance'.active = guidance.active /\ observation'.active = observation.active
    BY <1>1, <1>s, <1>g DEF PublishState, GuidanceFields, ObservationFields
  <2>6. \A i \in {"active_guidance", "active_observation"} :
          /\ Waiting(i)' <=> Waiting(i)
          /\ Waiting(i) => Message(i)' = Message(i) /\ Age(i)' = Age(i) + 1
    BY <1>1, <1>s, AgedBox
  <2> QED
    BY <1>a, <1>b, <2>2, <2>3, <2>4, <2>5, <2>6 DEF QuietInv
<1>2. CASE PublishActive
  <2>1. /\ base'.publishing = FALSE /\ base'.active = base.active /\ base'.idle = base.idle
        /\ base.publishing /\ UNCHANGED <<alive, guidance, observation>>
    BY <1>2, <1>s DEF PublishActive, BaseFields
  <2>2. /\ Waiting("active_observation")' /\ Message("active_observation")' = base.active
        /\ Age("active_observation")' =
             IF Waiting("active_observation") THEN Age("active_observation") ELSE 0
    BY <1>2, <1>s, ToldBox
  <2>3. alive =>
          /\ Waiting("active_guidance")' /\ Message("active_guidance")'.active = base.active
          /\ Age("active_guidance")' =
               IF Waiting("active_guidance") THEN Age("active_guidance") ELSE 0
    BY <1>2, <1>s, ToldBox
  <2>4. ~alive => ~Waiting("active_guidance")' /\ ~guidance.active
    BY <1>2, <1>s, BaseMoves DEF Kept, Waiting, GuidanceTypes
  <2>5. ~Told => base.idle <= 1
    BY <1>b, <2>1 DEF Told
  <2> QED
    BY <1>a, <1>b, <2>1, <2>2, <2>3, <2>4, <2>5 DEF QuietInv
<1>3. CASE Start
  BY <1>3, <1>s DEF Start, BaseFields, QuietInv
<1>4. CASE Stop
  BY <1>4, <1>s DEF Stop, Stopped, BaseFields, QuietInv, Told
<1>5. CASE OnWrench
  <2>1. CASE base' = Stopped
    BY <2>1, <1>s DEF Stopped, BaseFields, QuietInv, Told
  <2>2. CASE UNCHANGED base
    <3>1. Kept("active_guidance") /\ Kept("active_observation")
      BY <1>5, <1>s, BaseMoves DEF Emptied
    <3> QED
      BY <1>5, <2>2, <3>1, QuietKept DEF OnWrench
  <2> QED
    BY <1>5, <2>1, <2>2 DEF OnWrench
<1>6. CASE GuidanceOnActive
  <2>1. /\ Waiting("active_guidance") /\ UNCHANGED <<base, observation>>
        /\ guidance' = Edge(guidance, Message("active_guidance"))
    BY <1>6 DEF GuidanceOnActive, Waiting, Message
  <2>2. Kept("active_observation") /\ ~Waiting("active_guidance")'
    BY <1>6, <1>s, NodeMoves DEF Emptied, Waiting
  <2>3. ~Message("active_guidance").active => ~guidance'.active
    BY <1>g, <2>1 DEF Edge, GuidanceFields
  <2> QED
    BY <2>1, <2>2, <2>3 DEF QuietInv, Told, Kept, Waiting, Message, Age
<1>7. CASE ObservationOnActive
  <2>1. /\ Waiting("active_observation") /\ UNCHANGED <<base, guidance>>
        /\ observation' = ObservationEdge(observation, Message("active_observation"))
    BY <1>7 DEF ObservationOnActive, Waiting, Message
  <2>2. Kept("active_guidance") /\ ~Waiting("active_observation")'
    BY <1>7, <1>s, NodeMoves DEF Emptied, Waiting
  <2>3. ~Message("active_observation") => ~observation'.active
    BY <1>s, <2>1 DEF ObservationEdge, ObservationFields
  <2> QED
    BY <2>1, <2>2, <2>3 DEF QuietInv, Told, Kept, Waiting, Message, Age
<1>8. CASE GuidanceDies
  <2>1. /\ ~guidance'.active /\ observation'.active = observation.active /\ UNCHANGED base
    BY <1>8, <1>s DEF GuidanceDies, NewGuidance, ObservationFields
  <2>2. Kept("active_observation") /\ ~Waiting("active_guidance")'
    BY <1>8, <1>s, NodeMoves DEF Waiting
  <2> QED
    BY <2>1, <2>2 DEF QuietInv, Told, Kept, Waiting, Message, Age
<1>9. CASE PublishStatus \/ Realign \/ StatusAges \/ OnPoolStatus \/ GuidanceOnState
  <2>1. guidance'.active = guidance.active
    <3>1. CASE GuidanceOnState
      <4>1. Framed(guidance).active = guidance.active /\ GuidanceFields(Framed(guidance))
        BY <1>g DEF Framed, GuidanceFields
      <4>2. UNCHANGED guidance \/ \E p, l : guidance' = [Framed(guidance) EXCEPT !.progress = p, !.last = l]
        BY <3>1, Zenon DEF GuidanceOnState
      <4> QED
        BY <4>1, <4>2 DEF GuidanceFields
    <3> QED
      BY <1>9, <1>g, <3>1 DEF PublishStatus, Realign, StatusAges, OnPoolStatus, GuidanceFields
  <2>2. observation'.active = observation.active /\ UNCHANGED base
    BY <1>9, <1>s DEF PublishStatus, Realign, StatusAges, OnPoolStatus, GuidanceOnState,
       ObservationFields
  <2>3. Kept("active_guidance") /\ Kept("active_observation")
    BY <1>9, <1>s, BaseMoves, NodeMoves DEF Emptied, StatusAges, Kept
  <2> QED
    BY <2>1, <2>2, <2>3, QuietKept
<1>10. CASE OnDesired \/ ObservationOnState \/ OnObservation \/ ResetIntegrator \/ UNCHANGED vars
  <2>1. observation'.active = observation.active /\ UNCHANGED base /\ UNCHANGED guidance
    BY <1>10, <1>s DEF OnDesired, ObservationOnState, OnObservation, ResetIntegrator, vars,
       ObservationFields
  <2>2. Kept("active_guidance") /\ Kept("active_observation")
    BY <1>10, <1>s, NodeMoves DEF Emptied, ResetIntegrator, vars, Kept
  <2> QED
    BY <2>1, <2>2, QuietKept
<1> QED
  BY <1>1, <1>2, <1>3, <1>4, <1>5, <1>6, <1>7, <1>8, <1>9, <1>10 DEF Next, Handlers

\* The START is not said yet: at most a tick ago, and whoever still believes in the
\* control before has been told otherwise and has no time left.
Unpublished == since <= 1 /\ (~base.publishing => since = 0)

GuidanceUntold ==
  /\ Unpublished
  /\ Waiting("active_guidance") => ~Message("active_guidance").active
  /\ guidance.active => /\ Waiting("active_guidance") /\ ~base.publishing
                        /\ Age("active_guidance") >= Lag

\* The edge of the latest START.
Edged == [active |-> TRUE, own |-> TRUE]

GuidanceTold ==
  /\ Waiting("active_guidance") /\ Message("active_guidance") = Edged
  /\ ~guidance.active /\ since <= Age("active_guidance") + 1

\* In control, guidance_node has not been told, has been told, or has taken the edge.
EdgeInv ==
  alive /\ base.active =>
    /\ ~guidance.edge => GuidanceUntold \/ GuidanceTold
    /\ guidance.edge => /\ guidance.active
                        /\ Waiting("active_guidance") => Message("active_guidance") = Edged

ObservationUntold ==
  /\ Unpublished
  /\ Waiting("active_observation") => ~Message("active_observation")
  /\ observation.active => /\ Waiting("active_observation") /\ ~base.publishing
                           /\ Age("active_observation") >= Lag

ObservationTold ==
  /\ Waiting("active_observation") /\ Message("active_observation")
  /\ ~observation.active /\ since <= Age("active_observation") + 1

\* An integral is carried over until the edge is taken.
CarriedInv ==
  base.active /\ observation.integral = "carried" => ObservationUntold \/ ObservationTold

\* A step that changes no control message and no node keeps EdgeInv, also where the
\* ticks begin anew.
LEMMA EdgeKept ==
  ASSUME InboxInv, EdgeInv, Kept("active_guidance"), UNCHANGED <<base, alive>>,
         since' = since \/ since' = 0,
         guidance'.active = guidance.active, guidance'.edge = guidance.edge
  PROVE  EdgeInv'
<1>1. Waiting("active_guidance") => Age("active_guidance") \in Nat
  BY Names, Ages
<1> QED
  BY <1>1 DEF EdgeInv, GuidanceUntold, GuidanceTold, Unpublished, Kept, Waiting, Message, Age

\* The same for CarriedInv and the integral.
LEMMA CarriedKept ==
  ASSUME InboxInv, CarriedInv, Kept("active_observation"), UNCHANGED base,
         since' = since \/ since' = 0, observation'.active = observation.active,
         observation'.integral = "carried" => observation.integral = "carried"
  PROVE  CarriedInv'
<1>1. Waiting("active_observation") => Age("active_observation") \in Nat
  BY Names, Ages
<1> QED
  BY <1>1 DEF CarriedInv, ObservationUntold, ObservationTold, Unpublished, Kept, Waiting, Message,
     Age

\* EdgeInv and CarriedInv are inductive, if control stays ended for longer than Lag.
LEMMA EdgeStep ==
  ASSUME GuidanceInv, TypesInv, QuietInv, EdgeInv, CarriedInv, MinGap > Lag, [Next]_vars
  PROVE  EdgeInv' /\ CarriedInv'
<1> USE Names
<1>s. /\ Shaped(inbox) /\ ObservationFields /\ InboxInv /\ BaseFields /\ GuidanceTypes
      /\ ~alive => \A i \in GuidanceInboxes : inbox[i] = None
  BY DEF TypesInv, InboxInv, Waiting
<1>g. GuidanceFields(guidance)
  BY DEF GuidanceInv
<1>n. Lag \in Nat /\ MinGap \in Nat /\ Settle \in Nat /\ Settle >= 1 /\ None \notin Nat
  BY Bounds, NoneAssumption
<1>b. base.active \in BOOLEAN /\ since \in Nat
  BY <1>s, Bounds DEF BaseFields
<1>a. /\ Waiting("active_guidance") => Age("active_guidance") \in Nat
      /\ Waiting("active_observation") => Age("active_observation") \in Nat
  BY <1>s, Ages
<1>1. CASE PublishState
  <2>1. /\ ~base.publishing /\ base'.publishing /\ base'.active = base.active
        /\ since' = Tally(Settle, since) /\ UNCHANGED alive
    BY <1>1, <1>s DEF PublishState, BaseFields
  <2>2. since' \in Nat /\ since' <= since + 1
    BY <1>n, <1>b, <2>1 DEF Tally
  <2>3. /\ guidance'.active = guidance.active /\ guidance'.edge = guidance.edge
        /\ observation'.active = observation.active
        /\ observation'.integral = observation.integral
    BY <1>1, <1>s, <1>g DEF PublishState, GuidanceFields, ObservationFields
  <2>4. \A i \in {"active_guidance", "active_observation"} :
          /\ Waiting(i)' <=> Waiting(i)
          /\ Waiting(i) => Message(i)' = Message(i) /\ Age(i)' = Age(i) + 1 /\ Age(i) < Lag
    BY <1>1, <1>s, AgedBox
  <2>5. GuidanceUntold => GuidanceUntold'
    BY <1>a, <1>n, <2>1, <2>2, <2>3, <2>4 DEF GuidanceUntold, Unpublished
  <2>6. GuidanceTold => GuidanceTold'
    BY <1>a, <1>b, <2>2, <2>3, <2>4 DEF GuidanceTold
  <2>7. ObservationUntold => ObservationUntold'
    BY <1>a, <1>n, <2>1, <2>2, <2>3, <2>4 DEF ObservationUntold, Unpublished
  <2>8. ObservationTold => ObservationTold'
    BY <1>a, <1>b, <2>2, <2>3, <2>4 DEF ObservationTold
  <2> QED
    BY <2>1, <2>3, <2>4, <2>5, <2>6, <2>7, <2>8 DEF EdgeInv, CarriedInv
<1>2. CASE PublishActive
  <2>1. /\ base.publishing /\ base'.active = base.active
        /\ UNCHANGED <<alive, guidance, observation, since>>
    BY <1>2, <1>s DEF PublishActive, BaseFields
  <2>2. /\ Waiting("active_observation")' /\ Message("active_observation")' = base.active
        /\ Age("active_observation")' =
             IF Waiting("active_observation") THEN Age("active_observation") ELSE 0
    BY <1>2, <1>s, ToldBox
  <2>3. alive =>
          /\ Waiting("active_guidance")'
          /\ Message("active_guidance")' = [active |-> base.active, own |-> TRUE]
          /\ Age("active_guidance")' =
               IF Waiting("active_guidance") THEN Age("active_guidance") ELSE 0
    BY <1>2, <1>s, ToldBox
  <2>4. alive /\ base.active => Message("active_guidance")' = Edged
    BY <2>3, <1>b DEF Edged
  <2>5. alive /\ base.active /\ (GuidanceUntold \/ GuidanceTold) => GuidanceTold'
    BY <1>a, <1>b, <2>1, <2>3, <2>4 DEF GuidanceUntold, GuidanceTold, Unpublished
  <2>6. base.active => Message("active_observation")'
    BY <2>2, Zenon
  <2>7. base.active /\ (ObservationUntold \/ ObservationTold) => ObservationTold'
    BY <1>a, <1>b, <2>1, <2>2, <2>6 DEF ObservationUntold, ObservationTold, Unpublished
  <2> QED
    BY <2>1, <2>4, <2>5, <2>7 DEF EdgeInv, CarriedInv
<1>3. CASE Start
  <2>1. /\ ~base.active /\ ~base.publishing /\ base.idle = MinGap /\ since' = 0
        /\ base'.publishing = FALSE /\ UNCHANGED alive
    BY <1>3, <1>s DEF Start, BaseFields
  <2>2. /\ guidance'.active = guidance.active /\ guidance'.edge = FALSE
        /\ observation'.active = observation.active
    BY <1>3, <1>s, <1>g DEF Start, GuidanceFields, ObservationFields
  <2>3. Told
    BY <1>n, <2>1 DEF Told
  <2>4. GuidanceUntold'
    BY <1>a, <1>n, <1>3, <1>s, <2>1, <2>2, <2>3, StartBox DEF QuietInv, GuidanceUntold, Unpublished
  <2>5. ObservationUntold'
    BY <1>a, <1>n, <1>3, <1>s, <2>1, <2>2, <2>3, StartBox
    DEF QuietInv, ObservationUntold, Unpublished, Kept, Waiting, Message, Age
  <2> QED
    BY <2>2, <2>4, <2>5 DEF EdgeInv, CarriedInv
<1>4. CASE Stop
  BY <1>4, <1>s DEF Stop, Stopped, BaseFields, EdgeInv, CarriedInv
<1>5. CASE OnWrench
  <2>1. CASE base' = Stopped
    BY <2>1, <1>s DEF Stopped, BaseFields, EdgeInv, CarriedInv
  <2>2. CASE UNCHANGED base
    <3>1. Kept("active_guidance") /\ Kept("active_observation")
      BY <1>5, <1>s, BaseMoves DEF Emptied
    <3> QED
      BY <1>5, <1>s, <2>2, <3>1, EdgeKept, CarriedKept DEF OnWrench
  <2> QED
    BY <1>5, <2>1, <2>2 DEF OnWrench
<1>6. CASE GuidanceOnActive
  <2>1. /\ Waiting("active_guidance") /\ UNCHANGED <<base, observation, since, alive>>
        /\ guidance' = Edge(guidance, Message("active_guidance"))
    BY <1>6 DEF GuidanceOnActive, Waiting, Message
  <2>2. Kept("active_observation") /\ ~Waiting("active_guidance")'
    BY <1>6, <1>s, NodeMoves DEF Emptied, Waiting
  <2>3. ~Message("active_guidance").active => ~guidance'.active /\ guidance'.edge = guidance.edge
    BY <1>g, <2>1 DEF Edge, GuidanceFields
  <2>4. Message("active_guidance") = Edged =>
          /\ guidance'.active
          /\ guidance.active => guidance'.edge = guidance.edge
          /\ ~guidance.active => guidance'.edge = TRUE
    BY <1>g, <2>1 DEF Edge, GuidanceFields, Edged
  <2>5. EdgeInv'
    BY <2>1, <2>2, <2>3, <2>4 DEF EdgeInv, GuidanceUntold, GuidanceTold, Unpublished
  <2>6. CarriedInv'
    BY <1>s, <2>1, <2>2, CarriedKept
  <2> QED
    BY <2>5, <2>6
<1>7. CASE ObservationOnActive
  <2>1. /\ Waiting("active_observation") /\ UNCHANGED <<base, guidance, since, alive>>
        /\ observation' = ObservationEdge(observation, Message("active_observation"))
    BY <1>7 DEF ObservationOnActive, Waiting, Message
  <2>2. Kept("active_guidance") /\ ~Waiting("active_observation")'
    BY <1>7, <1>s, NodeMoves DEF Emptied, Waiting
  <2>3. /\ ~Message("active_observation") =>
             ~observation'.active /\ observation'.integral = observation.integral
        /\ Message("active_observation") /\ ~observation.active => observation'.integral = "zero"
        /\ observation'.integral = "carried" => observation.integral = "carried"
    BY <1>s, <2>1 DEF ObservationEdge, ObservationFields
  <2>4. EdgeInv'
    BY <1>s, <2>1, <2>2, EdgeKept
  <2>5. CarriedInv'
    BY <2>1, <2>2, <2>3 DEF CarriedInv, ObservationUntold, ObservationTold, Unpublished
  <2> QED
    BY <2>4, <2>5
<1>8. CASE GuidanceDies
  <2>1. /\ observation'.active = observation.active /\ observation'.integral = observation.integral
        /\ UNCHANGED base /\ since' = 0 /\ ~alive'
    BY <1>8, <1>s DEF GuidanceDies, ObservationFields
  <2>2. Kept("active_observation")
    BY <1>8, <1>s, NodeMoves
  <2>3. CarriedInv'
    BY <1>s, <2>1, <2>2, CarriedKept
  <2> QED
    BY <2>1, <2>3 DEF EdgeInv
<1>9. CASE PublishStatus \/ Realign \/ StatusAges \/ OnPoolStatus \/ GuidanceOnState
  <2>1. guidance'.active = guidance.active /\ guidance'.edge = guidance.edge
    <3>1. CASE GuidanceOnState
      <4>1. /\ Framed(guidance).active = guidance.active /\ Framed(guidance).edge = guidance.edge
            /\ GuidanceFields(Framed(guidance))
        BY <1>g DEF Framed, GuidanceFields
      <4>2. UNCHANGED guidance \/ \E p, l : guidance' = [Framed(guidance) EXCEPT !.progress = p, !.last = l]
        BY <3>1, Zenon DEF GuidanceOnState
      <4> QED
        BY <4>1, <4>2 DEF GuidanceFields
    <3> QED
      BY <1>9, <1>g, <3>1 DEF PublishStatus, Realign, StatusAges, OnPoolStatus, GuidanceFields
  <2>2. /\ observation'.active = observation.active /\ observation'.integral = observation.integral
        /\ UNCHANGED <<base, alive>> /\ (since' = since \/ since' = 0)
    BY <1>9, <1>s DEF PublishStatus, Realign, StatusAges, OnPoolStatus, GuidanceOnState,
       ObservationFields
  <2>3. Kept("active_guidance") /\ Kept("active_observation")
    BY <1>9, <1>s, BaseMoves, NodeMoves DEF Emptied, StatusAges, Kept
  <2> QED
    BY <1>s, <2>1, <2>2, <2>3, EdgeKept, CarriedKept
<1>10. CASE OnDesired \/ ObservationOnState \/ OnObservation \/ ResetIntegrator \/ UNCHANGED vars
  <2>1. /\ observation'.active = observation.active /\ UNCHANGED <<base, guidance, alive, since>>
        /\ observation'.integral = "carried" => observation.integral = "carried"
    BY <1>10, <1>s DEF OnDesired, ObservationOnState, OnObservation, ResetIntegrator, vars,
       ObservationFields
  <2>2. Kept("active_guidance") /\ Kept("active_observation")
    BY <1>10, <1>s, NodeMoves DEF Emptied, ResetIntegrator, vars, Kept
  <2> QED
    BY <1>s, <2>1, <2>2, EdgeKept, CarriedKept
<1> QED
  BY <1>1, <1>2, <1>3, <1>4, <1>5, <1>6, <1>7, <1>8, <1>9, <1>10 DEF Next, Handlers

-----------------------------------------------------------------------------
(* The mission frame and the alignment.                                    *)

\* A frame taken after the edge that is not own is of an earlier alignment.
FrameInv ==
  /\ guidance.locked \in Epochs \cup {None} /\ guidance.status \in Epochs \cup {None}
  /\ guidance.own => /\ guidance.initialized /\ guidance.edge
                     /\ config.frame = "pool" => guidance.locked = localization
  /\ guidance.edge /\ guidance.initialized /\ ~guidance.own =>
       config.frame = "pool" /\ guidance.locked \notin {None, localization}

\* A status of an earlier alignment is about to be replaced.
StatusInv ==
  /\ ~alive => guidance.status = None
  /\ guidance.status \notin {None, localization} =>
       Waiting("status_guidance") /\ since <= Age("status_guidance")

\* What the first usable state makes of guidance.
LEMMA FramedFields ==
  ASSUME GuidanceFields(guidance), GuidanceTypes
  PROVE  LET framed == Framed(guidance)
         IN /\ framed.initialized /\ framed.edge = guidance.edge /\ framed.status = guidance.status
            /\ framed.own \in BOOLEAN
            /\ IF guidance.initialized
               THEN framed.own = guidance.own /\ framed.locked = guidance.locked
               ELSE /\ framed.locked = guidance.status
                    /\ framed.own <=> /\ guidance.edge
                                      /\ config.frame = "pool" => guidance.status = localization
BY DEF Framed, GuidanceFields, GuidanceTypes

\* A frame that is not own, of a guidance_node that has taken the edge, comes with a
\* status that is not of the alignment.
LEMMA NotOwnIsStale ==
  ASSUME GuidanceFields(guidance), GuidanceTypes, FrameInv, guidance.edge,
         ~Framed(guidance).own, config.frame = "pool" => UsablePoolStatus(guidance)
  PROVE  config.frame = "pool" /\ guidance.status \notin {None, localization}
BY FramedFields DEF FrameInv, UsablePoolStatus

\* The fields a state leaves.
LEMMA OnStateFields ==
  ASSUME GuidanceFields(guidance), GuidanceTypes, GuidanceOnState
  PROVE  \/ UNCHANGED guidance
         \/ /\ config.frame = "pool" => UsablePoolStatus(guidance)
            /\ guidance'.initialized = Framed(guidance).initialized
            /\ guidance'.locked = Framed(guidance).locked
            /\ guidance'.status = Framed(guidance).status
            /\ guidance'.edge = Framed(guidance).edge /\ guidance'.own = Framed(guidance).own
<1> DEFINE framed == Framed(guidance)
<1>1. GuidanceFields(framed)
  BY DEF Framed, GuidanceFields
<1>2. \/ UNCHANGED guidance
      \/ /\ ~GuidanceSilent(inbox["state_guidance"].message)
         /\ \E p, l : guidance' = [framed EXCEPT !.progress = p, !.last = l]
  BY Zenon DEF GuidanceOnState
<1> HIDE DEF framed
<1>3. \/ UNCHANGED guidance
      \/ /\ config.frame = "pool" => UsablePoolStatus(guidance)
         /\ \E p, l : guidance' = [framed EXCEPT !.progress = p, !.last = l]
  BY <1>2, Zenon DEF GuidanceSilent
<1>4. \/ UNCHANGED guidance
      \/ /\ config.frame = "pool" => UsablePoolStatus(guidance)
         /\ guidance'.initialized = framed.initialized /\ guidance'.locked = framed.locked
         /\ guidance'.status = framed.status /\ guidance'.edge = framed.edge
         /\ guidance'.own = framed.own
  BY <1>1, <1>3 DEF GuidanceFields
<1> QED
  BY <1>4, Zenon DEF framed

\* FrameInv is inductive.
LEMMA FrameStep ==
  ASSUME GuidanceInv, TypesInv, FrameInv, [Next]_vars
  PROVE  FrameInv'
<1> USE Names
<1>s. /\ InboxInv /\ BaseFields /\ GuidanceTypes
  BY DEF TypesInv
<1>g. GuidanceFields(guidance)
  BY DEF GuidanceInv
<1>n. localization \in Nat \ {0} /\ None \notin Nat
  BY <1>s, NoneAssumption DEF BaseFields
<1>1. CASE PublishState
  BY <1>1, <1>g DEF PublishState, FrameInv, GuidanceFields, Epochs
<1>2. CASE Start
  BY <1>2, <1>g DEF Start, FrameInv, GuidanceFields, Epochs
<1>3. CASE Realign
  <2>1. /\ guidance' = [guidance EXCEPT !.own = FALSE] /\ localization' = localization + 1
        /\ config.frame = "pool" /\ UNCHANGED config
    BY <1>3 DEF Realign
  <2>2. /\ guidance'.locked = guidance.locked /\ guidance'.status = guidance.status
        /\ guidance'.edge = guidance.edge /\ guidance'.initialized = guidance.initialized
        /\ guidance'.own = FALSE
    BY <1>g, <2>1 DEF GuidanceFields
  <2>3. {guidance.locked, guidance.status} \subseteq Epochs' \cup {None}
    BY <1>n, <2>1 DEF FrameInv, Epochs
  <2>4. guidance.locked # localization + 1
    BY <1>n DEF FrameInv, Epochs
  <2>5. guidance.edge /\ guidance.initialized => guidance.locked # None
    BY <1>n, <2>1 DEF FrameInv
  <2> QED
    BY <2>1, <2>2, <2>3, <2>4, <2>5 DEF FrameInv
<1>4. CASE GuidanceOnActive
  <2>1. UNCHANGED <<localization, config>>
        /\ guidance' = Edge(guidance, inbox["active_guidance"].message)
    BY <1>4 DEF GuidanceOnActive
  <2> QED
    BY <1>g, <2>1 DEF Edge, GuidanceFields, FrameInv, Epochs
<1>5. CASE OnPoolStatus
  <2>1. UNCHANGED <<localization, config>> /\ inbox["status_guidance"].message \in {localization, None}
        /\ guidance' = [guidance EXCEPT !.status = inbox["status_guidance"].message]
    BY <1>5, <1>s DEF OnPoolStatus, InboxInv, Waiting, Message
  <2> QED
    BY <1>g, <1>n, <2>1 DEF GuidanceFields, FrameInv, Epochs
<1>6. CASE StatusAges
  BY <1>6, <1>g DEF StatusAges, GuidanceFields, FrameInv, Epochs
<1>7. CASE GuidanceOnState
  <2>1. UNCHANGED <<localization, config>>
    BY <1>7 DEF GuidanceOnState
  <2>2. CASE UNCHANGED guidance
    BY <2>1, <2>2 DEF FrameInv, Epochs
  <2>3. CASE /\ config.frame = "pool" => UsablePoolStatus(guidance)
             /\ guidance'.initialized = Framed(guidance).initialized
             /\ guidance'.locked = Framed(guidance).locked
             /\ guidance'.status = Framed(guidance).status
             /\ guidance'.edge = Framed(guidance).edge /\ guidance'.own = Framed(guidance).own
    BY <1>g, <1>s, <2>1, <2>3, FramedFields DEF FrameInv, UsablePoolStatus, Epochs
  <2> QED
    BY <1>7, <1>g, <1>s, <2>2, <2>3, OnStateFields
<1>8. CASE GuidanceDies
  BY <1>8 DEF GuidanceDies, NewGuidance, FrameInv, Epochs
<1>9. Next => \/ UNCHANGED <<guidance, localization, config>>
              \/ PublishState \/ Start \/ Realign \/ StatusAges \/ GuidanceDies
              \/ GuidanceOnActive \/ OnPoolStatus \/ GuidanceOnState
  BY DEF Next, Handlers, PublishActive, Stop, PublishStatus, ObservationOnActive, OnDesired,
         ObservationOnState, OnObservation, OnWrench, ResetIntegrator
<1>10. CASE UNCHANGED <<guidance, localization, config>>
  BY <1>10 DEF FrameInv, Epochs
<1> QED
  BY <1>1, <1>2, <1>3, <1>4, <1>5, <1>6, <1>7, <1>8, <1>9, <1>10 DEF vars

\* A step that changes no status keeps StatusInv, also where the ticks begin anew.
LEMMA StatusKept ==
  ASSUME InboxInv, StatusInv, Kept("status_guidance"), UNCHANGED <<localization, alive>>,
         since' = since \/ since' = 0, guidance'.status = guidance.status
  PROVE  StatusInv'
<1>1. Waiting("status_guidance") => Age("status_guidance") \in Nat
  BY Names, Ages
<1> QED
  BY <1>1 DEF StatusInv, Kept, Waiting, Message, Age

\* StatusInv is inductive.
LEMMA StatusStep ==
  ASSUME GuidanceInv, TypesInv, FrameInv, StatusInv, [Next]_vars
  PROVE  StatusInv'
<1> USE Names
<1>s. /\ Shaped(inbox) /\ ObservationFields /\ InboxInv /\ BaseFields /\ GuidanceTypes
      /\ ~alive => \A i \in GuidanceInboxes : inbox[i] = None
  BY DEF TypesInv, InboxInv, Waiting
<1>g. GuidanceFields(guidance)
  BY DEF GuidanceInv
<1>n. Settle \in Nat /\ since \in Nat /\ None \notin Nat
  BY <1>s, Bounds, NoneAssumption DEF BaseFields
<1>a. Waiting("status_guidance") => Age("status_guidance") \in Nat
  BY <1>s, Ages
<1>1. CASE PublishState
  <2>1. since' = Tally(Settle, since) /\ UNCHANGED <<alive, localization>>
    BY <1>1 DEF PublishState
  <2>2. since' \in Nat /\ since' <= since + 1
    BY <1>n, <2>1 DEF Tally
  <2>3. guidance'.status = guidance.status
    BY <1>1, <1>g DEF PublishState, GuidanceFields
  <2>4. Waiting("status_guidance") =>
          Waiting("status_guidance")' /\ Age("status_guidance")' = Age("status_guidance") + 1
    BY <1>1, <1>s, AgedBox
  <2> QED
    BY <1>a, <1>n, <2>1, <2>2, <2>3, <2>4 DEF StatusInv
<1>2. CASE PublishStatus \/ Realign
  <2>1. /\ since' = since \/ since' = 0
        /\ guidance'.status = guidance.status /\ UNCHANGED alive
    BY <1>2, <1>g DEF PublishStatus, Realign, GuidanceFields
  <2>2. CASE ~alive
    BY <2>1, <2>2 DEF StatusInv
  <2>3. CASE alive
    <3>1. Waiting("status_guidance")'
      BY <1>2, <1>s, <2>3, StaysWaiting
    <3>2. Age("status_guidance")' = IF Waiting("status_guidance") THEN Age("status_guidance") ELSE 0
      BY <1>2, <1>s, <2>3, BaseMoves DEF Filled, Waiting, Age
    <3>3. CASE PublishStatus
      BY <1>a, <1>n, <2>1, <2>3, <3>1, <3>2, <3>3 DEF PublishStatus, StatusInv
    <3>4. CASE Realign
      <4>1. since' = 0
        BY <3>4 DEF Realign
      <4> QED
        BY <1>a, <2>1, <2>3, <3>1, <3>2, <4>1 DEF StatusInv
    <3> QED
      BY <1>2, <3>3, <3>4
  <2> QED
    BY <2>2, <2>3
<1>3. CASE OnPoolStatus
  <2>1. /\ UNCHANGED <<localization, alive>> /\ alive
        /\ inbox["status_guidance"].message \in {localization, None}
        /\ guidance' = [guidance EXCEPT !.status = inbox["status_guidance"].message]
    BY <1>3, <1>s DEF OnPoolStatus, InboxInv, Waiting, Message
  <2> QED
    BY <1>g, <2>1 DEF GuidanceFields, StatusInv
<1>4. CASE StatusAges \/ GuidanceDies
  <2>1. guidance'.status = None
    BY <1>4, <1>g DEF StatusAges, GuidanceDies, NewGuidance, GuidanceFields
  <2> QED
    BY <2>1 DEF StatusInv
<1>5. CASE PublishActive \/ Start \/ Stop \/ OnWrench
  <2>1. /\ since' = since \/ since' = 0
        /\ guidance'.status = guidance.status /\ UNCHANGED <<localization, alive>>
    BY <1>5, <1>g DEF PublishActive, Start, Stop, OnWrench, GuidanceFields
  <2>2. Kept("status_guidance")
    BY <1>5, <1>s, BaseMoves DEF Emptied, Stop, Kept
  <2> QED
    BY <1>s, <2>1, <2>2, StatusKept
<1>6. CASE \/ GuidanceOnActive \/ GuidanceOnState \/ ObservationOnActive \/ OnDesired
           \/ ObservationOnState \/ OnObservation \/ ResetIntegrator \/ UNCHANGED vars
  <2>1. guidance'.status = guidance.status
    <3>1. CASE GuidanceOnState
      BY <3>1, <1>g, <1>s, OnStateFields, FramedFields
    <3>2. CASE GuidanceOnActive
      BY <3>2, <1>g DEF GuidanceOnActive, Edge, GuidanceFields
    <3> QED
      BY <1>6, <3>1, <3>2 DEF ObservationOnActive, OnDesired, ObservationOnState, OnObservation,
         ResetIntegrator, vars
  <2>2. UNCHANGED <<localization, alive, since>>
    BY <1>6 DEF GuidanceOnActive, GuidanceOnState, ObservationOnActive, OnDesired,
       ObservationOnState, OnObservation, ResetIntegrator, vars
  <2>3. Kept("status_guidance")
    BY <1>6, <1>s, NodeMoves DEF Emptied, ResetIntegrator, vars, Kept
  <2> QED
    BY <1>s, <2>1, <2>2, <2>3, StatusKept
<1> QED
  BY <1>1, <1>2, <1>3, <1>4, <1>5, <1>6 DEF Next, Handlers

-----------------------------------------------------------------------------
(* What is past, on its way.                                               *)

PastDesiredWaits ==
  Waiting("desired_observation") /\ ~Message("desired_observation").own =>
    since <= Age("desired_observation") + Lag + 1

PastDesiredHeld ==
  observation.desired # None /\ ~observation.desired.own =>
    \/ observation.desired_age > DesiredMaxAge
    \/ since <= observation.desired_age + 2 * Lag + 1

PastObservationWaits ==
  Waiting("observation_policy") /\ Message("observation_policy").valid
    /\ ~Message("observation_policy").own =>
      since <= Age("observation_policy") + 2 * Lag + 1 + DesiredMaxAge

PastWrenchWaits ==
  Waiting("wrench_base") /\ ~Message("wrench_base").own =>
    since <= Age("wrench_base") + 3 * Lag + 1 + DesiredMaxAge

PastInv ==
  base.active => /\ PastDesiredWaits /\ PastDesiredHeld
                 /\ PastObservationWaits /\ PastWrenchWaits

\* Where the ticks begin anew, nothing is late.
LEMMA PastAnew ==
  ASSUME InboxInv', ObservationFields', since' = 0
  PROVE  PastInv'
<1>1. \A i \in Inboxes : Waiting(i)' => Age(i)' \in Nat
  BY Bounds DEF InboxInv, Shaped, Waiting, Age
<1>2. observation'.desired_age \in Nat
  BY Bounds DEF ObservationFields
<1> QED
  BY <1>1, <1>2, Bounds, Names
  DEF PastInv, PastDesiredWaits, PastDesiredHeld, PastObservationWaits, PastWrenchWaits

\* What a step leaves in its inbox is as late as it was.
LEMMA PastKept ==
  ASSUME since' = since
  PROVE  /\ Kept("desired_observation") /\ PastDesiredWaits => PastDesiredWaits'
         /\ /\ observation'.desired = observation.desired
            /\ observation'.desired_age = observation.desired_age
            /\ PastDesiredHeld
            => PastDesiredHeld'
         /\ Kept("observation_policy") /\ PastObservationWaits => PastObservationWaits'
         /\ Kept("wrench_base") /\ PastWrenchWaits => PastWrenchWaits'
BY DEF Kept, PastDesiredWaits, PastDesiredHeld, PastObservationWaits, PastWrenchWaits, Waiting,
   Message, Age

\* A step that computes nothing keeps PastInv.
LEMMA PastUnchanged ==
  ASSUME PastInv, since' = since, base'.active => base.active,
         \A i \in Computed : Kept(i),
         observation'.desired = observation.desired,
         observation'.desired_age = observation.desired_age
  PROVE  PastInv'
BY PastKept, Names DEF PastInv

\* A target that is not own is published within Lag of its cause.
LEMMA PastTarget ==
  ASSUME GuidanceInv, TypesInv, EdgeInv, FrameInv, StatusInv, base.active, GuidanceOnState,
         config.frame = "pool" => UsablePoolStatus(guidance), ~Framed(guidance).own
  PROVE  since <= Lag + 1
<1>s. /\ InboxInv /\ BaseFields /\ GuidanceTypes /\ GuidanceFields(guidance)
  BY DEF TypesInv, GuidanceInv
<1>n. Lag \in Nat /\ since \in Nat
  BY <1>s, Bounds DEF BaseFields
<1>1. alive
  BY <1>s, Names DEF GuidanceOnState, InboxInv, Waiting
<1>2. CASE ~guidance.edge
  <2>1. GuidanceUntold => since <= Lag + 1
    BY <1>n DEF GuidanceUntold, Unpublished
  <2>2. GuidanceTold => since <= Lag + 1
    BY <1>n, <1>s, Ages, Names DEF GuidanceTold
  <2> QED
    BY <1>1, <1>2, <2>1, <2>2 DEF EdgeInv
<1>3. CASE guidance.edge
  <2>1. guidance.status \notin {None, localization}
    BY <1>3, <1>s, NotOwnIsStale
  <2> QED
    BY <1>n, <1>s, <2>1, Ages, Names DEF StatusInv
<1> QED
  BY <1>2, <1>3

\* An observation that is not own comes of a target or of an integral that is not.
LEMMA PastObservation ==
  ASSUME TypesInv, CarriedInv, PastInv, base.active,
         observation.desired # None, observation.desired_age <= DesiredMaxAge,
         ~observation.desired.own \/ observation.integral = "carried"
  PROVE  since <= 2 * Lag + 1 + DesiredMaxAge
<1>s. /\ InboxInv /\ BaseFields /\ ObservationFields
  BY DEF TypesInv
<1>n. Lag \in Nat /\ since \in Nat /\ DesiredMaxAge \in Nat /\ observation.desired_age \in Nat
  BY <1>s, Bounds DEF BaseFields, ObservationFields
<1>1. CASE ~observation.desired.own
  BY <1>1, <1>n DEF PastInv, PastDesiredHeld
<1>2. CASE observation.integral = "carried"
  <2>1. ObservationUntold => since <= Lag + 1
    BY <1>n DEF ObservationUntold, Unpublished
  <2>2. ObservationTold => since <= Lag + 1
    BY <1>n, <1>s, Ages, Names DEF ObservationTold
  <2> QED
    BY <1>2, <1>n, <2>1, <2>2 DEF CarriedInv
<1> QED
  BY <1>1, <1>2

\* PastInv is inductive.
LEMMA PastStep ==
  ASSUME GuidanceInv, TypesInv, TypesInv', EdgeInv, CarriedInv, FrameInv, StatusInv, PastInv,
         [Next]_vars
  PROVE  PastInv'
<1> USE Names
<1>s. /\ Shaped(inbox) /\ ObservationFields /\ InboxInv /\ BaseFields /\ GuidanceTypes
      /\ ~alive => \A i \in GuidanceInboxes : inbox[i] = None
      /\ InboxInv' /\ ObservationFields'
  BY DEF TypesInv, InboxInv, Waiting
<1>g. GuidanceFields(guidance)
  BY DEF GuidanceInv
<1>n. /\ Settle \in Nat /\ since \in Nat /\ None \notin Nat /\ Lag \in Nat /\ DesiredMaxAge \in Nat
      /\ observation.desired_age \in Nat
  BY <1>s, Bounds, NoneAssumption DEF BaseFields, ObservationFields
<1>a. \A i \in Inboxes : Waiting(i) => Age(i) \in Nat /\ Age(i) <= Lag
  BY <1>s, Ages
<1>b. \A i \in Inboxes : Waiting(i)' => Age(i)' \in Nat
  BY <1>s, Bounds DEF InboxInv, Shaped, Waiting, Age
<1>1. CASE PublishState
  <2>1. /\ since' = Tally(Settle, since)
        /\ observation' = [observation EXCEPT
                             !.desired_age = Tally(DesiredMaxAge + 1, observation.desired_age)]
    BY <1>1 DEF PublishState
  <2>2. since' \in Nat /\ since' <= since + 1
    BY <1>n, <2>1 DEF Tally
  <2>3. /\ observation'.desired = observation.desired
        /\ \/ observation'.desired_age = observation.desired_age + 1
           \/ observation'.desired_age > DesiredMaxAge
    <3>1. /\ observation'.desired = observation.desired
          /\ observation'.desired_age = Tally(DesiredMaxAge + 1, observation.desired_age)
      BY <1>s, <2>1 DEF ObservationFields
    <3> QED
      BY <1>n, <3>1 DEF Tally
  <2>4. \A i \in Computed : Waiting(i)' =>
          Waiting(i) /\ Message(i)' = Message(i) /\ Age(i)' = Age(i) + 1
    BY <1>1, <1>s, BaseMoves DEF Aged, Waiting, Message, Age
  <2>5. base'.active = base.active
    BY <1>1, <1>s DEF PublishState, BaseFields
  <2>6. PastDesiredWaits => PastDesiredWaits'
    BY <1>a, <1>n, <2>2, <2>4 DEF PastDesiredWaits
  <2>7. PastDesiredHeld => PastDesiredHeld'
    BY <1>n, <2>2, <2>3 DEF PastDesiredHeld
  <2>8. PastObservationWaits => PastObservationWaits'
    BY <1>a, <1>n, <2>2, <2>4 DEF PastObservationWaits
  <2>9. PastWrenchWaits => PastWrenchWaits'
    BY <1>a, <1>n, <2>2, <2>4 DEF PastWrenchWaits
  <2> QED
    BY <2>5, <2>6, <2>7, <2>8, <2>9 DEF PastInv
<1>2. CASE Start \/ Realign \/ GuidanceDies
  <2>1. since' = 0
    BY <1>2 DEF Start, Realign, GuidanceDies
  <2> QED
    BY <1>s, <2>1, PastAnew
<1>3. CASE PublishActive \/ Stop \/ PublishStatus \/ StatusAges
  <2>1. /\ since' = since /\ UNCHANGED observation /\ (base'.active => base.active)
    BY <1>3, <1>s DEF PublishActive, Stop, Stopped, PublishStatus, StatusAges, BaseFields
  <2>2. \A i \in Computed : Kept(i)
    BY <1>3, <1>s, BaseMoves DEF Stop, StatusAges, Kept
  <2> QED
    BY <2>1, <2>2, PastUnchanged
<1>4. CASE GuidanceOnActive \/ OnPoolStatus \/ ObservationOnActive \/ ResetIntegrator \/ UNCHANGED vars
  <2>1. /\ since' = since /\ UNCHANGED base
        /\ observation'.desired = observation.desired
        /\ observation'.desired_age = observation.desired_age
    BY <1>4, <1>s DEF GuidanceOnActive, OnPoolStatus, ObservationOnActive, ObservationEdge,
       ResetIntegrator, vars, ObservationFields
  <2>2. \A i \in Computed : Kept(i)
    BY <1>4, <1>s, NodeMoves DEF Emptied, ResetIntegrator, vars, Kept
  <2> QED
    BY <2>1, <2>2, PastUnchanged
<1>5. CASE OnWrench
  <2>1. since' = since /\ UNCHANGED observation /\ (base'.active => base.active)
    BY <1>5, <1>s DEF OnWrench, Stopped, BaseFields
  <2>2. ~Waiting("wrench_base")' /\ Kept("desired_observation") /\ Kept("observation_policy")
    BY <1>5, <1>s, BaseMoves DEF Emptied, Waiting
  <2>3. PastWrenchWaits'
    BY <2>2 DEF PastWrenchWaits
  <2> QED
    BY <2>1, <2>2, <2>3, PastKept DEF PastInv
<1>6. CASE OnDesired
  <2>1. /\ since' = since /\ UNCHANGED base /\ Waiting("desired_observation")
        /\ observation'.desired = Message("desired_observation") /\ observation'.desired_age = 0
    BY <1>6, <1>s DEF OnDesired, ObservationFields, Waiting, Message
  <2>2. ~Waiting("desired_observation")' /\ Kept("observation_policy") /\ Kept("wrench_base")
    BY <1>6, <1>s, NodeMoves DEF Emptied, Waiting
  <2>3. PastDesiredWaits'
    BY <2>2 DEF PastDesiredWaits
  <2>4. PastDesiredWaits => PastDesiredHeld'
    BY <1>a, <1>n, <2>1 DEF PastDesiredWaits, PastDesiredHeld
  <2> QED
    BY <2>1, <2>2, <2>3, <2>4, PastKept DEF PastInv
<1>7. CASE ObservationOnState
  <2>1. /\ since' = since /\ UNCHANGED base
        /\ observation'.desired = observation.desired
        /\ observation'.desired_age = observation.desired_age
    BY <1>7, <1>s DEF ObservationOnState, ObservationFields
  <2>2. PICK valid \in BOOLEAN, own \in BOOLEAN :
          /\ Kept("desired_observation") /\ Kept("wrench_base")
          /\ Filled("observation_policy", [valid |-> valid, own |-> own])
          /\ valid /\ ~own =>
               /\ observation.desired # None /\ observation.desired_age <= DesiredMaxAge
               /\ ~observation.desired.own \/ observation.integral = "carried"
    BY <1>7, <1>s, NodeMoves
  <2>3. PastInv /\ base.active => PastObservationWaits'
    <3>1. /\ Message("observation_policy")'.valid = valid
          /\ Message("observation_policy")'.own = own
      BY <2>2 DEF Filled, Message
    <3>2. base.active /\ valid /\ ~own => since <= 2 * Lag + 1 + DesiredMaxAge
      BY <2>2, PastObservation
    <3> QED
      BY <1>b, <1>n, <2>1, <3>1, <3>2 DEF PastObservationWaits
  <2> QED
    BY <2>1, <2>2, <2>3, PastKept DEF PastInv
<1>8. CASE OnObservation
  <2>1. since' = since /\ UNCHANGED <<base, observation>> /\ Waiting("observation_policy")
    BY <1>8 DEF OnObservation, Waiting
  <2>2. /\ Kept("desired_observation") /\ ~Waiting("observation_policy")'
        /\ \/ Kept("wrench_base")
           \/ /\ Message("observation_policy").valid
              /\ Filled("wrench_base", [own |-> Message("observation_policy").own])
    BY <1>8, <1>s, NodeMoves DEF Waiting, Message
  <2>3. PastObservationWaits'
    BY <2>2 DEF PastObservationWaits
  <2>4. PastObservationWaits /\ PastWrenchWaits => PastWrenchWaits'
    <3>1. CASE Kept("wrench_base")
      BY <2>1, <3>1, PastKept
    <3>2. CASE /\ Message("observation_policy").valid
               /\ Filled("wrench_base", [own |-> Message("observation_policy").own])
      <4>1. Message("wrench_base")'.own = Message("observation_policy").own
        BY <3>2 DEF Filled, Message
      <4> QED
        BY <1>a, <1>b, <1>n, <2>1, <3>2, <4>1 DEF PastObservationWaits, PastWrenchWaits
    <3> QED
      BY <2>2, <3>1, <3>2
  <2> QED
    BY <2>1, <2>2, <2>3, <2>4, PastKept DEF PastInv
<1>9. CASE GuidanceOnState
  <2>1. since' = since /\ UNCHANGED <<base, observation>>
    BY <1>9 DEF GuidanceOnState
  <2>2. /\ Kept("observation_policy") /\ Kept("wrench_base")
        /\ \/ Kept("desired_observation")
           \/ /\ Filled("desired_observation", [own |-> Framed(guidance).own])
              /\ config.frame = "pool" => UsablePoolStatus(guidance)
    BY <1>9, <1>s, NodeMoves
  <2>3. base.active /\ PastDesiredWaits => PastDesiredWaits'
    <3>1. CASE Kept("desired_observation")
      BY <2>1, <3>1, PastKept
    <3>2. CASE /\ Filled("desired_observation", [own |-> Framed(guidance).own])
               /\ config.frame = "pool" => UsablePoolStatus(guidance)
      <4>1. Message("desired_observation")'.own = Framed(guidance).own
        BY <3>2 DEF Filled, Message
      <4>2. base.active /\ ~Framed(guidance).own => since <= Lag + 1
        BY <1>9, <3>2, PastTarget
      <4> QED
        BY <1>b, <1>n, <2>1, <4>1, <4>2 DEF PastDesiredWaits
    <3> QED
      BY <2>2, <3>1, <3>2
  <2> QED
    BY <2>1, <2>2, <2>3, PastKept DEF PastInv
<1> QED
  BY <1>1, <1>2, <1>3, <1>4, <1>5, <1>6, <1>7, <1>8, <1>9 DEF Next, Handlers

-----------------------------------------------------------------------------
SplitInv ==
  /\ GuidanceInv /\ TypesInv /\ QuietInv /\ EdgeInv /\ CarriedInv
  /\ FrameInv /\ StatusInv /\ PastInv

\* In the initial states base_node is out of control and nothing waits.
LEMMA SplitInit == Init => SplitInv
<1> SUFFICES ASSUME Init PROVE SplitInv
  OBVIOUS
<1> USE Names
<1>1. GuidanceInv
  BY GuidanceInvInit
<1>2. \A i \in Inboxes : ~Waiting(i)
  BY DEF Init, Waiting
<1>3. TypesInv
  BY <1>2, Bounds
  DEF Init, TypesInv, BaseFields, GuidanceTypes, ObservationFields, InboxInv, Shaped, NewGuidance,
      NewObservation, Waiting
<1>4. QuietInv /\ EdgeInv /\ CarriedInv /\ PastInv
  BY <1>2 DEF Init, QuietInv, EdgeInv, CarriedInv, PastInv, NewGuidance, NewObservation
<1>5. FrameInv /\ StatusInv
  BY DEF Init, FrameInv, StatusInv, NewGuidance
<1> QED
  BY <1>1, <1>3, <1>4, <1>5 DEF SplitInv

\* Once control, the alignment and guidance_node have been what they are for longer than
\* every stage of the loop can keep a message, nothing that drives the thrusters is from
\* before (guidance_node.py:270, observation_node.py:129, base_node.py:729), provided
\* that control stays ended for longer than a callback can be late.
THEOREM PastIsOver ==
  ASSUME MinGap > Lag, Settle > 4 * Lag + 1 + DesiredMaxAge
  PROVE  Spec => []PastEnds
<1>1. SplitInv /\ [Next]_vars => SplitInv'
  BY GuidanceInvStep, TypesStep, QuietStep, EdgeStep, FrameStep, StatusStep, PastStep DEF SplitInv
<1>2. SplitInv => PastEnds
  <2> SUFFICES ASSUME SplitInv, Driving, since = Settle, ~inbox["wrench_base"].message.own
               PROVE  FALSE
    BY DEF PastEnds
  <2>1. Waiting("wrench_base") /\ base.active /\ InboxInv /\ PastWrenchWaits
    BY DEF Driving, Control, Waiting, SplitInv, TypesInv, PastInv
  <2>2. Age("wrench_base") \in Nat /\ Age("wrench_base") <= Lag
    BY <2>1, Ages, Names
  <2> QED
    BY <2>1, <2>2, Bounds DEF PastWrenchWaits, Message
<1> QED
  BY SplitInit, <1>1, <1>2, PTL DEF Spec
=============================================================================
