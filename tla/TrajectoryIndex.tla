-------------------------- MODULE TrajectoryIndex --------------------------
(***************************************************************************)
(* What a SETI index promises to the operators insertUpload, insertStream, *)
(* getTrajectory and currentUpload: two consecutive uploads of a moving    *)
(* object make one trajectory segment, and the segments are kept.          *)
(***************************************************************************)
EXTENDS Naturals

CONSTANTS MO,    \* the ids of the moving objects
          Pos,   \* positions inside the area of the index
          Time,  \* instants
          None   \* no upload yet

Upload == [time : Time, pos : Pos]

Segment == [mo : MO, start : Time, end : Time, from : Pos, to : Pos]

VARIABLES current,  \* current[m]: the latest upload of m
          segments  \* the trajectory segments of all objects

Init ==
  /\ current = [m \in MO |-> None]
  /\ segments = {}

FirstUpload(m, u) ==
  /\ current[m] = None
  /\ current' = [current EXCEPT ![m] = u]
  /\ UNCHANGED segments

NextUpload(m, u) ==
  /\ current[m] # None
  /\ current[m].time < u.time
  /\ current' = [current EXCEPT ![m] = u]
  /\ segments' = segments \cup
       {[mo |-> m, start |-> current[m].time, end |-> u.time,
         from |-> current[m].pos, to |-> u.pos]}

Next == \E m \in MO, u \in Upload : FirstUpload(m, u) \/ NextUpload(m, u)

Spec == Init /\ [][Next]_<<current, segments>>

TypeOK ==
  /\ current \in [MO -> Upload \cup {None}]
  /\ segments \subseteq Segment

(* The segments of an object follow each other in time without a gap and   *)
(* end at its current upload.                                              *)
Chained ==
  \A s \in segments :
    \/ current[s.mo] = [time |-> s.end, pos |-> s.to]
    \/ \E t \in segments : t.mo = s.mo /\ t.start = s.end /\ t.from = s.to
=============================================================================
