---------------------- MODULE TrajectoryIndexProofs ----------------------
(***************************************************************************)
(* The segments of the abstract index are chained, for any set of moving   *)
(* objects, positions and instants.                                        *)
(***************************************************************************)
EXTENDS TrajectoryIndex, TLAPS

vars == <<current, segments>>

(* The abstract index keeps its types.                                     *)
THEOREM TypeCorrect == Spec => []TypeOK
<1>1. Init => TypeOK
  BY DEF Init, TypeOK, Segment
<1>2. TypeOK /\ [Next]_vars => TypeOK'
  <2> SUFFICES ASSUME TypeOK, [Next]_vars PROVE TypeOK'
    OBVIOUS
  <2>1. ASSUME NEW m \in MO, NEW u \in Upload, FirstUpload(m, u)
        PROVE  TypeOK'
    BY <2>1 DEF FirstUpload, TypeOK
  <2>2. ASSUME NEW m \in MO, NEW u \in Upload, NextUpload(m, u)
        PROVE  TypeOK'
    <3>1. current[m] \in Upload
      BY <2>2 DEF NextUpload, TypeOK
    <3>2. [mo |-> m, start |-> current[m].time, end |-> u.time,
           from |-> current[m].pos, to |-> u.pos] \in Segment
      BY <3>1 DEF Upload, Segment
    <3>3. current' \in [MO -> Upload \cup {None}]
      BY <2>2 DEF NextUpload, TypeOK
    <3> QED
      BY <3>2, <3>3, <2>2 DEF NextUpload, TypeOK
  <2>3. CASE UNCHANGED vars
    BY <2>3 DEF TypeOK, vars
  <2> QED
    BY <2>1, <2>2, <2>3 DEF Next
<1> QED
  BY <1>1, <1>2, PTL DEF Spec, vars

(* No gap opens between the segments of an object: an upload starts where  *)
(* the one before ended.                                                   *)
THEOREM SegmentsChained ==
  ASSUME None \notin Upload PROVE Spec => []Chained
<1>1. Init => Chained
  BY DEF Init, Chained
<1>2. TypeOK /\ Chained /\ [Next]_vars => Chained'
  <2> SUFFICES ASSUME TypeOK, Chained, [Next]_vars PROVE Chained'
    OBVIOUS
  <2>1. ASSUME NEW m \in MO, NEW u \in Upload, FirstUpload(m, u)
        PROVE  Chained'
    <3>1. ASSUME NEW s \in segments, s.mo = m
          PROVE  \E t \in segments : t.mo = s.mo /\ t.start = s.end /\ t.from = s.to
      <4>1. [time |-> s.end, pos |-> s.to] \in Upload
        BY DEF TypeOK, Segment, Upload
      <4>2. current[s.mo] = None
        BY <3>1, <2>1 DEF FirstUpload
      <4> QED
        BY <4>1, <4>2 DEF Chained
    <3>2. ASSUME NEW s \in segments, s.mo # m
          PROVE  current'[s.mo] = current[s.mo]
      BY <3>2, <2>1 DEF FirstUpload, TypeOK, Segment
    <3> QED
      BY <3>1, <3>2, <2>1 DEF Chained, FirstUpload
  <2>2. ASSUME NEW m \in MO, NEW u \in Upload, NextUpload(m, u)
        PROVE  Chained'
    <3> DEFINE new == [mo |-> m, start |-> current[m].time, end |-> u.time,
                       from |-> current[m].pos, to |-> u.pos]
    <3>1. segments' = segments \cup {new} /\ current' = [current EXCEPT ![m] = u]
      BY <2>2 DEF NextUpload
    <3>2. current'[m] = [time |-> new.end, pos |-> new.to]
      BY <3>1 DEF TypeOK, Upload
    <3>3. ASSUME NEW s \in segments, s.mo = m,
                 current[m] = [time |-> s.end, pos |-> s.to]
          PROVE  new.mo = s.mo /\ new.start = s.end /\ new.from = s.to
      BY <3>3
    <3>4. ASSUME NEW s \in segments, s.mo # m
          PROVE  current'[s.mo] = current[s.mo]
      BY <3>4, <3>1 DEF TypeOK, Segment
    <3>5. new \in segments' /\ new.mo = m
      BY <3>1
    <3> HIDE DEF new
    <3> QED
      BY <3>1, <3>2, <3>3, <3>4, <3>5, ZenonT(60) DEF Chained
  <2>3. CASE UNCHANGED vars
    BY <2>3 DEF Chained, vars
  <2> QED
    BY <2>1, <2>2, <2>3 DEF Next
<1> QED
  BY <1>1, <1>2, TypeCorrect, PTL DEF Spec, vars
=============================================================================
