---------------------------- MODULE FinetuneProofs ----------------------------
(***************************************************************************)
(* The two protocols of the fine-tuning side.  The window that trains and  *)
(* captures: what the two sides know of each other, and what they can      *)
(* therefore never do.  The commands that build the dataset: whatever the  *)
(* graph, the draws and the teacher were, the sealed files belong together,*)
(* the rows trained on passed every layer, and a rewrite changes surfaces  *)
(* only.                                                                   *)
(***************************************************************************)
EXTENDS FinetuneWindow, DatasetBuild, FiniteSetTheorems, TLAPS

LEMMA MarkerNames ==
    /\ UpMarker(1) = "BASE_UP" /\ UpMarker(2) = "MERGED_UP"
    /\ UpMarker(3) = "JUDGE_UP" /\ UpMarker(4) = "EXIT"
    /\ DoneMarker(1) = "BASE_CAPTURED" /\ DoneMarker(2) = "QLORA_CAPTURED"
    /\ DoneMarker(3) = "JUDGE_DONE"
  BY DEF UpMarker, DoneMarker

LEMMA Tasks == LastTask(1) = 1 /\ LastTask(2) = 3 /\ LastTask(3) = 6
  BY DEF LastTask

LEMMA Phases == Phase = {1, 2, 3}
  BY DEF Phase

LEMMA AllMarkers == Markers = {"BASE_UP", "MERGED_UP", "JUDGE_UP", "EXIT", "BASE_CAPTURED",
                               "QLORA_CAPTURED", "JUDGE_DONE"}
  <1>1. 1 .. 4 = {1, 2, 3, 4}
    OBVIOUS
  <1>2. QED
    BY <1>1, MarkerNames, Phases DEF Markers

----------------------------------------------------------------------------
(* Where the two sides stand, as the markers tell it. *)

MarkersInv ==
    /\ \A p \in Phase : DoneMarker(p) \in markers <=> p < laptop.phase
    /\ \A p \in Phase : p < epoch => UpMarker(p) \in markers
    /\ \A p \in Phase : UpMarker(p) \in markers => p <= epoch
    /\ box.step \in {"off", "prepare", "load", "announce"} => UpMarker(epoch) \notin markers
    /\ box.step = "wait" => UpMarker(epoch) \in markers
    /\ "EXIT" \in markers => box.step = "gone"

TurnsInv ==
    /\ epoch <= laptop.phase /\ laptop.phase <= epoch + 1
    /\ box.step = "off" => laptop.step \in {"create", "teardown", "over"} /\ laptop.phase = 1
    /\ laptop.step = "create" => box.step = "off"
    /\ laptop.step = "reach" => laptop.phase = 1
    /\ laptop.step \in {"reach", "work", "put"} =>
          laptop.phase \in Phase /\ UpMarker(laptop.phase) \in markers

DoneBefore(p) == IF p = 1 THEN 0 ELSE LastTask(p - 1)

TasksInv ==
    /\ laptop.step \in {"create", "await", "reach"} => done = DoneBefore(laptop.phase)
    /\ laptop.step = "work" =>
          DoneBefore(laptop.phase) <= done /\ done < LastTask(laptop.phase)
    /\ laptop.step = "put" => done = LastTask(laptop.phase)
    /\ laptop.phase > epoch => done = LastTask(epoch)
    /\ outcome = "open" <=> laptop.step \notin {"teardown", "over"}
    /\ outcome = "up" => laptop.phase = 4 /\ done = 6

PhaseInv == TypeOK /\ MarkersInv /\ TurnsInv /\ TasksInv

LEMMA MissingType == \A l, e : Missing(l, e) \subseteq {"llm", "embed"}
  BY DEF Missing

LEMMA GotoMoves ==
  ASSUME laptop \in [phase : 1 .. 4, step : LaptopStep, spent : Nat],
         NEW s \in LaptopStep, Goto(s)
  PROVE  /\ laptop' \in [phase : 1 .. 4, step : LaptopStep, spent : Nat]
         /\ laptop'.phase = laptop.phase /\ laptop'.step = s /\ laptop'.spent = 0
  BY DEF Goto

LEMMA PhaseInvInit == Init => PhaseInv
  <1> SUFFICES ASSUME Init PROVE PhaseInv
    OBVIOUS
  <1> USE DEF Init, PhasesInit
  <1>1. TypeOK
    <2>1. epoch \in Phase /\ done \in 0 .. 6 /\ damaged \subseteq 1 .. done
      BY Phases
    <2>2. box \in [step : BoxStep, spent : Nat]
      BY DEF BoxStep
    <2>3. laptop \in [phase : 1 .. 4, step : LaptopStep, spent : Nat]
      BY DEF LaptopStep
    <2>4. QED
      BY <2>1, <2>2, <2>3 DEF TypeOK
  <1>2. MarkersInv
    BY Phases DEF MarkersInv
  <1>3. TurnsInv /\ TasksInv
    BY Phases DEF TurnsInv, TasksInv, DoneBefore
  <1>4. QED
    BY <1>1, <1>2, <1>3 DEF PhaseInv

LEMMA PhaseInvBox == PhaseInv /\ BoxNext => PhaseInv'
  <1> SUFFICES ASSUME PhaseInv, BoxNext PROVE PhaseInv'
    OBVIOUS
  <1> USE DEF PhaseInv, TypeOK, MarkersInv, TurnsInv, TasksInv, At, Driver, DriverGoto,
              BoxStep, LaptopStep, DoneBefore
  <1>0. UNCHANGED <<done, outcome, laptop, damaged, rented>> /\ gaps' \subseteq {"llm", "embed"}
    BY MissingType DEF BoxNext
  <1>1. CASE Prepared
    BY <1>0, <1>1, Phases DEF Prepared
  <1>2. CASE Loaded
    BY <1>0, <1>2, Phases DEF Loaded
  <1>3. CASE EmbedReady
    BY <1>0, <1>3, Phases DEF EmbedReady
  <1>4. CASE Announce
    <2>1. TypeOK'
      BY <1>0, <1>4, Phases, MarkerNames, AllMarkers DEF Announce
    <2>2. MarkersInv'
      BY <1>0, <1>4, Phases, MarkerNames, AllMarkers DEF Announce
    <2>3. TurnsInv'
      BY <1>0, <1>4, Phases, MarkerNames, AllMarkers DEF Announce
    <2>4. TasksInv'
      BY <1>0, <1>4, Phases, MarkerNames, AllMarkers DEF Announce
    <2>5. QED
      BY <2>1, <2>2, <2>3, <2>4
  <1>5. CASE SeeDone
    BY <1>0, <1>5, Phases, MarkerNames, Tasks DEF SeeDone
  <1>6. CASE GiveUp
    BY <1>0, <1>6, Phases DEF GiveUp
  <1>7. CASE DriverFails
    BY <1>0, <1>7, Phases DEF DriverFails, DriverLives
  <1>8. CASE PutExit
    BY <1>0, <1>8, Phases, MarkerNames, AllMarkers DEF PutExit
  <1>9. CASE ServersDie
    BY <1>0, <1>9, Phases DEF ServersDie
  <1>10. CASE BoxDies
    BY <1>0, <1>10, Phases DEF BoxDies, DriverLives
  <1>11. QED
    BY <1>1, <1>2, <1>3, <1>4, <1>5, <1>6, <1>7, <1>8, <1>9, <1>10 DEF BoxNext

LEMMA PhaseInvLaptop == PhaseInv /\ (LaptopMoves \/ LaptopFails \/ Tick) => PhaseInv'
  <1> SUFFICES ASSUME PhaseInv, LaptopMoves \/ LaptopFails \/ Tick PROVE PhaseInv'
    OBVIOUS
  <1> USE DEF PhaseInv, TypeOK, MarkersInv, TurnsInv, TasksInv, At, Driver, DriverGoto,
              Report, boxVars, BoxStep, LaptopStep, DoneBefore, StartTask
  <1>1. CASE Create
    BY <1>1, Phases DEF Create, Goto
  <1>2. CASE SeeUp
    <2>1. PICK s \in {"reach", "work", "teardown"} :
             /\ Goto(s)
             /\ s = "reach" <=> laptop.phase = 1
             /\ s = "teardown" <=> laptop.phase = 4
      <3>1. CASE laptop.phase = 1
        BY <1>2, <3>1 DEF SeeUp
      <3>2. CASE laptop.phase \in {2, 3}
        BY <1>2, <3>2 DEF SeeUp
      <3>3. CASE laptop.phase = 4
        BY <1>2, <3>3 DEF SeeUp
      <3>4. QED
        BY <3>1, <3>2, <3>3
    <2>2. /\ laptop' \in [phase : 1 .. 4, step : LaptopStep, spent : Nat]
          /\ laptop'.phase = laptop.phase /\ laptop'.step = s
      BY <2>1, GotoMoves
    <2>3. UNCHANGED <<epoch, served, embed, box, done, markers, damaged, rented, blame>>
      BY <1>2 DEF SeeUp
    <2>4. TypeOK'
      <3>1. gaps' \subseteq {"llm", "embed"} /\ outcome' \in {"open", "up", "error"}
        BY <1>2, MissingType DEF SeeUp
      <3>2. QED
        BY <2>2, <2>3, <3>1
    <2>5. MarkersInv' /\ TurnsInv'
      BY <1>2, <2>1, <2>2, <2>3, Phases, MarkerNames DEF SeeUp
    <2>6. TasksInv'
      <3>1. outcome' = IF laptop.phase = 4 THEN "up" ELSE outcome
        BY <1>2 DEF SeeUp
      <3>2. QED
        BY <1>2, <2>1, <2>2, <2>3, <3>1, Tasks, Phases DEF SeeUp
    <2>7. QED
      BY <2>4, <2>5, <2>6
  <1>3. CASE SeeExit
    BY <1>3, Phases DEF SeeExit, Goto
  <1>4. CASE Reach
    <2>1. PICK s \in {"work", "teardown"} :
             /\ Goto(s)
             /\ outcome' = IF s = "work" THEN outcome ELSE "error"
      <3>1. CASE Goto("work") /\ outcome' = outcome
        BY <3>1
      <3>2. CASE Goto("teardown") /\ outcome' = "error"
        BY <3>2
      <3>3. QED
        BY <1>4, <3>1, <3>2 DEF Reach
    <2>2. /\ laptop' \in [phase : 1 .. 4, step : LaptopStep, spent : Nat]
          /\ laptop'.phase = laptop.phase /\ laptop'.step = s
      BY <2>1, GotoMoves
    <2>3. UNCHANGED <<epoch, served, embed, box, done, markers, damaged, rented>>
      BY <1>4 DEF Reach
    <2>4. gaps' \subseteq {"llm", "embed"} /\ blame' \in {"nobody", "patience", "fault"}
      BY <1>4, MissingType DEF Reach
    <2>5. TypeOK'
      BY <2>1, <2>2, <2>3, <2>4
    <2>6. MarkersInv' /\ TurnsInv'
      BY <1>4, <2>1, <2>2, <2>3, Phases DEF Reach
    <2>7. TasksInv'
      BY <1>4, <2>1, <2>2, <2>3, Tasks, Phases DEF Reach
    <2>8. QED
      BY <2>5, <2>6, <2>7
  <1>5. CASE FinishTask
    <2>1. laptop.phase \in Phase /\ laptop.phase = epoch
      BY <1>5, Phases DEF FinishTask
    <2>2. PICK s \in {"work", "put"} :
             Goto(s) /\ (s = "work" <=> done' < LastTask(laptop.phase))
      BY <1>5 DEF FinishTask
    <2>3. /\ laptop' \in [phase : 1 .. 4, step : LaptopStep, spent : Nat]
          /\ laptop'.phase = laptop.phase /\ laptop'.step = s
      BY <2>2, GotoMoves
    <2>4. done' = done + 1 /\ done' <= LastTask(laptop.phase) /\ done' \in 0 .. 6
      BY <1>5, <2>1, Phases, Tasks DEF FinishTask
    <2>5. /\ UNCHANGED <<epoch, served, embed, box, outcome, markers, rented, blame>>
          /\ gaps' \subseteq {"llm", "embed"}
          /\ damaged' \subseteq damaged \cup {done'}
      BY <1>5, MissingType DEF FinishTask
    <2>6. TypeOK'
      BY <2>3, <2>4, <2>5
    <2>7. MarkersInv' /\ TurnsInv'
      BY <1>5, <2>2, <2>3, <2>5, Phases DEF FinishTask
    <2>8. TasksInv'
      BY <1>5, <2>1, <2>2, <2>3, <2>4, <2>5, Tasks, Phases DEF FinishTask
    <2>9. QED
      BY <2>6, <2>7, <2>8
  <1>6. CASE PutDone
    <2>1. TypeOK'
      BY <1>6, Phases, Tasks, MarkerNames, AllMarkers, MissingType DEF PutDone, LastTask
    <2>2. MarkersInv'
      BY <1>6, Phases, Tasks, MarkerNames, AllMarkers DEF PutDone, Goto
    <2>3. TurnsInv'
      BY <1>6, Phases, Tasks, MarkerNames, AllMarkers DEF PutDone, Goto
    <2>4. TasksInv'
      BY <1>6, Phases, Tasks, MarkerNames, AllMarkers DEF PutDone, LastTask
    <2>5. QED
      BY <2>1, <2>2, <2>3, <2>4
  <1>7. CASE Teardown
    BY <1>7, Phases DEF Teardown, Goto
  <1>8. CASE LaptopFails
    BY <1>8, Phases DEF LaptopFails, Goto
  <1>9. CASE Tick
    BY <1>9, Phases DEF Tick, Goto
  <1>10. QED
    BY <1>1, <1>2, <1>3, <1>4, <1>5, <1>6, <1>7, <1>8, <1>9 DEF LaptopMoves

LEMMA PhaseInvStep == PhaseInv /\ [Next]_vars => PhaseInv'
  <1>1. PhaseInv /\ UNCHANGED vars => PhaseInv'
    BY DEF vars, PhaseInv, TypeOK, MarkersInv, TurnsInv, TasksInv
  <1>2. QED
    BY <1>1, PhaseInvBox, PhaseInvLaptop DEF Next

LEMMA PhaseInvHolds == Spec => []PhaseInv
  BY PhaseInvInit, PhaseInvStep, PTL DEF Spec

\* The variables keep their types.
THEOREM WindowTypeCorrect == Spec => []TypeOK
  <1>1. PhaseInv => TypeOK
    BY DEF PhaseInv
  <1>2. QED
    BY <1>1, PhaseInvHolds, PTL

\* The box never takes a model down under a task (gpu_window.py 200-203, 312-315,
\* 335-339).
THEOREM NoSwap == Spec => []NoSwapUnderWork
  <1>1. PhaseInv => NoSwapUnderWork
    <2> SUFFICES ASSUME PhaseInv, At("work"), DriverLives
                 PROVE  Driver("wait") /\ epoch = laptop.phase
      BY DEF NoSwapUnderWork
    <2>1. epoch = laptop.phase /\ UpMarker(epoch) \in markers
      BY Phases DEF PhaseInv, TypeOK, MarkersInv, TurnsInv, At
    <2>2. QED
      BY <2>1 DEF PhaseInv, MarkersInv, DriverLives, Driver
  <1>2. QED
    BY <1>1, PhaseInvHolds, PTL

\* The laptop and the box never wait for each other (jarvis.py 1092-1100,
\* gpu_window.py 93-99).
LEMMA NoCycle == PhaseInv => NoMutualWait
  <1> SUFFICES ASSUME PhaseInv, Driver("wait"), DoneMarker(epoch) \notin markers, At("await"),
                      UpMarker(laptop.phase) \notin markers
               PROVE  FALSE
    BY DEF NoMutualWait
  <1>1. epoch = laptop.phase
    BY Phases DEF PhaseInv, TypeOK, MarkersInv, TurnsInv
  <1>2. QED
    BY <1>1 DEF PhaseInv, MarkersInv, Driver

THEOREM NoWaitingCycle == Spec => []NoMutualWait
  BY NoCycle, PhaseInvHolds, PTL

----------------------------------------------------------------------------

\* The tasks run in order and each in its model's epoch (jarvis.py 1113-1190 and
\* gpu_window.py 195-339 implement WindowPhases).
LEMMA PhaseStep == PhaseInv /\ [Next]_vars => [PhasesNext]_phaseVars
  <1> SUFFICES ASSUME PhaseInv, [Next]_vars PROVE [PhasesNext]_phaseVars
    OBVIOUS
  <1> USE DEF phaseVars, PhasesNext
  <1>1. CASE BoxNext
    <2>1. UNCHANGED <<done, outcome>>
      BY <1>1 DEF BoxNext
    <2>2. CASE SeeDone
      <3>1. CASE epoch < 3 /\ epoch' = epoch + 1
        <4>1. laptop.phase > epoch
          BY <2>2, Phases DEF SeeDone, PhaseInv, TypeOK, MarkersInv
        <4>2. Switch
          BY <2>1, <3>1, <4>1 DEF Switch, PhaseInv, TasksInv
        <4>3. QED
          BY <4>2
      <3>2. CASE epoch' = epoch
        BY <2>1, <3>2
      <3>3. QED
        BY <2>2, <3>1, <3>2 DEF SeeDone
    <2>3. CASE epoch' = epoch
      BY <2>1, <2>3
    <2>4. QED
      BY <1>1, <2>2, <2>3 DEF BoxNext, Prepared, Loaded, EmbedReady, Announce, GiveUp,
         DriverFails, PutExit, ServersDie, BoxDies
  <1>2. CASE FinishTask
    <2>1. laptop.phase \in Phase /\ laptop.phase = epoch /\ laptop.step = "work"
      BY <1>2, Phases DEF FinishTask, At, PhaseInv, TypeOK, MarkersInv, TurnsInv
    <2>2. DoneBefore(epoch) <= done /\ done < LastTask(epoch) /\ done \in 0 .. 6
      BY <2>1 DEF PhaseInv, TypeOK, TasksInv
    <2>3. done < 6 /\ PhaseOf(done + 1) = epoch
      BY <2>1, <2>2, Phases, Tasks DEF DoneBefore, PhaseOf
    <2>4. outcome = "open"
      BY <2>1 DEF PhaseInv, TasksInv
    <2>5. DoTask
      BY <1>2, <2>3, <2>4 DEF DoTask, FinishTask, boxVars
    <2>6. QED
      BY <2>5
  <1>3. CASE SeeUp \/ SeeExit \/ Reach \/ LaptopFails
    <2>1. UNCHANGED <<epoch, done>>
      BY <1>3 DEF SeeUp, SeeExit, Reach, LaptopFails, boxVars
    <2>2. outcome = "open"
      BY <1>3 DEF SeeUp, SeeExit, Reach, LaptopFails, At, PhaseInv, TasksInv
    <2>3. outcome' \in {"open", "error"} \/ (outcome' = "up" /\ laptop.phase = 4)
      BY <1>3, <2>2 DEF SeeUp, SeeExit, Reach, LaptopFails, Report
    <2>4. laptop.phase = 4 /\ outcome' = "up" => done = 6
      <3>1. CASE SeeUp
        BY <3>1, Tasks DEF SeeUp, At, PhaseInv, TasksInv, DoneBefore
      <3>2. CASE SeeExit \/ Reach \/ LaptopFails
        BY <2>2, <3>2 DEF SeeExit, Reach, LaptopFails, Report
      <3>3. QED
        BY <1>3, <3>1, <3>2
    <2>5. QED
      BY <2>1, <2>2, <2>3, <2>4 DEF Close
  <1>4. CASE Create \/ PutDone \/ Teardown \/ Tick \/ UNCHANGED vars
    BY <1>4 DEF Create, PutDone, Teardown, Tick, boxVars, vars
  <1>5. QED
    BY <1>1, <1>2, <1>3, <1>4 DEF Next, LaptopMoves

THEOREM WindowImplementsPhases == Spec => PhasesSafety
  <1>1. Init => PhasesInit
    BY DEF Init
  <1>2. QED
    BY <1>1, PhaseInvHolds, PhaseStep, PTL DEF Spec, PhasesSafety

----------------------------------------------------------------------------

(* The rent: what the waits and tasks before the laptop's present step can have *)
(* taken at most, plus the time spent in the step.                              *)

Times(n) ==
    CASE n = 0 -> 0 [] n = 1 -> TaskTime [] n = 2 -> 2 * TaskTime [] n = 3 -> 3 * TaskTime
      [] n = 4 -> 4 * TaskTime [] n = 5 -> 5 * TaskTime [] OTHER -> 6 * TaskTime

\* The waits that are over once phase p is awaited.
WaitsBefore(p) ==
    CASE p = 1 -> 0 [] p = 2 -> 2 * Health + Marker [] p = 3 -> 2 * Health + Marker + Window
      [] OTHER -> 2 * Health + 2 * Marker + Window

RentBefore ==
    CASE laptop.step \in {"create", "await"} -> WaitsBefore(laptop.phase) + Times(done)
      [] laptop.step = "reach" -> Health + Marker
      [] laptop.step \in {"work", "put"} -> WaitsBefore(laptop.phase + 1) + Times(done)
      [] OTHER -> LongestWindow

RentInv ==
    /\ laptop.spent <= LaptopLimit
    /\ rented <= RentBefore + laptop.spent

LEMMA TimesStep == \A n \in 0 .. 5 : Times(n + 1) = Times(n) + TaskTime
  <1>1. 0 .. 5 = {0, 1, 2, 3, 4, 5}
    OBVIOUS
  <1>2. QED
    BY <1>1, TimingAssumption DEF Times

LEMMA TimesNat == \A n \in 0 .. 6 : Times(n) \in Nat /\ Times(n) <= 6 * TaskTime
  BY TimingAssumption DEF Times

LEMMA WaitsNat == \A p \in 1 .. 4 : WaitsBefore(p) \in Nat /\ AwaitLimit(p) \in Nat
  BY TimingAssumption DEF WaitsBefore, AwaitLimit

LEMMA WaitsStep == \A p \in Phase : WaitsBefore(p) + AwaitLimit(p) <= WaitsBefore(p + 1)
  BY Phases, TimingAssumption DEF WaitsBefore, AwaitLimit

LEMMA WaitsSum == \A p \in 1 .. 4 : WaitsBefore(p) + AwaitLimit(p) + 6 * TaskTime <= LongestWindow
  BY TimingAssumption DEF WaitsBefore, AwaitLimit, LongestWindow

\* Wherever the laptop stands, it is within the whole window's bound.
LEMMA RentCap == PhaseInv /\ RentInv => RentBounded
  <1> SUFFICES ASSUME PhaseInv, RentInv PROVE rented <= LongestWindow
    BY DEF RentBounded
  <1>0. /\ laptop \in [phase : 1 .. 4, step : LaptopStep, spent : Nat]
        /\ done \in 0 .. 6 /\ rented \in Nat
    BY DEF PhaseInv, TypeOK
  <1>1. CASE laptop.step \in {"create", "await"}
    <2>1. laptop.spent <= AwaitLimit(laptop.phase)
      BY <1>0, <1>1, WaitsNat DEF RentInv, LaptopLimit, At
    <2>2. rented <= WaitsBefore(laptop.phase) + Times(done) + laptop.spent
      BY <1>1 DEF RentInv, RentBefore
    <2>3. QED
      BY <1>0, <2>1, <2>2, WaitsNat, WaitsSum, TimesNat, TimingAssumption DEF LongestWindow
  <1>2. CASE laptop.step = "reach"
    BY <1>0, <1>2, TimingAssumption DEF RentInv, RentBefore, LaptopLimit, At, LongestWindow
  <1>3. CASE laptop.step \in {"work", "put"}
    <2>1. laptop.phase \in Phase /\ laptop.spent <= TaskTime
      BY <1>0, <1>3, TimingAssumption DEF RentInv, LaptopLimit, At, PhaseInv, TurnsInv
    <2>2. rented <= WaitsBefore(laptop.phase + 1) + Times(done) + laptop.spent
      BY <1>3 DEF RentInv, RentBefore
    <2>3. Times(done) + laptop.spent <= 6 * TaskTime
      <3>1. CASE laptop.step = "put"
        BY <1>0, <3>1, TimesNat, TimingAssumption DEF RentInv, LaptopLimit, At
      <3>2. CASE laptop.step = "work"
        <4>1. done \in 0 .. 5
          BY <1>0, <2>1, <3>2, Tasks, Phases DEF PhaseInv, TasksInv
        <4>2. done + 1 \in 0 .. 6
          BY <4>1
        <4>3. QED
          BY <1>0, <2>1, <4>1, <4>2, TimesStep, TimesNat, TimingAssumption
      <3>3. QED
        BY <1>3, <3>1, <3>2
    <2>4. WaitsBefore(laptop.phase + 1) + 6 * TaskTime <= LongestWindow
      BY <2>1, Phases, TimingAssumption DEF WaitsBefore, LongestWindow
    <2>5. laptop.phase + 1 \in 1 .. 4 /\ LongestWindow \in Nat
      BY <2>1, Phases, TimingAssumption DEF LongestWindow
    <2>6. QED
      BY <1>0, <2>2, <2>3, <2>4, <2>5, WaitsNat, TimesNat, TimingAssumption
  <1>4. CASE laptop.step \in {"teardown", "over"}
    BY <1>0, <1>4, TimingAssumption DEF RentInv, RentBefore, LaptopLimit, At, LongestWindow
  <1>5. QED
    BY <1>0, <1>1, <1>2, <1>3, <1>4 DEF LaptopStep

LEMMA RentStep == PhaseInv /\ RentInv /\ [Next]_vars => RentInv'
  <1> SUFFICES ASSUME PhaseInv, RentInv, [Next]_vars PROVE RentInv'
    OBVIOUS
  <1>0. /\ laptop \in [phase : 1 .. 4, step : LaptopStep, spent : Nat]
        /\ done \in 0 .. 6 /\ rented \in Nat /\ rented <= LongestWindow
    BY RentCap DEF PhaseInv, TypeOK, RentBounded
  <1>1. CASE laptop' = laptop /\ done' = done /\ rented' = rented
    BY <1>1 DEF RentInv, RentBefore, LaptopLimit, At
  <1>2. CASE Create
    BY <1>0, <1>2, TimingAssumption
       DEF Create, Goto, RentInv, RentBefore, LaptopLimit, At, PhaseInv, TurnsInv, AwaitLimit
  <1>3. ASSUME Goto("teardown"), rented' = rented PROVE RentInv'
    BY <1>0, <1>3, GotoMoves, TimingAssumption
       DEF LaptopStep, RentInv, RentBefore, LaptopLimit, At, LongestWindow
  <1>4. CASE SeeUp
    <2>1. CASE laptop.phase = 4
      BY <1>3, <1>4, <2>1 DEF SeeUp, Report
    <2>2. CASE laptop.phase \in Phase
      <3>1. PICK s \in {"reach", "work"} : Goto(s) /\ (s = "reach" <=> laptop.phase = 1)
        <4>1. CASE laptop.phase = 1
          BY <1>4, <4>1 DEF SeeUp
        <4>2. CASE laptop.phase \in {2, 3}
          BY <1>4, <4>2 DEF SeeUp, StartTask
        <4>3. QED
          BY <2>2, <4>1, <4>2, Phases
      <3>2. laptop'.phase = laptop.phase /\ laptop'.step = s /\ laptop'.spent = 0
        BY <1>0, <3>1, GotoMoves DEF LaptopStep
      <3>3. /\ laptop.spent <= AwaitLimit(laptop.phase)
            /\ rented <= WaitsBefore(laptop.phase) + Times(done) + laptop.spent
        BY <1>4 DEF SeeUp, At, RentInv, RentBefore, LaptopLimit
      <3>4. rented <= WaitsBefore(laptop.phase + 1) + Times(done)
        <4>1. laptop.phase \in 1 .. 4 /\ laptop.phase + 1 \in 1 .. 4
          BY <2>2, Phases
        <4>2. QED
          BY <1>0, <2>2, <3>3, <4>1, WaitsStep, WaitsNat, TimesNat
      <3>5. laptop.phase = 1 => rented <= Health + Marker
        <4>1. laptop.phase = 1 => done = 0
          BY <1>4 DEF SeeUp, At, PhaseInv, TasksInv, DoneBefore
        <4>2. QED
          BY <1>0, <3>3, <4>1, TimingAssumption DEF WaitsBefore, Times, AwaitLimit
      <3>6. rented' = rented /\ done' = done
        BY <1>4 DEF SeeUp
      <3>7. QED
        BY <1>0, <3>1, <3>2, <3>4, <3>5, <3>6, WaitsNat, TimesNat, TimingAssumption, <2>2, Phases
           DEF RentInv, RentBefore, LaptopLimit, At
    <2>3. QED
      BY <1>0, <2>1, <2>2, Phases
  <1>5. CASE SeeExit
    BY <1>3, <1>5 DEF SeeExit, Report
  <1>6. CASE Reach
    <2>1. CASE Goto("teardown")
      BY <1>3, <1>6, <2>1 DEF Reach
    <2>2. CASE Goto("work")
      <3>1. laptop.phase = 1 /\ done = 0 /\ rented' = rented /\ done' = done
        BY <1>6 DEF Reach, At, PhaseInv, TurnsInv, TasksInv, DoneBefore
      <3>2. rented <= 2 * Health + Marker
        BY <1>0, <1>6, TimingAssumption DEF Reach, At, RentInv, RentBefore, LaptopLimit
      <3>3. laptop'.phase = 1 /\ laptop'.step = "work" /\ laptop'.spent = 0
        BY <1>0, <2>2, <3>1, GotoMoves DEF LaptopStep
      <3>4. QED
        BY <1>0, <3>1, <3>2, <3>3, TimingAssumption
           DEF RentInv, RentBefore, LaptopLimit, At, WaitsBefore, Times
    <2>3. QED
      BY <1>6, <2>1, <2>2 DEF Reach, Report, StartTask
  <1>7. CASE FinishTask
    <2>1. laptop.phase \in Phase /\ done \in 0 .. 5
      BY <1>0, <1>7, Phases, Tasks DEF FinishTask, At, PhaseInv, TurnsInv, TasksInv
    <2>2. /\ laptop.spent <= TaskTime
          /\ rented <= WaitsBefore(laptop.phase + 1) + Times(done) + laptop.spent
      BY <1>7 DEF FinishTask, At, RentInv, RentBefore, LaptopLimit
    <2>3. done' = done + 1 /\ rented' = rented
      BY <1>7 DEF FinishTask
    <2>4. laptop.phase + 1 \in 1 .. 4 /\ done + 1 \in 0 .. 6
      BY <2>1, Phases
    <2>5. rented' <= WaitsBefore(laptop.phase + 1) + Times(done')
      BY <1>0, <2>1, <2>2, <2>3, <2>4, TimesStep, TimesNat, WaitsNat, TimingAssumption
    <2>6. PICK s \in {"work", "put"} : Goto(s)
      BY <1>7 DEF FinishTask, StartTask
    <2>7. laptop'.phase = laptop.phase /\ laptop'.step = s /\ laptop'.spent = 0
      BY <1>0, <2>6, GotoMoves DEF LaptopStep
    <2>8. QED
      BY <1>0, <2>3, <2>4, <2>5, <2>6, <2>7, TimesNat, WaitsNat, TimingAssumption
         DEF RentInv, RentBefore, LaptopLimit, At
  <1>8. CASE PutDone
    <2>1. laptop.spent = 0 /\ rented <= WaitsBefore(laptop.phase + 1) + Times(done)
      <3>1. laptop.spent = 0
        BY <1>0, <1>8 DEF PutDone, At, RentInv, LaptopLimit
      <3>2. rented <= WaitsBefore(laptop.phase + 1) + Times(done) + laptop.spent
        BY <1>8 DEF PutDone, At, RentInv, RentBefore
      <3>3. laptop.phase + 1 \in 1 .. 4
        BY <1>8, Phases DEF PutDone, At, PhaseInv, TurnsInv
      <3>4. QED
        BY <1>0, <3>1, <3>2, <3>3, WaitsNat, TimesNat
    <2>2. /\ laptop'.phase = laptop.phase + 1 /\ laptop'.step = "await" /\ laptop'.spent = 0
          /\ done' = done /\ rented' = rented
      BY <1>8 DEF PutDone
    <2>3. laptop'.phase \in 1 .. 4
      BY <1>8, <2>2, Phases DEF PutDone, At, PhaseInv, TurnsInv
    <2>4. QED
      BY <1>0, <2>1, <2>2, <2>3, WaitsNat, TimesNat DEF RentInv, RentBefore, LaptopLimit, At
  <1>9. CASE LaptopFails
    BY <1>3, <1>9 DEF LaptopFails, Report
  <1>10. CASE Teardown
    <2>1. laptop'.step = "over" /\ laptop'.spent = 0 /\ rented' = rented
      BY <1>0, <1>10, GotoMoves DEF Teardown, LaptopStep
    <2>2. QED
      BY <1>0, <2>1, TimingAssumption DEF RentInv, RentBefore, LaptopLimit, At, LongestWindow
  <1>11. CASE Tick
    <2>1. /\ laptop'.phase = laptop.phase /\ laptop'.step = laptop.step
          /\ laptop'.spent = laptop.spent + 1
          /\ rented' = rented + 1 /\ done' = done /\ laptop.spent < LaptopLimit
      BY <1>0, <1>11 DEF Tick
    <2>2. LaptopLimit' = LaptopLimit /\ RentBefore' = RentBefore
      BY <2>1 DEF LaptopLimit, RentBefore, At
    <2>3. LaptopLimit \in Nat
      BY <1>0, WaitsNat, TimingAssumption DEF LaptopLimit
    <2>4. RentBefore \in Nat
      <3>1. laptop.step \in {"work", "put"} => laptop.phase + 1 \in 1 .. 4
        BY Phases DEF PhaseInv, TurnsInv
      <3>2. QED
        BY <1>0, <3>1, WaitsNat, TimesNat, TimingAssumption DEF RentBefore, LongestWindow
    <2>5. QED
      BY <1>0, <2>1, <2>2, <2>3, <2>4 DEF RentInv
  <1>12. QED
    BY <1>1, <1>2, <1>4, <1>5, <1>6, <1>7, <1>8, <1>9, <1>10, <1>11
       DEF Next, BoxNext, LaptopMoves, vars

\* However long the box takes, the window's rent is bounded by the sum of the laptop's
\* own timeouts and tasks (jarvis.py 1092-1202).
THEOREM RentIsBounded == Spec => []RentBounded
  <1>1. Init => RentInv
    BY TimingAssumption DEF Init, PhasesInit, RentInv, RentBefore, LaptopLimit, WaitsBefore,
       Times, At
  <1>2. QED
    BY <1>1, PhaseInvHolds, RentStep, RentCap, PTL DEF Spec

----------------------------------------------------------------------------

(* Without a fault the box is where the laptop takes it to be, and has waited   *)
(* no longer than the laptop has worked.                                        *)

WorkTime ==
    CASE laptop.phase = 1 -> Health + Times(done) [] laptop.phase = 2 -> Times(done - 1)
      [] OTHER -> Times(done - 3)

Patience ==
    /\ laptop.step = "await" => box.spent = 0
    /\ laptop.step = "reach" => box.spent <= laptop.spent
    /\ laptop.step \in {"work", "put"} => box.spent <= WorkTime + laptop.spent

BlameInv ==
    /\ outcome # "error" /\ damaged \cap 1 .. 3 = {}
    /\ box.step \in {"exiting", "gone"} => laptop.phase = 4
    /\ box.step \in {"announce", "wait"} => served = epoch
    /\ laptop.step = "work" => "llm" \notin gaps /\ (laptop.phase < 3 => gaps = {})
    /\ box.step = "wait" /\ laptop.phase = epoch => Patience

NoBlame == blame = "nobody" => BlameInv
\* A box that has lost its patience lost it in a phase that is not short, and is ending.
PatienceInv == blame = "patience" => box.step \in {"exiting", "gone"} /\ ~ Short(epoch)
FullInv == PhaseInv /\ RentInv /\ NoBlame /\ PatienceInv

LEMMA FaultsStay == PhaseInv /\ [Next]_vars /\ blame' = "nobody" => blame = "nobody"
  BY DEF PhaseInv, TypeOK, Next, BoxNext, LaptopMoves, vars, Prepared, Loaded, EmbedReady,
     Announce, SeeDone, GiveUp, DriverFails, PutExit, ServersDie, BoxDies, Create, SeeUp,
     SeeExit, Reach, FinishTask, PutDone, LaptopFails, Teardown, Tick

\* While the laptop uses a model, the box serves it and waits.
LEMMA ModelInUse ==
  ASSUME PhaseInv, BlameInv, laptop.phase \in Phase, UpMarker(laptop.phase) \in markers
  PROVE  box.step = "wait" /\ laptop.phase = epoch /\ served = epoch
  <1>1. laptop.phase = epoch
    BY Phases DEF PhaseInv, TypeOK, MarkersInv, TurnsInv
  <1>2. box.step \notin {"exiting", "gone"}
    BY Phases DEF BlameInv
  <1>3. QED
    BY <1>1, <1>2 DEF PhaseInv, TypeOK, BoxStep, MarkersInv, BlameInv

\* In a short phase the box does not lose its patience.
LEMMA NoGiveUp == PhaseInv /\ RentInv /\ BlameInv /\ Short(epoch) => ~GiveUp
  <1> SUFFICES ASSUME PhaseInv, RentInv, BlameInv, Short(epoch), GiveUp PROVE FALSE
    OBVIOUS
  <1>1. laptop.phase = epoch /\ box.step = "wait" /\ box.spent = Marker /\ epoch \in Phase
    BY Phases DEF GiveUp, Driver, PhaseInv, TypeOK, MarkersInv, TurnsInv
  <1>2. Patience /\ laptop.spent \in Nat /\ done \in 0 .. 6
    BY <1>1 DEF BlameInv, PhaseInv, TypeOK
  <1>3. CASE laptop.step \in {"await", "reach"}
    <2>1. Marker > 0
      BY <1>1, Phases, TimingAssumption DEF Short
    <2>2. CASE laptop.step = "await"
      BY <1>1, <1>2, <2>1, <2>2, TimingAssumption DEF Patience
    <2>3. CASE laptop.step = "reach"
      <3>1. epoch = 1 /\ box.spent <= laptop.spent /\ laptop.spent <= Health
        BY <1>1, <1>2, <2>3 DEF Patience, RentInv, LaptopLimit, At, PhaseInv, TurnsInv
      <3>2. QED
        BY <1>1, <1>2, <3>1, TimingAssumption DEF Short, PhaseInv, TypeOK
    <2>4. QED
      BY <1>3, <2>2, <2>3
  <1>4. CASE laptop.step = "work"
    <2>1. laptop.spent <= TaskTime
      BY <1>4 DEF RentInv, LaptopLimit, At
    <2>2. WorkTime + TaskTime < Marker
      <3>1. DoneBefore(epoch) <= done /\ done < LastTask(epoch)
        BY <1>1, <1>4 DEF PhaseInv, TasksInv
      <3>2. CASE epoch = 1
        BY <1>1, <1>2, <3>1, <3>2, Tasks, TimingAssumption DEF WorkTime, Times, Short, DoneBefore
      <3>3. CASE epoch = 2
        BY <1>1, <1>2, <3>1, <3>3, Tasks, TimingAssumption DEF WorkTime, Times, Short, DoneBefore
      <3>4. CASE epoch = 3
        BY <1>1, <1>2, <3>1, <3>4, Tasks, TimingAssumption DEF WorkTime, Times, Short, DoneBefore
      <3>5. QED
        BY <1>1, <3>2, <3>3, <3>4, Phases
    <2>3. WorkTime \in Nat
      <3>1. DoneBefore(epoch) <= done /\ done < LastTask(epoch)
        BY <1>1, <1>4 DEF PhaseInv, TasksInv
      <3>2. QED
        BY <1>1, <1>2, <3>1, Phases, Tasks, TimingAssumption DEF WorkTime, Times, DoneBefore
    <2>4. QED
      BY <1>1, <1>2, <1>4, <2>1, <2>2, <2>3, TimingAssumption DEF Patience
  <1>5. CASE laptop.step = "put"
    <2>1. laptop.spent = 0 /\ done = LastTask(epoch)
      BY <1>1, <1>2, <1>5 DEF RentInv, LaptopLimit, At, PhaseInv, TasksInv
    <2>2. WorkTime < Marker /\ WorkTime \in Nat
      BY <1>1, <2>1, Phases, Tasks, TimingAssumption DEF WorkTime, Times, Short
    <2>3. QED
      BY <1>1, <1>2, <1>5, <2>1, <2>2, TimingAssumption DEF Patience
  <1>6. CASE laptop.step \in {"teardown", "over"}
    BY <1>1, <1>6, Phases DEF BlameInv, PhaseInv, TypeOK, TasksInv
  <1>7. CASE laptop.step = "create"
    BY <1>1, <1>7 DEF PhaseInv, TurnsInv
  <1>8. QED
    BY <1>3, <1>4, <1>5, <1>6, <1>7 DEF PhaseInv, TypeOK, LaptopStep

LEMMA BlameBox == FullInv /\ BoxNext /\ PhaseInv' => NoBlame'
  <1> SUFFICES ASSUME FullInv, BoxNext, PhaseInv', blame' = "nobody" PROVE BlameInv'
    BY DEF NoBlame
  <1>1. PhaseInv /\ RentInv /\ BlameInv /\ blame = "nobody"
    BY FaultsStay DEF FullInv, NoBlame, Next
  <1>2. /\ UNCHANGED <<done, outcome, laptop, damaged, rented>>
        /\ gaps' = IF laptop.step = "work" THEN gaps \cup Missing(served', embed') ELSE gaps
    BY DEF BoxNext, At
  <1>3. outcome' # "error" /\ damaged' \cap 1 .. 3 = {}
    BY <1>1, <1>2 DEF BlameInv
  <1>4. laptop.step = "work" => box.step = "wait" /\ laptop.phase = epoch /\ served = epoch
                                /\ laptop.phase \in Phase
    BY <1>1, ModelInUse DEF PhaseInv, TurnsInv
  <1>5. ~SeeDone \/ laptop.phase > epoch
    BY <1>1, Phases DEF SeeDone, PhaseInv, TypeOK, MarkersInv
  <1>6. CASE Prepared \/ Loaded
    BY <1>1, <1>2, <1>3, <1>4, <1>6 DEF Prepared, Loaded, Driver, DriverGoto, BlameInv
  <1>7. CASE EmbedReady
    <2>1. laptop.step = "work" => "llm" \notin Missing(served', embed')
                                  /\ (laptop.phase < 3 => Missing(served', embed') = {})
      BY <1>1, <1>4, <1>7, Phases DEF EmbedReady, Missing
    <2>2. UNCHANGED <<epoch, box, served>> /\ (Patience' <=> Patience)
      BY <1>2, <1>7 DEF EmbedReady, Patience, WorkTime
    <2>3. QED
      BY <1>1, <1>2, <1>3, <2>1, <2>2 DEF BlameInv
  <1>8. CASE Announce
    <2>1. box' = [step |-> "wait", spent |-> 0] /\ UNCHANGED <<epoch, served>>
          /\ box.step = "announce"
      BY <1>8 DEF Announce, Driver, DriverGoto
    <2>2. laptop.step # "work"
      BY <1>4, <2>1
    <2>3. laptop.phase = epoch => laptop.step \notin {"reach", "put"}
      BY <1>1, <2>1 DEF PhaseInv, MarkersInv, TurnsInv
    <2>4. laptop.phase = epoch => Patience'
      BY <1>2, <2>1, <2>2, <2>3 DEF Patience
    <2>5. QED
      BY <1>1, <1>2, <1>3, <2>1, <2>2, <2>4 DEF BlameInv
  <1>9. CASE SeeDone
    <2>1. laptop.step # "work" /\ laptop.phase \in 1 .. 4 /\ epoch \in Phase
      BY <1>1, <1>4, <1>5, <1>9, Phases DEF PhaseInv, TypeOK
    <2>2. box'.step = "prepare" \/ (box'.step = "exiting" /\ epoch = 3)
      BY <1>9 DEF SeeDone, DriverGoto
    <2>3. box'.step = "exiting" => laptop.phase = 4
      BY <1>5, <1>9, <2>1, <2>2
    <2>4. QED
      BY <1>2, <1>3, <2>1, <2>2, <2>3 DEF BlameInv
  <1>10. CASE PutExit
    <2>1. box.step = "exiting" /\ box'.step = "gone" /\ laptop.step # "work"
      BY <1>4, <1>10 DEF PutExit, Driver, DriverGoto
    <2>2. QED
      BY <1>1, <1>2, <1>3, <2>1 DEF BlameInv
  <1>11. CASE GiveUp
    BY <1>1, <1>11 DEF GiveUp
  <1>12. CASE DriverFails \/ ServersDie \/ BoxDies
    BY <1>12 DEF DriverFails, ServersDie, BoxDies
  <1>13. QED
    BY <1>6, <1>7, <1>8, <1>9, <1>10, <1>11, <1>12 DEF BoxNext

LEMMA BlameLaptop == FullInv /\ (LaptopMoves \/ LaptopFails \/ Tick) => NoBlame'
  <1> SUFFICES ASSUME FullInv, LaptopMoves \/ LaptopFails \/ Tick, blame' = "nobody"
               PROVE  BlameInv'
    BY DEF NoBlame
  <1>1. PhaseInv /\ RentInv /\ BlameInv /\ blame = "nobody"
    BY FaultsStay DEF FullInv, NoBlame, Next
  <1>2. /\ laptop \in [phase : 1 .. 4, step : LaptopStep, spent : Nat]
        /\ box \in [step : BoxStep, spent : Nat]
        /\ done \in 0 .. 6 /\ epoch \in Phase
    BY <1>1 DEF PhaseInv, TypeOK
  \* A task starts with its model in service.
  <1>3. ASSUME laptop.phase \in Phase, UpMarker(laptop.phase) \in markers
        PROVE  /\ "llm" \notin Missing(served, embed)
               /\ laptop.phase < 3 => Missing(served, embed) = {}
    BY <1>1, <1>3, ModelInUse, Phases DEF Missing
  <1>4. CASE Create
    <2>1. box'.step = "prepare" /\ laptop'.step = "await"
      BY <1>2, <1>4, GotoMoves DEF Create, DriverGoto, LaptopStep
    <2>2. UNCHANGED <<outcome, damaged>>
      BY <1>4 DEF Create
    <2>3. QED
      BY <1>1, <2>1, <2>2 DEF BlameInv
  <1>5. CASE SeeUp
    <2>1. PICK s \in {"reach", "work", "teardown"} :
             Goto(s) /\ (s = "reach" <=> laptop.phase = 1) /\ (s = "teardown" <=> laptop.phase = 4)
      <3>1. CASE laptop.phase = 1
        BY <1>5, <3>1 DEF SeeUp
      <3>2. CASE laptop.phase \in {2, 3}
        BY <1>5, <3>2 DEF SeeUp, StartTask
      <3>3. CASE laptop.phase = 4
        BY <1>5, <3>3 DEF SeeUp, Report
      <3>4. QED
        BY <1>2, <3>1, <3>2, <3>3
    <2>2. laptop'.phase = laptop.phase /\ laptop'.step = s /\ laptop'.spent = 0
      BY <1>2, <2>1, GotoMoves DEF LaptopStep
    <2>3. UNCHANGED <<epoch, served, embed, box, done, markers, damaged>>
      BY <1>5 DEF SeeUp, boxVars
    <2>4. outcome' # "error"
      BY <1>1, <1>5 DEF SeeUp, Report, BlameInv
    <2>5. CASE s = "work"
      <3>1. laptop.phase \in {2, 3} /\ UpMarker(laptop.phase) \in markers
            /\ gaps' = Missing(served, embed)
        BY <1>2, <1>5, <2>1, <2>5 DEF SeeUp, StartTask
      <3>2. "llm" \notin gaps' /\ (laptop'.phase < 3 => gaps' = {})
        BY <1>3, <2>2, <3>1, Phases
      <3>3. box.spent = 0
        BY <1>1, <1>5, <3>1, ModelInUse, Phases DEF SeeUp, At, BlameInv, Patience
      <3>4. WorkTime' \in Nat
        BY <1>1, <1>5, <2>2, <2>3, <3>1, Tasks, TimingAssumption
           DEF SeeUp, At, PhaseInv, TasksInv, DoneBefore, WorkTime, Times
      <3>5. Patience'
        <4>1. laptop'.step = "work" /\ laptop'.spent = 0 /\ box'.spent = 0
          BY <2>2, <2>3, <2>5, <3>3
        <4>2. \A w \in Nat : 0 <= w + 0
          OBVIOUS
        <4>3. box'.spent <= WorkTime' + laptop'.spent
          BY <3>4, <4>1, <4>2
        <4>4. QED
          BY <4>1, <4>3 DEF Patience
      <3>6. QED
        BY <1>1, <2>2, <2>3, <2>4, <3>2, <3>5 DEF BlameInv
    <2>6. CASE s = "reach"
      <3>1. box.spent = 0
        BY <1>1, <1>5, <2>1, <2>6, ModelInUse, Phases DEF SeeUp, At, BlameInv, Patience
      <3>2. Patience'
        BY <2>2, <2>3, <2>6, <3>1 DEF Patience
      <3>3. QED
        BY <1>1, <2>2, <2>3, <2>4, <2>6, <3>2 DEF BlameInv
    <2>7. CASE s = "teardown"
      BY <1>1, <2>2, <2>3, <2>4, <2>7 DEF BlameInv, Patience
    <2>8. QED
      BY <2>5, <2>6, <2>7
  <1>6. CASE SeeExit
    <2>1. CASE "EXIT" \in markers
      BY <1>1, <1>6, <2>1, MarkerNames DEF SeeExit, PhaseInv, MarkersInv, BlameInv
    <2>2. CASE "EXIT" \notin markers
      <3>1. Driver("wait") /\ DoneMarker(epoch) \notin markers
        BY <1>1, <1>6, <2>2 DEF SeeExit
      <3>2. QED
        BY <1>1, <1>6, <3>1, NoCycle DEF SeeExit, NoMutualWait
    <2>3. QED
      BY <2>1, <2>2
  <1>7. CASE Reach
    <2>1. StartTask /\ outcome' = outcome
      BY <1>7 DEF Reach
    <2>2. laptop'.phase = laptop.phase /\ laptop'.step = "work" /\ laptop'.spent = 0
      BY <1>2, <2>1, GotoMoves DEF StartTask, LaptopStep
    <2>3. UNCHANGED <<epoch, served, embed, box, done, markers, damaged>>
      BY <1>7 DEF Reach, boxVars
    <2>4. laptop.phase = 1 /\ UpMarker(laptop.phase) \in markers /\ done = 0
      BY <1>1, <1>7 DEF Reach, At, PhaseInv, TurnsInv, TasksInv, DoneBefore
    <2>5. "llm" \notin gaps' /\ (laptop'.phase < 3 => gaps' = {})
      BY <1>3, <2>1, <2>2, <2>4, Phases DEF StartTask
    <2>6. box.spent <= Health
      <3>1. box.spent <= laptop.spent
        BY <1>1, <1>7, <2>4, ModelInUse, Phases DEF Reach, At, BlameInv, Patience
      <3>2. laptop.spent <= Health
        BY <1>1, <1>7 DEF Reach, At, RentInv, LaptopLimit
      <3>3. QED
        BY <1>2, <3>1, <3>2, TimingAssumption
    <2>7. Patience'
      BY <1>2, <2>2, <2>3, <2>4, <2>6, TimingAssumption DEF Patience, WorkTime, Times
    <2>8. QED
      BY <1>1, <2>1, <2>2, <2>3, <2>5, <2>7 DEF BlameInv
  <1>8. CASE FinishTask
    <2>1. laptop.phase \in Phase /\ UpMarker(laptop.phase) \in markers /\ laptop.step = "work"
      BY <1>1, <1>8 DEF FinishTask, At, PhaseInv, TurnsInv
    <2>2. /\ box.step = "wait" /\ laptop.phase = epoch /\ served = epoch
          /\ box.spent <= WorkTime + laptop.spent
          /\ laptop.phase < 3 => gaps = {}
          /\ laptop.spent <= TaskTime
      BY <1>1, <2>1, ModelInUse DEF BlameInv, Patience, RentInv, LaptopLimit, At
    <2>3. DoneBefore(laptop.phase) <= done /\ done < LastTask(laptop.phase)
      BY <1>1, <2>1 DEF PhaseInv, TasksInv
    <2>4. UNCHANGED <<epoch, served, embed, box, outcome, markers>> /\ done' = done + 1
      BY <1>8 DEF FinishTask, boxVars
    <2>5. damaged' \cap 1 .. 3 = {}
      <3>1. CASE laptop.phase < 3
        BY <1>1, <1>8, <2>2, <3>1 DEF FinishTask, BlameInv
      <3>2. CASE laptop.phase = 3
        <4>1. done + 1 > 3
          BY <1>2, <2>3, <3>2, Tasks DEF DoneBefore
        <4>2. done + 1 \notin 1 .. 3 /\ damaged' \subseteq damaged \cup {done + 1}
          BY <1>2, <1>8, <2>4, <4>1 DEF FinishTask
        <4>3. QED
          BY <1>1, <4>2 DEF BlameInv
      <3>3. QED
        BY <2>1, <3>1, <3>2, Phases
    <2>6. PICK s \in {"work", "put"} :
             Goto(s) /\ gaps' = IF s = "work" THEN Missing(served, embed) ELSE {}
      BY <1>8 DEF FinishTask, StartTask
    <2>7. laptop'.phase = laptop.phase /\ laptop'.step = s /\ laptop'.spent = 0
      BY <1>2, <2>6, GotoMoves DEF LaptopStep
    <2>8. "llm" \notin gaps' /\ (laptop'.phase < 3 => gaps' = {})
      BY <1>3, <2>1, <2>6, <2>7
    <2>9. WorkTime' = WorkTime + TaskTime /\ WorkTime \in Nat
      <3>1. CASE laptop.phase = 1
        BY <1>2, <2>3, <2>4, <2>7, <3>1, Tasks, TimingAssumption
           DEF WorkTime, Times, DoneBefore
      <3>2. CASE laptop.phase = 2
        BY <1>2, <2>3, <2>4, <2>7, <3>2, Tasks, TimingAssumption
           DEF WorkTime, Times, DoneBefore
      <3>3. CASE laptop.phase = 3
        BY <1>2, <2>3, <2>4, <2>7, <3>3, Tasks, TimingAssumption
           DEF WorkTime, Times, DoneBefore
      <3>4. QED
        BY <2>1, <3>1, <3>2, <3>3, Phases
    <2>10. Patience'
      BY <1>2, <2>2, <2>4, <2>7, <2>9, TimingAssumption DEF Patience
    <2>11. QED
      BY <1>1, <2>2, <2>4, <2>5, <2>7, <2>8, <2>10 DEF BlameInv
  <1>9. CASE PutDone
    <2>1. laptop'.phase = laptop.phase + 1 /\ laptop'.step = "await"
      BY <1>9 DEF PutDone
    <2>2. UNCHANGED <<epoch, served, box, outcome, damaged>>
      BY <1>9 DEF PutDone, boxVars
    <2>3. laptop.phase \in Phase /\ UpMarker(laptop.phase) \in markers
      BY <1>1, <1>9 DEF PutDone, At, PhaseInv, TurnsInv
    <2>4. box.step = "wait" /\ laptop.phase = epoch
      BY <1>1, <2>3, ModelInUse
    <2>5. QED
      BY <1>1, <2>1, <2>2, <2>3, <2>4, Phases DEF BlameInv
  <1>10. CASE LaptopFails
    BY <1>10 DEF LaptopFails
  <1>11. CASE Teardown
    <2>1. laptop'.phase = laptop.phase /\ laptop'.step = "over"
      BY <1>2, <1>11, GotoMoves DEF Teardown, LaptopStep
    <2>2. laptop.phase = 4 /\ box'.step = "gone" /\ UNCHANGED <<outcome, damaged>>
      BY <1>1, <1>11 DEF Teardown, At, DriverGoto, PhaseInv, TypeOK, TasksInv, BlameInv
    <2>3. QED
      BY <1>1, <2>1, <2>2 DEF BlameInv
  <1>12. CASE Tick
    <2>1. /\ laptop'.phase = laptop.phase /\ laptop'.step = laptop.step
          /\ laptop'.spent = laptop.spent + 1
      BY <1>2, <1>12 DEF Tick
    <2>2. /\ box'.step = box.step /\ box.spent \in Nat /\ box'.spent \in Nat
          /\ box'.spent <= box.spent + 1
      BY <1>2, <1>12 DEF Tick
    <2>3. UNCHANGED <<epoch, served, embed, done, outcome, markers, gaps, damaged>>
      BY <1>12 DEF Tick, boxVars
    <2>4. box.step = "wait" /\ laptop.phase = epoch => laptop.step # "await"
      BY <1>1, <1>12 DEF Tick, At, PhaseInv, MarkersInv
    <2>5. WorkTime' = WorkTime /\ (laptop.step \in {"work", "put"} => WorkTime \in Nat)
      <3>1. WorkTime' = WorkTime
        BY <2>1, <2>3 DEF WorkTime
      <3>2. CASE laptop.step \in {"work", "put"}
        <4>1. laptop.phase \in Phase /\ DoneBefore(laptop.phase) <= done
          BY <1>1, <1>2, <3>2, Tasks, Phases DEF PhaseInv, TurnsInv, TasksInv, DoneBefore
        <4>2. CASE laptop.phase = 1
          BY <1>2, <3>1, <4>1, <4>2, TimesNat, TimingAssumption DEF WorkTime
        <4>3. CASE laptop.phase = 2
          <5>1. done - 1 \in 0 .. 6
            BY <1>2, <4>1, <4>3, Tasks DEF DoneBefore
          <5>2. QED
            BY <3>1, <4>3, <5>1, TimesNat DEF WorkTime
        <4>4. CASE laptop.phase = 3
          <5>1. done - 3 \in 0 .. 6
            BY <1>2, <4>1, <4>4, Tasks DEF DoneBefore
          <5>2. QED
            BY <3>1, <4>4, <5>1, TimesNat DEF WorkTime
        <4>5. QED
          BY <4>1, <4>2, <4>3, <4>4, Phases
      <3>3. QED
        BY <3>1, <3>2
    <2>6. box.step = "wait" /\ laptop.phase = epoch => Patience'
      BY <1>1, <1>2, <2>1, <2>2, <2>4, <2>5 DEF Patience, BlameInv
    <2>7. QED
      BY <1>1, <2>1, <2>2, <2>3, <2>6 DEF BlameInv
  <1>13. QED
    BY <1>4, <1>5, <1>6, <1>7, <1>8, <1>9, <1>10, <1>11, <1>12 DEF LaptopMoves

LEMMA PatienceStep == FullInv /\ [Next]_vars => PatienceInv'
  <1> SUFFICES ASSUME FullInv, [Next]_vars, blame' = "patience"
               PROVE  box'.step \in {"exiting", "gone"} /\ ~ Short(epoch')
    BY DEF PatienceInv
  <1>1. PhaseInv /\ RentInv /\ NoBlame /\ PatienceInv
    BY DEF FullInv
  <1>2. /\ laptop \in [phase : 1 .. 4, step : LaptopStep, spent : Nat]
        /\ box \in [step : BoxStep, spent : Nat]
        /\ blame \in {"nobody", "patience", "fault"}
    BY <1>1 DEF PhaseInv, TypeOK
  <1>3. CASE GiveUp
    <2>1. epoch' = epoch /\ box'.step = "exiting" /\ blame \in {"nobody", "patience"}
      BY <1>2, <1>3 DEF GiveUp, DriverGoto
    <2>2. box.step = "wait"
      BY <1>3 DEF GiveUp, Driver
    <2>3. BlameInv
      BY <1>1, <2>1, <2>2 DEF NoBlame, PatienceInv
    <2>4. ~ Short(epoch)
      BY <1>1, <1>3, <2>3, NoGiveUp
    <2>5. QED
      BY <2>1, <2>4 DEF Short
  <1>4. CASE ~GiveUp
    <2>1. blame = "patience" \/ UNCHANGED vars
      BY <1>2, <1>4 DEF Next, BoxNext, LaptopMoves, vars, Prepared, Loaded, EmbedReady,
         Announce, SeeDone, DriverFails, PutExit, ServersDie, BoxDies, Create, SeeUp,
         SeeExit, Reach, FinishTask, PutDone, LaptopFails, Teardown, Tick
    <2>2. blame = "patience" /\ box.step \in {"exiting", "gone"} /\ ~ Short(epoch)
      BY <1>1, <2>1 DEF vars, PatienceInv
    <2>3. ~Create
      BY <1>1, <2>2 DEF Create, At, PhaseInv, TurnsInv
    <2>4. epoch' = epoch /\ box'.step \in {"exiting", "gone"}
      BY <1>2, <1>4, <2>2, <2>3 DEF Next, BoxNext, LaptopMoves, vars, boxVars, Driver,
         DriverLives, DriverGoto, Prepared, Loaded, EmbedReady, Announce, SeeDone,
         DriverFails, PutExit, ServersDie, BoxDies, SeeUp, SeeExit, Reach, FinishTask,
         PutDone, LaptopFails, Teardown, Tick
    <2>5. QED
      BY <2>2, <2>4 DEF Short
  <1>5. QED
    BY <1>3, <1>4

LEMMA FullInvInit == Init => FullInv
  <1>1. Init => RentInv
    BY TimingAssumption DEF Init, PhasesInit, RentInv, RentBefore, LaptopLimit, WaitsBefore,
       Times, At
  <1>2. Init => BlameInv /\ blame = "nobody"
    BY DEF Init, PhasesInit, BlameInv
  <1>3. QED
    BY <1>1, <1>2, PhaseInvInit DEF FullInv, NoBlame, PatienceInv

LEMMA FullInvStep == FullInv /\ [Next]_vars => FullInv'
  <1> SUFFICES ASSUME FullInv, [Next]_vars PROVE FullInv'
    OBVIOUS
  <1>1. PhaseInv' /\ RentInv'
    BY PhaseInvStep, RentStep DEF FullInv
  <1>2. ASSUME UNCHANGED vars PROVE NoBlame'
    <2>1. (BlameInv' <=> BlameInv) /\ blame' = blame
      BY <1>2 DEF vars, BlameInv, Patience, WorkTime
    <2>2. QED
      BY <2>1 DEF FullInv, NoBlame
  <1>3. NoBlame'
    BY <1>1, <1>2, BlameBox, BlameLaptop DEF Next, FullInv
  <1>4. QED
    BY <1>1, <1>3, PatienceStep DEF FullInv

\* Only a fault, or a box that gives up on a laptop still at work, can cost the window or
\* put a hole into a captured column; and the box gives up only in a phase whose waits and
\* tasks may together take the markers' timeout (jarvis.py 1113-1207, gpu_window.py 93-99).
THEOREM NoFaultNoLossHolds == Spec => []NoFaultNoLoss
  <1>1. FullInv => NoFaultNoLoss
    BY DEF FullInv, NoBlame, PatienceInv, BlameInv, NoFaultNoLoss
  <1>2. QED
    BY <1>1, FullInvInit, FullInvStep, PTL DEF Spec

-----------------------------------------------------------------------------
(* The dataset commands.                                                   *)

PicksOf(indices, s, kept) ==
    /\ kept \in Seq(Nat) /\ Len(kept) <= Len(s)
    /\ \A i : (\E k \in DOMAIN kept : kept[k] = i)
                  <=> i \in indices /\ \E k \in DOMAIN s : s[k] = i
Picks == INSTANCE LeftFolds WITH
    Op <- LAMBDA kept, i, indices : IF i \in indices THEN Append(kept, i) ELSE kept,
    Base <- LAMBDA indices : <<>>,
    Holds <- LAMBDA indices, s, kept : PicksOf(indices, s, kept)
Mixes == INSTANCE LeftFolds WITH
    Op <- LAMBDA mixed, n, e : Swap(mixed, n, (e[2][n] % n) + 1),
    Base <- LAMBDA e : e[1],
    Holds <- LAMBDA e, s, mixed : mixed \in [DOMAIN e[1] -> e[3]]
Takes == INSTANCE LeftFolds WITH
    Op <- LAMBDA taken, b, e : taken \o FirstOf(Sub(e[1], OfKind(e[1], b)), e[2]),
    Base <- LAMBDA e : <<>>,
    Holds <- LAMBDA e, s, taken : taken \in Seq(e[3])

LEMMA InOrderIsFold ==
  \A n, indices : InOrder(n, indices) = Picks!Fold(indices, [i \in 1..n |-> i])
  BY DEF InOrder, Picks!Fold, FoldLeft, MapThenFoldSet, Max,
         Picks!FoldLeft, Picks!MapThenFoldSet, Picks!Max

LEMMA ShuffleIsFold ==
  \A s, d, S : Shuffle(s, d) = Mixes!Fold(<<s, d, S>>, [k \in 1..Len(s) - 1 |-> Len(s) - k + 1])
  BY DEF Shuffle, Mixes!Fold, FoldLeft, MapThenFoldSet, Max,
         Mixes!FoldLeft, Mixes!MapThenFoldSet, Mixes!Max

LEMMA BalancedIsFold ==
  \A rows, each, S : Balanced(rows, each) = Takes!Fold(<<rows, each, S>>, BehaviourOrder)
  BY DEF Balanced, Takes!Fold, FoldLeft, MapThenFoldSet, Max,
         Takes!FoldLeft, Takes!MapThenFoldSet, Takes!Max


\* The elements a sequence has.
LEMMA InOrderFacts ==
  ASSUME NEW n \in Nat, NEW indices
  PROVE  /\ InOrder(n, indices) \in Seq(Nat) /\ Len(InOrder(n, indices)) <= n
         /\ \A k \in DOMAIN InOrder(n, indices) : InOrder(n, indices)[k] \in indices \cap 1..n
         /\ \A i \in indices \cap 1..n : \E k \in DOMAIN InOrder(n, indices) : InOrder(n, indices)[k] = i
  <1> DEFINE all == [i \in 1..n |-> i]
  <1>1. PicksOf(indices, <<>>, <<>>)
    BY DEF PicksOf
  <1>2. ASSUME NEW t \in Seq(Nat), NEW x \in Nat, NEW kept, PicksOf(indices, t, kept)
        PROVE  PicksOf(indices, Append(t, x), IF x \in indices THEN Append(kept, x) ELSE kept)
    <2> DEFINE r == Append(t, x)
    <2>1. r \in Seq(Nat) /\ Len(r) = Len(t) + 1 /\ DOMAIN r = DOMAIN t \cup {Len(t) + 1}
          /\ (\A k \in DOMAIN t : r[k] = t[k]) /\ r[Len(t) + 1] = x
      OBVIOUS
    <2> HIDE DEF r
    <2>2. \A i : (\E k \in DOMAIN r : r[k] = i) <=> (i = x \/ \E k \in DOMAIN t : t[k] = i)
      <3>1. Len(t) + 1 \notin DOMAIN t
        OBVIOUS
      <3>2. QED
        BY <2>1, <3>1
    <2>3. CASE x \in indices
      <3> DEFINE w == Append(kept, x)
      <3>1. w \in Seq(Nat) /\ Len(w) = Len(kept) + 1 /\ DOMAIN w = DOMAIN kept \cup {Len(kept) + 1}
            /\ (\A k \in DOMAIN kept : w[k] = kept[k]) /\ w[Len(kept) + 1] = x
        BY <1>2 DEF PicksOf
      <3>2. Len(kept) + 1 \notin DOMAIN kept
        BY <1>2 DEF PicksOf
      <3> HIDE DEF w
      <3>3. \A i : (\E k \in DOMAIN w : w[k] = i) <=> (i = x \/ \E k \in DOMAIN kept : kept[k] = i)
        BY <3>1, <3>2
      <3>4. \A i : (\E k \in DOMAIN w : w[k] = i) <=> i \in indices /\ \E k \in DOMAIN r : r[k] = i
        BY <3>3, <2>2, <2>3, <1>2 DEF PicksOf
      <3>5. Len(w) <= Len(r)
        BY <3>1, <2>1, <1>2 DEF PicksOf
      <3>6. QED
        BY <3>1, <3>4, <3>5, <2>3 DEF r, w, PicksOf
    <2>4. CASE x \notin indices
      <3>1. \A i : (\E k \in DOMAIN kept : kept[k] = i) <=> i \in indices /\ \E k \in DOMAIN r : r[k] = i
        BY <2>2, <2>4, <1>2 DEF PicksOf
      <3>2. Len(kept) <= Len(r)
        BY <2>1, <1>2 DEF PicksOf
      <3>3. QED
        BY <3>1, <3>2, <2>4, <1>2 DEF r, PicksOf
    <2>5. QED
      BY <2>3, <2>4
  <1>3. \A s \in Seq(Nat) : PicksOf(indices, s, Picks!Fold(indices, s))
    <2>1. \A t \in Seq(Nat), x \in Nat :
             PicksOf(indices, t, Picks!Fold(indices, t)) =>
             PicksOf(indices, Append(t, x), IF x \in indices THEN Append(Picks!Fold(indices, t), x)
                             ELSE Picks!Fold(indices, t))
      BY <1>2
    <2>2. QED
      BY <1>1, <2>1, Picks!FoldInduction
  <1>4. all \in Seq(Nat) /\ Len(all) = n /\ DOMAIN all = 1..n /\ \A k \in 1..n : all[k] = k
    OBVIOUS
  <1>5. PicksOf(indices, all, InOrder(n, indices))
    BY <1>3, <1>4, InOrderIsFold
  <1> HIDE DEF all
  <1>6. QED
    BY <1>4, <1>5 DEF PicksOf

LEMMA ShuffleFacts ==
  ASSUME NEW S, NEW s \in Seq(S), NEW d, \A n \in 1..Len(s) : d[n] \in Nat
  PROVE  Shuffle(s, d) \in [1..Len(s) -> S]
  <1> DEFINE m == Len(s)
             e == <<s, d, S>>
             P == [1..m -> S]
             ks == [k \in 1..m - 1 |-> m - k + 1]
  <1>1. m \in Nat /\ s \in P /\ DOMAIN s = 1..m
    OBVIOUS
  <1>2. ASSUME NEW mixed \in P, NEW n \in 1..m
        PROVE  Swap(mixed, n, (d[n] % n) + 1) \in P
    <2> DEFINE j == (d[n] % n) + 1
    <2>1. d[n] \in Nat /\ n \in Nat \ {0}
      BY <1>1, <1>2
    <2>2. j \in 1..n
      BY <2>1
    <2>3. j \in 1..m
      BY <2>2, <1>1
    <2> HIDE DEF j, m
    <2>4. QED
      BY <2>3 DEF Swap, j
  <1>3. e[1] = s /\ e[2] = d /\ e[3] = S
    OBVIOUS
  <1> HIDE DEF e, m
  <1>4. \A t \in Seq(1..m), n \in 1..m :
           Mixes!Fold(e, t) \in [DOMAIN e[1] -> e[3]]
             => Swap(Mixes!Fold(e, t), n, (e[2][n] % n) + 1) \in [DOMAIN e[1] -> e[3]]
    BY <1>1, <1>2, <1>3
  <1>5. e[1] \in [DOMAIN e[1] -> e[3]]
    BY <1>1, <1>3
  <1>6. \A t \in Seq(1..m) : Mixes!Fold(e, t) \in [DOMAIN e[1] -> e[3]]
    BY <1>4, <1>5, Mixes!FoldInduction
  <1>7. ks \in Seq(1..m)
    BY <1>1
  <1>8. Mixes!Fold(e, ks) \in P
    BY <1>6, <1>7, <1>1, <1>3
  <1>9. QED
    BY <1>8, ShuffleIsFold DEF e, m

LEMMA NValBound == \A n \in Nat \ {0} : NVal(n) \in 1..n
  <1> SUFFICES ASSUME NEW n \in Nat \ {0} PROVE NVal(n) \in 1..n
    OBVIOUS
  <1> DEFINE q == (5 * n) \div 100
             r == (5 * n) % 100
  <1>1. q \in Nat /\ r \in 0..99 /\ 5 * n = 100 * q + r
    OBVIOUS
  <1> HIDE DEF q, r
  <1>2. q + 1 <= n /\ 1 <= n
    BY <1>1
  <1>3. NVal(n) = LET rounded == IF r > 50 \/ (r = 50 /\ q % 2 = 1) THEN q + 1 ELSE q
                  IN  IF rounded > 1 THEN rounded ELSE 1
    BY DEF NVal, q, r
  <1>4. QED
    BY <1>1, <1>2, <1>3

LEMMA ValIndicesFacts ==
  ASSUME NEW T, NEW rows \in Seq(T), Len(rows) <= Size
  PROVE  ValIndices(rows) \subseteq DOMAIN rows
  <1> SUFFICES ASSUME NEW p \in DOMAIN BehaviourOrder,
                      NEW k \in 1..(IF InOrder(Len(rows), OfKind(rows, BehaviourOrder[p])) = <<>> THEN 0
                              ELSE NVal(Len(InOrder(Len(rows), OfKind(rows, BehaviourOrder[p])))))
               PROVE  Shuffle(InOrder(Len(rows), OfKind(rows, BehaviourOrder[p])),
                              Draws[SplitSeed][p])[k] \in DOMAIN rows
    BY DEF ValIndices
  <1> DEFINE n == Len(rows)
             of == InOrder(n, OfKind(rows, BehaviourOrder[p]))
             S == DOMAIN rows
             d == Draws[SplitSeed][p]
  <1>1. n \in Nat /\ S = 1..n
    OBVIOUS
  <1>2. of \in Seq(Nat) /\ Len(of) <= n /\ \A j \in DOMAIN of : of[j] \in S
    BY <1>1, InOrderFacts
  <1>3. \A j \in 1..Size : d[j] \in Nat
    BY SizesAssumption
  <1>4. k \in 1..(IF of = <<>> THEN 0 ELSE NVal(Len(of)))
    OBVIOUS
  <1>5. n <= Size /\ Size \in Nat
    BY SizesAssumption
  <1> HIDE DEF n, of, S, d
  <1>6. of \in Seq(S)
    BY <1>2
  <1>7. of # <<>> /\ Len(of) \in Nat \ {0}
    <2>1. of # <<>>
      BY <1>4
    <2>2. QED
      BY <2>1, <1>6
  <1>8. k \in 1..Len(of)
    <2>1. NVal(Len(of)) \in 1..Len(of)
      BY <1>7, NValBound
    <2>2. QED
      BY <2>1, <1>4, <1>7
  <1>9. \A j \in 1..Len(of) : d[j] \in Nat
    BY <1>2, <1>3, <1>5, <1>7, <1>1
  <1>10. Shuffle(of, d) \in [1..Len(of) -> S]
    BY <1>6, <1>9, ShuffleFacts
  <1>11. QED
    BY <1>8, <1>10 DEF of, d, S, n

\* The rows at a set of indices, all of them and no other.
LEMMA SubFacts ==
  ASSUME NEW T, NEW rows \in Seq(T), NEW S
  PROVE  /\ Sub(rows, S) \in Seq(T)
         /\ \A k \in DOMAIN Sub(rows, S) : \E i \in S \cap DOMAIN rows : Sub(rows, S)[k] = rows[i]
         /\ \A i \in S \cap DOMAIN rows : \E k \in DOMAIN Sub(rows, S) : Sub(rows, S)[k] = rows[i]
  <1> DEFINE n == Len(rows)
             kept == InOrder(n, S)
             sub == Sub(rows, S)
  <1>1. n \in Nat /\ DOMAIN rows = 1..n
    OBVIOUS
  <1>2. /\ kept \in Seq(Nat)
        /\ \A k \in DOMAIN kept : kept[k] \in S \cap 1..n
        /\ \A i \in S \cap 1..n : \E k \in DOMAIN kept : kept[k] = i
    BY <1>1, InOrderFacts
  <1>3. sub = [k \in DOMAIN kept |-> rows[kept[k]]]
    BY DEF Sub
  <1> HIDE DEF n, kept, sub
  <1>4. \A k \in DOMAIN kept : rows[kept[k]] \in T
    BY <1>1, <1>2
  <1>5. DOMAIN kept = 1..Len(kept) /\ Len(kept) \in Nat
    BY <1>2
  <1>6. sub \in Seq(T) /\ DOMAIN sub = DOMAIN kept /\ \A k \in DOMAIN kept : sub[k] = rows[kept[k]]
    BY <1>3, <1>4, <1>5
  <1>7. QED
    BY <1>1, <1>2, <1>6 DEF sub

LEMMA FirstOfSeq == \A T : \A s \in Seq(T), n \in Nat : FirstOf(s, n) \in Seq(T)
  <1> SUFFICES ASSUME NEW T, NEW s \in Seq(T), NEW n \in Nat PROVE FirstOf(s, n) \in Seq(T)
    OBVIOUS
  <1> DEFINE m == IF Len(s) < n THEN Len(s) ELSE n
  <1>1. m \in Nat /\ m <= Len(s)
    OBVIOUS
  <1>2. FirstOf(s, n) = SubSeq(s, 1, m)
    BY DEF FirstOf
  <1> HIDE DEF m
  <1>3. QED
    BY <1>1, <1>2

LEMMA PerKindNat ==
  ASSUME NEW T, NEW rows \in Seq(T), rows # <<>>
  PROVE  PerKind(rows) \in Nat
  <1> DEFINE kinds == {rows[i].behaviour : i \in DOMAIN rows}
             c == Cardinality(kinds)
             share == SampleSize \div c
  <1>1. DOMAIN rows = 1..Len(rows) /\ Len(rows) \in Nat /\ 1 \in DOMAIN rows
    OBVIOUS
  <1>2. IsFiniteSet(DOMAIN rows)
    BY <1>1, FS_Interval
  <1>3. IsFiniteSet(kinds)
    <2> DEFINE f == [i \in DOMAIN rows |-> rows[i].behaviour]
    <2>1. f \in Surjection(DOMAIN rows, kinds)
      BY DEF Surjection
    <2>2. QED
      BY <1>2, <2>1, FS_Surjection
  <1>4. kinds # {}
    BY <1>1
  <1> HIDE DEF kinds
  <1>5. c \in Nat \ {0}
    BY <1>3, <1>4, FS_CardinalityType, FS_EmptySet
  <1> HIDE DEF c
  <1>6. share \in Nat
    BY <1>5, SizesAssumption
  <1>7. PerKind(rows) = IF share > 1 THEN share ELSE 1
    BY DEF PerKind, share, c, kinds
  <1> HIDE DEF share
  <1>8. QED
    BY <1>6, <1>7

LEMMA SixIsSeq == \A S : \A a, b, c, d, e, f \in S : <<a, b, c, d, e, f>> \in Seq(S)
  OBVIOUS

Kinds == {"disambiguate", "find_by_plot", "find_by_title", "list_versions", "out_of_catalog", "refine"}

LEMMA BalancedSeq ==
  ASSUME NEW T, NEW rows \in Seq(T), NEW each \in Nat
  PROVE  Balanced(rows, each) \in Seq(T)
  <1> DEFINE e == <<rows, each, T>>
  <1>1. e[1] = rows /\ e[2] = each /\ e[3] = T
    OBVIOUS
  <1> HIDE DEF e
  <1>2. \A b : FirstOf(Sub(rows, OfKind(rows, b)), each) \in Seq(T)
    BY SubFacts, FirstOfSeq
  <1>3. \A t \in Seq(Kinds), b \in Kinds :
           Takes!Fold(e, t) \in Seq(e[3])
             => Takes!Fold(e, t) \o FirstOf(Sub(e[1], OfKind(e[1], b)), e[2]) \in Seq(e[3])
    <2>1. \A taken \in Seq(T), more \in Seq(T) : taken \o more \in Seq(T)
      OBVIOUS
    <2>2. QED
      BY <1>1, <1>2, <2>1
  <1>4. <<>> \in Seq(e[3])
    OBVIOUS
  <1>5. \A t \in Seq(Kinds) : Takes!Fold(e, t) \in Seq(e[3])
    BY <1>3, <1>4, Takes!FoldInduction
  <1>6. BehaviourOrder \in Seq(Kinds)
    BY SixIsSeq DEF BehaviourOrder, Kinds
  <1>7. QED
    BY <1>1, <1>5, <1>6, BalancedIsFold DEF e

\* The rows of a dataset have ids of their own.
RowsOK(rows) ==
    \E T : /\ rows \in Seq(T) /\ Len(rows) \in 1..Size
           /\ \A i, j \in DOMAIN rows : rows[i].id = rows[j].id => i = j

LEMMA OwnElements ==
  ASSUME NEW T, NEW s \in Seq(T)
  PROVE  s \in Seq({s[k] : k \in DOMAIN s})
  <1> DEFINE U == {s[k] : k \in DOMAIN s}
  <1>1. s = [k \in 1..Len(s) |-> s[k]] /\ Len(s) \in Nat /\ DOMAIN s = 1..Len(s)
    OBVIOUS
  <1>2. \A k \in 1..Len(s) : s[k] \in U
    BY <1>1
  <1> HIDE DEF U
  <1>3. s \in Seq(U)
    BY <1>1, <1>2
  <1>4. QED
    BY <1>3 DEF U

LEMMA SplitsApart ==
  ASSUME NEW rows, RowsOK(rows)
  PROVE  /\ Ids(ValRows(rows)) \cap (Ids(TrainRows(rows)) \cup Ids(Sample(rows))) = {}
         /\ Ids(ValRows(rows)) \cup Ids(TrainRows(rows)) = Ids(rows)
  <1>1. PICK T : /\ rows \in Seq(T) /\ Len(rows) \in 1..Size
                 /\ \A i, j \in DOMAIN rows : rows[i].id = rows[j].id => i = j
    BY DEF RowsOK
  <1> DEFINE D == DOMAIN rows
             V == ValIndices(rows)
             rest == D \ V
             val == Sub(rows, V)
             train == Sub(rows, rest)
             sample == Sample(rows)
  <1>2. V \subseteq D
    BY <1>1, ValIndicesFacts, SizesAssumption
  <1>3. Ids(val) = {rows[i].id : i \in V}
    <2> HIDE DEF V
    <2>1. /\ val \in Seq(T)
          /\ \A k \in DOMAIN val : \E i \in V \cap D : val[k] = rows[i]
          /\ \A i \in V \cap D : \E k \in DOMAIN val : val[k] = rows[i]
      BY <1>1, SubFacts
    <2> HIDE DEF val, D
    <2>2. QED
      BY <1>2, <2>1 DEF Ids
  <1>4. /\ train \in Seq(T)
        /\ \A k \in DOMAIN train : \E i \in rest \cap D : train[k] = rows[i]
        /\ \A i \in rest \cap D : \E k \in DOMAIN train : train[k] = rows[i]
    <2> HIDE DEF rest
    <2>1. QED
      BY <1>1, SubFacts
  <1>5. Ids(train) = {rows[i].id : i \in rest}
    <2> HIDE DEF V, train, D
    <2>1. QED
      BY <1>4 DEF Ids
  <1>6. Ids(sample) \subseteq Ids(train)
    <2> DEFINE U == {train[k] : k \in DOMAIN train}
               each == PerKind(rows)
    <2>1. train \in Seq(U)
      <3>1. train \in Seq(T)
        BY <1>4
      <3> HIDE DEF train
      <3>2. QED
        BY <3>1, OwnElements
    <2>2. each \in Nat
      BY <1>1, PerKindNat
    <2>3. sample = FirstOf(Balanced(train, each), SampleSize)
      BY DEF Sample, TrainRows
    <2> HIDE DEF U, train, each, sample
    <2>4. sample \in Seq(U)
      BY <2>1, <2>2, <2>3, BalancedSeq, FirstOfSeq, SizesAssumption
    <2>5. \A k \in DOMAIN sample : sample[k] \in U
      BY <2>4
    <2>6. QED
      BY <2>5 DEF Ids, U
  <1>7. \A i \in V, j \in rest : rows[i].id # rows[j].id
    BY <1>1, <1>2
  <1>8. Ids(rows) = {rows[i].id : i \in D}
    BY DEF Ids
  <1>9. ValRows(rows) = val /\ TrainRows(rows) = train
    BY DEF ValRows, TrainRows
  <1> HIDE DEF V, D, val, train, sample
  <1>10. QED
    BY <1>2, <1>3, <1>5, <1>6, <1>7, <1>8, <1>9 DEF sample, rest

\* The rows a seed gives are numbered; the surface pass keeps the numbers.
Numbered(rows, seed, n) ==
    /\ rows = [i \in 1..n |-> rows[i]]
    /\ \A i \in 1..n : "id" \in DOMAIN rows[i] /\ rows[i].id = <<seed, i>>

LEMMA NumberedOK ==
  ASSUME NEW seed, NEW n \in 1..Size, NEW rows, Numbered(rows, seed, n)
  PROVE  RowsOK(rows)
  <1> DEFINE T == {rows[i] : i \in 1..n}
  <1>1. \A i \in 1..n : rows[i] \in T
    OBVIOUS
  <1>2. n \in Nat
    BY SizesAssumption
  <1> HIDE DEF T
  <1>3. rows \in Seq(T) /\ Len(rows) = n /\ DOMAIN rows = 1..n
    BY <1>1, <1>2 DEF Numbered
  <1>4. \A i, j \in 1..n : <<seed, i>> = <<seed, j>> => i = j
    OBVIOUS
  <1>5. \A i, j \in DOMAIN rows : rows[i].id = rows[j].id => i = j
    BY <1>3, <1>4 DEF Numbered
  <1>6. QED
    BY <1>3, <1>5 DEF RowsOK

LEMMA ScaffoldsNumbered == \A d : Numbered(ScaffoldRows(d), d.seed, Size)
  <1> SUFFICES ASSUME NEW d PROVE Numbered(ScaffoldRows(d), d.seed, Size)
    OBVIOUS
  <1> DEFINE rows == Generate(Export(Graphs[d.from]), d.seed, Size)
  <1>1. \A draft, id, lang : "id" \in DOMAIN Conversation(draft, id, lang)
                             /\ Conversation(draft, id, lang).id = id
    BY DEF Conversation
  <1>2. /\ rows = [i \in 1..Size |-> rows[i]]
        /\ \A i \in 1..Size : \E draft, lang : rows[i] = Conversation(draft, <<d.seed, i>>, lang)
    BY DEF Generate
  <1> HIDE DEF rows
  <1>3. ASSUME NEW i \in 1..Size
        PROVE  "id" \in DOMAIN rows[i] /\ rows[i].id = <<d.seed, i>>
    <2>1. PICK draft, lang : rows[i] = Conversation(draft, <<d.seed, i>>, lang)
      BY <1>2
    <2>2. QED
      BY <1>1, <2>1
  <1>4. Numbered(rows, d.seed, Size)
    BY <1>2, <1>3 DEF Numbered
  <1>5. QED
    BY <1>4 DEF ScaffoldRows, rows

LEMMA PassKeepsIds ==
  ASSUME NEW rows, NEW seed, NEW n, Numbered(rows, seed, n),
         NEW faulty, NEW first, NEW second, NEW golden, NEW stamp
  PROVE  Numbered(SurfacePass(rows, faulty, first, second, golden, stamp), seed, n)
  <1> DEFINE taughtRows == SurfacePass(rows, faulty, first, second, golden, stamp)
  <1>1. \A conv, q, r : "id" \in DOMAIN conv =>
            /\ "id" \in DOMAIN TeachConv(conv, q, r, golden, stamp)
            /\ TeachConv(conv, q, r, golden, stamp).id = conv.id
    BY DEF TeachConv
  <1>2. DOMAIN rows = 1..n
    BY DEF Numbered
  <1>3. /\ taughtRows = [i \in 1..n |-> taughtRows[i]]
        /\ \A i \in 1..n : taughtRows[i] = TeachConv(rows[i], first, second, golden, stamp)
                           \/ taughtRows[i] = TeachConv(rows[i], "echo", "echo", golden, stamp)
    BY <1>2 DEF SurfacePass
  <1> HIDE DEF taughtRows
  <1>4. QED
    BY <1>1, <1>3 DEF Numbered, taughtRows

LEMMA LimitKeepsIds ==
  ASSUME NEW rows, NEW seed, NEW n \in 1..Size, Numbered(rows, seed, n), NEW limit \in Nat
  PROVE  \E m \in 1..Size : Numbered(RowsOf(rows, limit), seed, m)
  <1>1. CASE limit = 0
    BY <1>1 DEF RowsOf
  <1>2. CASE limit # 0
    <2> DEFINE m == IF n < limit THEN n ELSE limit
               r == SubSeq(rows, 1, m)
    <2>1. n \in Nat /\ Size \in Nat /\ m \in 1..n
      BY <1>2, SizesAssumption
    <2>2. Len(rows) = n
      <3>1. DOMAIN rows = 1..n
        BY DEF Numbered
      <3>2. PICK T : rows \in Seq(T)
        BY NumberedOK DEF RowsOK
      <3>3. QED
        BY <3>1, <3>2, <2>1
    <2>3. RowsOf(rows, limit) = r
      BY <1>2, <2>2 DEF RowsOf, FirstOf
    <2> HIDE DEF m
    <2>4. r = [i \in 1..m |-> r[i]] /\ \A i \in 1..m : r[i] = rows[i]
      BY <2>1
    <2> HIDE DEF r
    <2>5. Numbered(r, seed, m)
      <3>1. \A i \in 1..m : i \in 1..n
        BY <2>1
      <3>2. \A i \in 1..m : "id" \in DOMAIN r[i] /\ r[i].id = <<seed, i>>
        BY <2>4, <3>1 DEF Numbered
      <3>3. QED
        BY <2>4, <3>2 DEF Numbered
    <2>6. m \in 1..Size
      BY <2>1
    <2>7. QED
      BY <2>3, <2>5, <2>6
  <1>3. QED
    BY <1>1, <1>2

LEMMA RowsByName ==
  ASSUME NEW d
  PROVE  /\ d \in Scaffolded => Rows(d) = ScaffoldRows(d)
         /\ d \notin Scaffolded =>
               Rows(d) = SurfacePass(RowsOf(ScaffoldRows(TaughtFrom(d, 0, Untaught)), d.limit),
                                     d.answers.faulty, d.answers.first, d.answers.second,
                                     GoldenQuery, Stamp)
  <1>1. d \in Scaffolded => TaughtFrom(d, 0, Untaught) = d
    BY DEF TaughtFrom, Scaffolded
  <1>2. QED
    BY <1>1 DEF Rows, RowsMade, TaughtRows

LEMMA NamesHaveRows ==
  ASSUME NEW d \in Scaffolded \cup TaughtNames
  PROVE  RowsOK(Rows(d))
  <1>1. Size \in 1..Size
    BY SizesAssumption
  <1>2. CASE d \in Scaffolded
    BY <1>1, <1>2, ScaffoldsNumbered, NumberedOK, RowsByName
  <1>3. CASE d \notin Scaffolded
    <2>1. PICK c \in Scaffolded, n \in Limits, a \in Answers : d = TaughtFrom(c, n, a)
      BY <1>3 DEF TaughtNames
    <2>2. d.limit = n
      BY <2>1 DEF TaughtFrom, Scaffolded
    <2>3. d.limit \in Nat
      BY <2>1, <2>2, SizesAssumption
    <2> DEFINE u == TaughtFrom(d, 0, Untaught)
               read == RowsOf(ScaffoldRows(u), d.limit)
    <2> HIDE DEF u
    <2>4. PICK m \in 1..Size : Numbered(read, u.seed, m)
      BY <1>1, <2>3, ScaffoldsNumbered, LimitKeepsIds
    <2>5. Rows(d) = SurfacePass(read, d.answers.faulty, d.answers.first, d.answers.second, GoldenQuery, Stamp)
      BY <1>3, RowsByName DEF u
    <2> HIDE DEF read
    <2>6. Numbered(Rows(d), u.seed, m)
      BY <2>4, <2>5, PassKeepsIds
    <2>7. QED
      BY <2>6, NumberedOK
  <1>4. QED
    BY <1>2, <1>3

Names == Scaffolded \cup TaughtNames
LEMMA DatasetFacts ==
  /\ DOMAIN Datasets = Names \cup {NoFile}
  /\ \A d \in Names : d # NoFile => Datasets[d] = Content(Rows(d))
  /\ Datasets[NoFile] = [rows |-> <<>>, train |-> <<>>, val |-> <<>>, sample |-> <<>>,
                         trl |-> <<>>, sealable |-> FALSE]
  BY DatasetsAssumption DEF Tabulated, Names

\* Whatever was generated or taught: the held-out rows are apart from the training rows and from
\* the committed sample, and the two parts make up the dataset.
THEOREM EveryDatasetSplits ==
  \A d \in DOMAIN Datasets :
     LET data == Datasets[d] IN
     /\ Ids(data.val) \cap (Ids(data.train) \cup Ids(data.sample)) = {}
     /\ Ids(data.val) \cup Ids(data.train) = Ids(data.rows)
  <1> SUFFICES ASSUME NEW d \in DOMAIN Datasets
               PROVE  /\ Ids(Datasets[d].val) \cap (Ids(Datasets[d].train) \cup Ids(Datasets[d].sample)) = {}
                      /\ Ids(Datasets[d].val) \cup Ids(Datasets[d].train) = Ids(Datasets[d].rows)
    OBVIOUS
  <1>1. CASE d = NoFile
    <2>1. Ids(<<>>) = {}
      BY DEF Ids
    <2>2. /\ Datasets[d].val = <<>> /\ Datasets[d].train = <<>>
          /\ Datasets[d].sample = <<>> /\ Datasets[d].rows = <<>>
      BY <1>1, DatasetFacts
    <2>3. QED
      BY <2>1, <2>2
  <1>2. CASE d # NoFile
    <2>1. d \in Names /\ Datasets[d] = Content(Rows(d))
      BY <1>2, DatasetFacts
    <2>2. RowsOK(Rows(d))
      BY <2>1, NamesHaveRows DEF Names
    <2>3. /\ Datasets[d].val = ValRows(Rows(d)) /\ Datasets[d].train = TrainRows(Rows(d))
          /\ Datasets[d].sample = Sample(Rows(d)) /\ Datasets[d].rows = Rows(d)
      BY <2>1 DEF Content
    <2>4. QED
      BY <2>2, <2>3, SplitsApart
  <1>3. QED
    BY <1>1, <1>2

Checked == {d \in DOMAIN Datasets : Datasets[d].sealable}
RowFiles == {"full", "train", "val", "sample"}
FileNames == RowFiles \cup {"card"}

\* A seal in progress has written its files in order; between seals the five files are of one
\* dataset, unless one was interrupted.
CardOf(card, d) ==
    /\ card.rows = d
    /\ card.train = Len(Datasets[d].train) /\ card.val = Len(Datasets[d].val)
Holding(file, d) == IF file = "card" THEN CardOf(sealed.card, d) ELSE sealed[file] = d
OneDataset(d) ==
    /\ \A f \in RowFiles : sealed[f] = d
    /\ sealed.card # NoFile => CardOf(sealed.card, d)

Contents ==
    /\ graph \in 1..Len(Graphs)
    /\ snapshot \in 1..Len(Graphs) \cup {NoSnapshot}
    /\ scaffolds \in Scaffolded \cup {NoFile}
    /\ taught \in TaughtNames \cup {NoFile}
    /\ pass \in [read : Scaffolded, limit : Limits] \cup {Idle}
    /\ trl \in [train : Checked \cup {NoFile}, val : Checked \cup {NoFile}]
Sealing ==
    /\ sealed = [f \in FileNames |-> sealed[f]]
    /\ \A f \in RowFiles : sealed[f] \in Checked \cup {NoFile}
    /\ sealing \in [next : 1..5, rows : Checked] \cup {Idle}
    /\ sealing # Idle => \A i \in 1..sealing.next - 1 : Holding(Files[i], sealing.rows)
    /\ sealing = Idle /\ ~torn => \E d \in DOMAIN Datasets : OneDataset(d)
DatasetsInv == Contents /\ Sealing

LEMMA FilesFacts ==
  /\ Len(Files) = 5 /\ DOMAIN Files = 1..5
  /\ Files[1] = "full" /\ Files[2] = "train" /\ Files[3] = "val" /\ Files[4] = "sample"
  /\ Files[5] = "card"
  BY DEF Files

LEMMA DatasetsInit == BuildInit => DatasetsInv
  <1> SUFFICES ASSUME BuildInit PROVE DatasetsInv
    OBVIOUS
  <1>1. Contents
    BY GraphsAssumption DEF BuildInit, Contents, NoFile, Idle
  <1>2. {Files[i] : i \in DOMAIN Files} = FileNames
    <2>1. \A i \in 1..5 : Files[i] \in FileNames
      <3>1. \A i \in 1..5 : i = 1 \/ i = 2 \/ i = 3 \/ i = 4 \/ i = 5
        OBVIOUS
      <3>2. QED
        BY <3>1, FilesFacts DEF FileNames, RowFiles
    <2>2. \A f \in FileNames : \E i \in 1..5 : Files[i] = f
      BY FilesFacts DEF FileNames, RowFiles
    <2>3. QED
      BY <2>1, <2>2, FilesFacts
  <1>3. sealed = [f \in FileNames |-> NoFile] /\ sealing = Idle
    BY <1>2 DEF BuildInit
  <1>4. OneDataset(NoFile)
    BY <1>3 DEF OneDataset, FileNames, RowFiles
  <1>5. NoFile \in DOMAIN Datasets
    BY DatasetFacts
  <1>6. Sealing
    BY <1>3, <1>4, <1>5 DEF Sealing, FileNames
  <1>7. QED
    BY <1>1, <1>6 DEF DatasetsInv

\* The steps that seal nothing.
LEMMA ContentsStep == DatasetsInv /\ [BuildNext]_buildVars => Contents'
  <1> SUFFICES ASSUME DatasetsInv, [BuildNext]_buildVars PROVE Contents'
    OBVIOUS
  <1> USE DEF DatasetsInv, Contents
  <1>1. CASE GraphChanges
    BY <1>1, GraphsAssumption DEF GraphChanges
  <1>2. CASE WriteSnapshot
    BY <1>2 DEF WriteSnapshot
  <1>3. ASSUME NEW seed \in Seeds, Scaffold(seed) PROVE Contents'
    BY <1>3 DEF Scaffold
  <1>4. ASSUME NEW limit \in Limits, TeachStart(limit) PROVE Contents'
    BY <1>4 DEF TeachStart
  <1>5. ASSUME NEW answers \in Answers, TeachFinish(answers) PROVE Contents'
    <2>1. pass.read \in Scaffolded /\ pass.limit \in Limits
      BY <1>5 DEF TeachFinish
    <2>2. taught' \in TaughtNames
      BY <1>5, <2>1 DEF TeachFinish, TaughtNames
    <2>3. QED
      BY <1>5, <2>2 DEF TeachFinish
  <1>6. CASE TeachFails
    BY <1>6 DEF TeachFails
  <1>7. ASSUME NEW d \in {scaffolds, taught}, SealStart(d) PROVE Contents'
    BY <1>7 DEF SealStart
  <1>8. CASE SealWrite
    BY <1>8 DEF SealWrite
  <1>9. CASE SealCrash
    BY <1>9 DEF SealCrash
  <1>10. ASSUME NEW n \in 1..Len(Uploads), Push(n) PROVE Contents'
    BY <1>10 DEF Push
  <1>11. CASE ExportTrl
    BY <1>11 DEF ExportTrl, Sealing, RowFiles
  <1>12. ASSUME NEW template \in Templates, Train(template) PROVE Contents'
    BY <1>12 DEF Train
  <1>13. CASE UNCHANGED buildVars
    BY <1>13 DEF buildVars
  <1>14. QED
    BY <1>1, <1>2, <1>3, <1>4, <1>5, <1>6, <1>7, <1>8, <1>9, <1>10, <1>11, <1>12, <1>13
       DEF BuildNext

\* One more file of the dataset being sealed; with the card the five belong together.
LEMMA SealWriteStep == DatasetsInv /\ SealWrite => Sealing'
  <1> SUFFICES ASSUME DatasetsInv, SealWrite PROVE Sealing'
    OBVIOUS
  <1>0. PICK n, d : n = sealing.next /\ d = sealing.rows
    OBVIOUS
  <1>1. /\ n \in 1..5 /\ d \in Checked
        /\ \A i \in 1..n - 1 : Holding(Files[i], d)
    BY <1>0 DEF SealWrite, DatasetsInv, Sealing
  <1>2. d \in DOMAIN Datasets
    BY <1>1 DEF Checked
  <1>3. Files[n] \in FileNames /\ \A i \in 1..5 : i # n => Files[i] # Files[n]
    <2>1. \A i \in 1..5 : i = 1 \/ i = 2 \/ i = 3 \/ i = 4 \/ i = 5
      OBVIOUS
    <2>2. QED
      BY <1>1, <2>1, FilesFacts DEF FileNames, RowFiles
  <1>4. sealed' = [sealed EXCEPT ![Files[n]] = Written(Files[n], d)]
    BY <1>0 DEF SealWrite
  <1>5. /\ sealed' = [f \in FileNames |-> sealed'[f]]
        /\ sealed'[Files[n]] = Written(Files[n], d)
        /\ \A f \in FileNames : f # Files[n] => sealed'[f] = sealed[f]
    BY <1>3, <1>4 DEF DatasetsInv, Sealing
  <1>6. CardOf(Card(d), d)
    BY DEF CardOf, Card
  <1>7. Holding(Files[n], d)'
    BY <1>5, <1>6 DEF Holding, Written
  <1>8. \A i \in 1..n : Holding(Files[i], d)'
    <2>1. ASSUME NEW i \in 1..n - 1 PROVE Holding(Files[i], d)'
      <3>1. i \in 1..5 /\ i # n /\ Files[i] \in RowFiles
        <4>1. i = 1 \/ i = 2 \/ i = 3 \/ i = 4
          BY <1>1
        <4>2. QED
          BY <4>1, <1>1, FilesFacts DEF RowFiles
      <3>2. sealed'[Files[i]] = sealed[Files[i]]
        BY <3>1, <1>3, <1>5 DEF FileNames
      <3>3. Files[i] # "card"
        BY <3>1 DEF RowFiles
      <3>4. QED
        BY <1>1, <3>2, <3>3 DEF Holding
    <2>2. \A i \in 1..n : i = n \/ i \in 1..n - 1
      BY <1>1
    <2>3. QED
      BY <1>7, <2>1, <2>2
  <1>9. \A f \in RowFiles : sealed'[f] \in Checked \cup {NoFile}
    <2>1. CASE Files[n] = "card"
      BY <2>1, <1>5 DEF DatasetsInv, Sealing, FileNames, RowFiles
    <2>2. CASE Files[n] # "card"
      <3>1. Written(Files[n], d) = d
        BY <2>2 DEF Written
      <3>2. QED
        BY <1>1, <1>5, <3>1 DEF DatasetsInv, Sealing, FileNames
    <2>3. QED
      BY <2>1, <2>2
  <1>10. CASE n = 5
    <2>1. sealing' = Idle /\ torn' = FALSE
      BY <1>0, <1>10, FilesFacts DEF SealWrite
    <2>2. OneDataset(d)'
      <3>1. /\ Holding("full", d)' /\ Holding("train", d)' /\ Holding("val", d)'
            /\ Holding("sample", d)' /\ Holding("card", d)'
        BY <1>8, <1>10, FilesFacts
      <3>2. QED
        BY <3>1 DEF OneDataset, Holding, RowFiles
    <2>3. QED
      BY <1>2, <1>5, <1>9, <2>1, <2>2 DEF Sealing
  <1>11. CASE n # 5
    <2>1. sealing' = [sealing EXCEPT !.next = @ + 1]
      BY <1>0, <1>11, FilesFacts DEF SealWrite
    <2>2. sealing \in [next : 1..5, rows : Checked]
      BY DEF SealWrite, DatasetsInv, Sealing
    <2>3. sealing' \in [next : 1..5, rows : Checked] /\ sealing'.next = n + 1 /\ sealing'.rows = d
      BY <1>0, <1>1, <1>11, <2>1, <2>2
    <2>4. sealing' # Idle
      BY <2>3 DEF Idle, NoFile
    <2>5. sealing'.next - 1 = n
      BY <1>1, <2>3
    <2>6. (\A i \in 1..sealing.next - 1 : Holding(Files[i], sealing.rows))'
      BY <1>8, <2>3, <2>5 DEF Holding
    <2>7. QED
      BY <1>5, <1>9, <2>3, <2>4, <2>6 DEF Sealing
  <1>12. QED
    BY <1>10, <1>11

LEMMA SealingStep == DatasetsInv /\ [BuildNext]_buildVars => Sealing'
  <1> SUFFICES ASSUME DatasetsInv, [BuildNext]_buildVars PROVE Sealing'
    OBVIOUS
  <1>1. ASSUME UNCHANGED <<sealing, sealed, torn>> PROVE Sealing'
    BY <1>1 DEF DatasetsInv, Sealing, OneDataset, Holding
  <1>2. ASSUME NEW d \in {scaffolds, taught}, SealStart(d) PROVE Sealing'
    <2>1. d \in Checked
      <3>1. d \in Names
        BY <1>2 DEF DatasetsInv, Contents, SealStart, Names
      <3>2. QED
        BY <1>2, <3>1, DatasetFacts DEF SealStart, Checked
    <2>2. sealing' = [next |-> 1, rows |-> d] /\ UNCHANGED <<sealed, torn>>
      BY <1>2 DEF SealStart
    <2>3. sealing' \in [next : 1..5, rows : Checked] /\ sealing'.next - 1 = 0 /\ sealing' # Idle
      BY <2>1, <2>2 DEF Idle, NoFile
    <2>4. QED
      BY <2>2, <2>3 DEF DatasetsInv, Sealing
  <1>3. CASE SealWrite
    BY <1>3, SealWriteStep
  <1>4. CASE SealCrash
    BY <1>4 DEF SealCrash, DatasetsInv, Sealing
  <1>5. QED
    BY <1>1, <1>2, <1>3, <1>4
       DEF BuildNext, buildVars, GraphChanges, WriteSnapshot, Scaffold, TeachStart, TeachFinish,
           TeachFails, Push, ExportTrl, Train

\* What the dataset commands keep true, whatever the draws, the seeds, the teacher and the
\* interruptions (build_dataset.py 128-421): every file holds a dataset the generator or the
\* teacher wrote, and a seal has written so far exactly the files of the dataset it seals.
THEOREM DatasetsInvariant == BuildSpec => []DatasetsInv
  <1>1. DatasetsInv /\ [BuildNext]_buildVars => DatasetsInv'
    BY ContentsStep, SealingStep DEF DatasetsInv
  <1>2. QED
    BY DatasetsInit, <1>1, PTL DEF BuildSpec

\* Outside a seal that runs or was interrupted, the five files are those of one dataset: the
\* held-out rows are neither trained on nor shown in the sample (build_dataset.py 330-421).
THEOREM SealedFilesBelongTogether == BuildSpec => []SealedTogether
  <1>1. DatasetsInv => SealedTogether
    <2> SUFFICES ASSUME DatasetsInv, sealing = Idle, ~torn PROVE SealedTogether
      BY DEF SealedTogether
    <2>1. PICK d \in DOMAIN Datasets : OneDataset(d)
      BY DEF DatasetsInv, Sealing
    <2>2. sealed.full = d /\ sealed.train = d /\ sealed.val = d /\ sealed.sample = d
      BY <2>1 DEF OneDataset, RowFiles
    <2>3. /\ Ids(Datasets[d].val) \cap (Ids(Datasets[d].train) \cup Ids(Datasets[d].sample)) = {}
          /\ Ids(Datasets[d].val) \cup Ids(Datasets[d].train) = Ids(Datasets[d].rows)
      BY EveryDatasetSplits
    <2>4. sealed.card # NoFile => Described
      BY <2>1, <2>2 DEF OneDataset, CardOf, Described
    <2>5. QED
      BY <2>2, <2>3, <2>4 DEF SealedTogether
  <1>2. QED
    BY <1>1, DatasetsInvariant, PTL

LEMMA CheckedIsClean == Checked \cup {NoFile} \subseteq Clean
  <1>1. NoFile \in Clean
    BY DatasetFacts DEF Clean
  <1>2. ASSUME NEW d \in Checked PROVE d \in Clean
    <2>1. d # NoFile /\ d \in Names
      BY <1>2, DatasetFacts DEF Checked
    <2> DEFINE rows == Rows(d)
    <2>2. Datasets[d] = Content(rows)
      BY <2>1, DatasetFacts
    <2>3. Datasets[d].rows = rows /\ Sealable(rows)
      BY <1>2, <2>2 DEF Content, Checked
    <2> HIDE DEF rows
    <2>4. ReportOK(ValidateDataset(rows))
      BY <2>3 DEF Sealable
    <2>5. /\ UNION {{<<rows[i].id, kind>> : kind \in RowIssues(rows[i])} : i \in DOMAIN rows} = {}
          /\ {rows[i].id : i \in {j \in DOMAIN rows : Contaminated(rows[j])}} = {}
      BY <2>4 DEF ReportOK, ValidateDataset, Decontamination
    <2>6. ASSUME NEW i \in DOMAIN rows
          PROVE  RowIssues(rows[i]) = {} /\ ~Contaminated(rows[i])
      <3>1. {<<rows[i].id, kind>> : kind \in RowIssues(rows[i])} = {}
        BY <2>5
      <3>2. \A kind \in RowIssues(rows[i]) : FALSE
        BY <3>1
      <3>3. Contaminated(rows[i]) =>
                rows[i].id \in {rows[k].id : k \in {j \in DOMAIN rows : Contaminated(rows[j])}}
        OBVIOUS
      <3>4. QED
        BY <2>5, <3>2, <3>3
    <2>7. QED
      BY <1>2, <2>3, <2>6 DEF Clean, Checked
  <1>3. QED
    BY <1>1, <1>2

\* No exported row asserts a title its results do not have, calls outside the schema, or says
\* what the protected queries say (build_dataset.py 252-330, validate.py).
THEOREM TrainingRowsAreClean == BuildSpec => TrainedOnIsClean
  <1>1. DatasetsInv /\ DatasetsInv' /\ [BuildNext]_buildVars
          => [trl' # trl => {trl'.train, trl'.val} \subseteq Clean]_buildVars
    BY CheckedIsClean DEF DatasetsInv, Contents
  <1>2. QED
    BY <1>1, DatasetsInvariant, PTL DEF BuildSpec, TrainedOnIsClean

-----------------------------------------------------------------------------
(* The teacher's pass, a conversation at a time: an accepted rewrite brings every
   locked span back and no bold of its own. *)

\* What SetToSeq makes of a finite set: each element, nothing else.
LEMMA SetToSeqFacts ==
  ASSUME NEW S, IsFiniteSet(S)
  PROVE  /\ Cardinality(S) \in Nat
         /\ SetToSeq(S) \in [1..Cardinality(S) -> S]
         /\ \A x \in S : \E n \in 1..Cardinality(S) : SetToSeq(S)[n] = x
  <1> DEFINE c == Cardinality(S)
             f == SetToSeq(S)
  <1>1. c \in Nat /\ ExistsBijection(1..c, S)
    BY FS_CardinalityType
  <1> HIDE DEF c
  <1>2. PICK g \in [1..c -> S] : \A a, b \in 1..c : g[a] = g[b] => a = b
    BY <1>1 DEF ExistsBijection, Bijection, Injection, IsInjective
  <1>3. IsInjective(g)
    BY <1>2 DEF IsInjective
  <1>4. f \in [1..c -> S] /\ IsInjective(f)
    BY <1>2, <1>3 DEF SetToSeq, c
  <1> HIDE DEF f
  <1>5. f \in Injection(1..c, S)
    BY <1>4 DEF Injection, IsInjective
  <1>6. Cardinality(1..c) = c /\ IsFiniteSet(1..c)
    BY <1>1, FS_Interval
  <1>7. f \in Surjection(1..c, S)
    BY <1>5, <1>6, FS_Injection DEF c
  <1>8. \A x \in S : \E n \in 1..c : f[n] = x
    BY <1>7 DEF Surjection
  <1>9. QED
    BY <1>1, <1>4, <1>8 DEF c, f

\* A body as the generator writes it: spans without marks.
PlainBody(body) ==
    \E n \in Nat : /\ body = [i \in 1..n |-> body[i]]
                   /\ \A i \in 1..n : body[i].mark = 0
TextParts == {"intent", "slots", "body", "items", "nomatch"}
\* A text whose bold spans are among the locked entities.
TextOK(text, entities) ==
    /\ text = [key \in TextParts |-> text[key]]
    /\ PlainBody(text.body)
    /\ text.nomatch \in BOOLEAN
    /\ BoldOf(text) \subseteq entities

LEMMA MappingFacts ==
  ASSUME NEW body, PlainBody(body), NEW entities
  PROVE  LET m == Mapping(body, entities) IN
         /\ DOMAIN m \subseteq Nat \ {0}
         /\ \A n \in DOMAIN m : m[n].text \in entities
         /\ \A i \in DOMAIN body : body[i].text \in entities => \E n \in DOMAIN m : m[n] = body[i]
  <1> DEFINE I == {i \in DOMAIN body : body[i].text \in entities}
             S == {body[i] : i \in I}
             f == [i \in I |-> body[i]]
  <1>1. PICK n \in Nat : DOMAIN body = 1..n
    BY DEF PlainBody
  <1>2. IsFiniteSet(I)
    <2>1. IsFiniteSet(1..n) /\ I \subseteq 1..n
      BY <1>1, FS_Interval
    <2>2. QED
      BY <2>1, FS_Subset
  <1>3. f \in Surjection(I, S)
    BY DEF Surjection
  <1>4. IsFiniteSet(S)
    BY <1>2, <1>3, FS_Surjection
  <1>5. Mapping(body, entities) = SetToSeq(S)
    BY DEF Mapping
  <1> DEFINE m == Mapping(body, entities)
             c == Cardinality(S)
  <1>6. c \in Nat /\ m \in [1..c -> S] /\ \A x \in S : \E k \in 1..c : m[k] = x
    BY <1>4, <1>5, SetToSeqFacts
  <1>7. \A x \in S : x.text \in entities
    OBVIOUS
  <1>8. \A i \in DOMAIN body : body[i].text \in entities => body[i] \in S
    OBVIOUS
  <1> HIDE DEF m, c, S
  <1>9. QED
    BY <1>6, <1>7, <1>8 DEF m

BoldTexts(body) == {body[i].text : i \in {j \in DOMAIN body : body[j].bold}}

\* An answer that passes the verification brings back every locked span, in bold if it was,
\* and no other bold than a locked span.
LEMMA RewriteKeepsBold ==
  ASSUME NEW text, NEW entities, TextOK(text, entities), NEW raw,
         NEW m, m = Mapping(text.body, entities),
         NEW locked, locked.body = LockEntities(text.body, m),
         VerifyLocked(locked, raw, m) = {},
         NEW after, after = UnlockEntities(raw.body, m)
  PROVE  BoldOf(text) \subseteq BoldTexts(after) /\ BoldTexts(after) \subseteq entities
  <1> DEFINE body == text.body
             lock == LockEntities(body, m)
             new == raw.body
  <1>1. PICK n \in Nat : DOMAIN body = 1..n /\ \A i \in 1..n : body[i].mark = 0
    BY DEF TextOK, PlainBody
  <1>2. /\ DOMAIN m \subseteq Nat \ {0}
        /\ \A k \in DOMAIN m : m[k].text \in entities
        /\ \A i \in DOMAIN body : body[i].text \in entities => \E k \in DOMAIN m : m[k] = body[i]
    <2> HIDE DEF body
    <2>1. PlainBody(body)
      BY DEF TextOK, body
    <2>2. m = Mapping(body, entities)
      BY DEF body
    <2>3. QED
      BY <2>1, <2>2, MappingFacts
  <1>3. /\ {"altered" : k \in {j \in DOMAIN m : Occurs(j, lock) # Occurs(j, new)}} = {}
        /\ {"unknown sentinel" : i \in {j \in DOMAIN new : new[j].mark \notin {0} \cup DOMAIN m}} = {}
        /\ {"new bold" : i \in {j \in DOMAIN new : new[j].bold /\ new[j].mark = 0}} = {}
    BY DEF VerifyLocked
  <1>4. /\ \A k \in DOMAIN m : Occurs(k, lock) = Occurs(k, new)
        /\ \A j \in DOMAIN new : new[j].mark \in {0} \cup DOMAIN m
        /\ \A j \in DOMAIN new : new[j].bold => new[j].mark # 0
    <2> HIDE DEF lock, new
    <2>1. QED
      BY <1>3
  <1>5. /\ DOMAIN lock = DOMAIN body
        /\ \A i \in DOMAIN body : (\E k \in DOMAIN m : m[k] = body[i])
              => \E k \in DOMAIN m : m[k] = body[i] /\ lock[i].mark = k
    <2> HIDE DEF body
    <2>1. QED
      BY DEF LockEntities, Word
  <1>6. /\ DOMAIN after = DOMAIN new
        /\ \A j \in DOMAIN new : new[j].mark = 0 => after[j] = new[j]
        /\ \A j \in DOMAIN new : new[j].mark # 0 =>
              /\ after[j].text = m[new[j].mark].text
              /\ m[new[j].mark].bold => after[j].bold
    BY DEF UnlockEntities
  <1>7. BoldOf(text) = {body[i].text : i \in {j \in DOMAIN body : body[j].bold}}
    BY DEF BoldOf
  <1>8. \A i \in DOMAIN body : body[i].bold => body[i].text \in entities
    BY <1>7 DEF TextOK
  <1>9. IsFiniteSet(DOMAIN lock)
    BY <1>1, <1>5, FS_Interval
  <1> HIDE DEF body, lock, new
  <1>10. ASSUME NEW j \in DOMAIN after, after[j].bold
         PROVE  after[j].text \in entities
    <2>1. j \in DOMAIN new /\ new[j].mark # 0 /\ new[j].mark \in DOMAIN m
      BY <1>4, <1>6, <1>10
    <2>2. QED
      BY <1>2, <1>6, <2>1
  <1>11. ASSUME NEW i \in DOMAIN body, body[i].bold
         PROVE  body[i].text \in {after[j].text : j \in {k \in DOMAIN after : after[k].bold}}
    <2>1. PICK k \in DOMAIN m : m[k] = body[i] /\ lock[i].mark = k
      BY <1>2, <1>5, <1>8, <1>11
    <2> DEFINE L == {j \in DOMAIN lock : lock[j].mark = k}
               N == {j \in DOMAIN new : new[j].mark = k}
    <2>2. IsFiniteSet(L) /\ L # {}
      BY <1>5, <1>9, <2>1, FS_Subset
    <2>3. Cardinality(L) # 0
      BY <2>2, FS_EmptySet
    <2>4. Cardinality(L) = Cardinality(N)
      BY <1>4 DEF Occurs
    <2>5. N # {}
      BY <2>3, <2>4, FS_EmptySet
    <2>6. PICK j \in DOMAIN new : new[j].mark = k
      BY <2>5
    <2>7. k # 0
      BY <1>2
    <2>8. after[j].text = body[i].text /\ after[j].bold /\ j \in DOMAIN after
      BY <1>6, <1>11, <2>1, <2>6, <2>7
    <2>9. QED
      BY <2>8
  <1>12. QED
    BY <1>7, <1>10, <1>11 DEF BoldTexts

LEMMA RewriteKeepsSkeleton ==
  ASSUME NEW text, NEW entities, TextOK(text, entities),
         NEW first \in Quirks, NEW second \in Quirks, NEW golden
  PROVE  LET t == RewriteOne(text, entities, first, second, golden).text IN
         /\ t.intent = text.intent /\ t.slots = text.slots /\ t.items = text.items
         /\ Rewritten(text, t, entities)
  <1> DEFINE m == Mapping(text.body, entities)
             locked == [body |-> LockEntities(text.body, m), nomatch |-> text.nomatch,
                        noise |-> FALSE]
             final(q) == [text EXCEPT !.body = UnlockEntities(TeacherSays(q, locked, golden).body, m),
                                      !.nomatch = TeacherSays(q, locked, golden).nomatch]
             fine(q) == VerifyLocked(locked, TeacherSays(q, locked, golden), m) = {}
             t == RewriteOne(text, entities, first, second, golden).text
  <1>1. \/ t = text
        \/ \E q \in Quirks : fine(q) /\ t = final(q)
    BY DEF RewriteOne
  <1>2. ASSUME NEW q \in Quirks, fine(q), t = final(q)
        PROVE  /\ t.intent = text.intent /\ t.slots = text.slots /\ t.items = text.items
               /\ Rewritten(text, t, entities)
    <2> DEFINE raw == TeacherSays(q, locked, golden)
               after == UnlockEntities(raw.body, m)
    <2>1. text = [key \in TextParts |-> text[key]] /\ text.nomatch \in BOOLEAN
      BY DEF TextOK
    <2>2. BoldOf(text) \subseteq BoldTexts(after) /\ BoldTexts(after) \subseteq entities
      <3>1. VerifyLocked(locked, raw, m) = {}
        BY <1>2
      <3>2. locked.body = LockEntities(text.body, m)
        OBVIOUS
      <3> HIDE DEF raw, locked, m
      <3>3. m = Mapping(text.body, entities)
        BY DEF m
      <3>4. \A a : a = UnlockEntities(raw.body, m) =>
                BoldOf(text) \subseteq BoldTexts(a) /\ BoldTexts(a) \subseteq entities
        BY <3>1, <3>2, <3>3, RewriteKeepsBold
      <3>5. QED
        BY <3>4
    <2>3. text.nomatch => raw.nomatch
      <3>1. {"no_match dropped" : x \in {locked.nomatch} \ {raw.nomatch, FALSE}} = {}
        <4> HIDE DEF m, raw
        <4>1. QED
          BY <1>2 DEF VerifyLocked, raw
      <3>2. locked.nomatch \in {raw.nomatch, FALSE}
        <4> HIDE DEF locked, raw
        <4>1. QED
          BY <3>1
      <3>3. locked.nomatch = text.nomatch
        OBVIOUS
      <3> HIDE DEF locked, raw
      <3>4. QED
        BY <2>1, <3>2, <3>3
    <2>4. t = [text EXCEPT !.body = after, !.nomatch = raw.nomatch]
      BY <1>2
    <2> HIDE DEF after, raw, t, m
    <2>5. /\ t.intent = text.intent /\ t.slots = text.slots /\ t.items = text.items
          /\ t.nomatch = raw.nomatch /\ t.body = after
      BY <2>1, <2>4 DEF TextParts
    <2>6. BoldOf(t) = BoldTexts(after)
      BY <2>5 DEF BoldOf, BoldTexts
    <2>7. QED
      BY <2>2, <2>3, <2>5, <2>6 DEF Rewritten
  <1> HIDE DEF t, fine, final
  <1>3. QED
    BY <1>1, <1>2 DEF t, Rewritten

TurnParts == {"role", "content", "calls", "result"}
TurnOK(turn, entities) ==
    /\ turn = [key \in TurnParts |-> turn[key]]
    /\ Taught(turn) => TextOK(turn.content, entities)
ConvParts == {"id", "lang", "behaviour", "turns", "intents", "slots", "entities", "teacher"}
\* A conversation whose bold titles its own results have.
Grounded(conv) ==
    /\ conv = [key \in ConvParts |-> conv[key]]
    /\ \A i \in DOMAIN conv.turns : TurnOK(conv.turns[i], ConvTitles(conv))

LEMMA TextMore ==
  ASSUME NEW text, NEW A, NEW B, TextOK(text, A), A \subseteq B
  PROVE  TextOK(text, B)
  BY DEF TextOK

LEMMA TeachKeepsSkeleton ==
  ASSUME NEW conv, Grounded(conv), NEW first \in Quirks, NEW second \in Quirks,
         NEW golden, NEW stamp
  PROVE  LET after == TeachConv(conv, first, second, golden, stamp) IN
         /\ Skeleton(after) = Skeleton(conv)
         /\ \A i \in DOMAIN conv.turns :
               Rewritten(conv.turns[i].content, after.turns[i].content, Lockable(conv))
  <1> DEFINE taughtConv == TeachConv(conv, first, second, golden, stamp)
             E == Lockable(conv)
             new(i) == IF Taught(conv.turns[i])
                       THEN [conv.turns[i] EXCEPT
                               !.content = RewriteOne(conv.turns[i].content, E, first, second, golden).text]
                       ELSE conv.turns[i]
             bones(t) == <<t.role, t.calls, t.result, t.content.intent, t.content.slots,
                           t.content.items>>
  <1>1. ConvTitles(conv) \subseteq E
    BY DEF Lockable
  <1>2. taughtConv = [conv EXCEPT !.turns = [i \in DOMAIN conv.turns |-> new(i)], !.teacher = stamp]
    BY DEF TeachConv
  <1>3. /\ taughtConv.id = conv.id /\ taughtConv.behaviour = conv.behaviour
        /\ taughtConv.lang = conv.lang /\ taughtConv.entities = conv.entities
        /\ taughtConv.intents = conv.intents /\ taughtConv.slots = conv.slots
        /\ taughtConv.turns = [i \in DOMAIN conv.turns |-> new(i)]
    <2> HIDE DEF new, taughtConv
    <2>1. QED
      BY <1>2 DEF Grounded, ConvParts
  <1>4. ASSUME NEW i \in DOMAIN conv.turns
        PROVE  bones(new(i)) = bones(conv.turns[i])
               /\ Rewritten(conv.turns[i].content, new(i).content, E)
    <2> DEFINE t == conv.turns[i]
               text == RewriteOne(t.content, E, first, second, golden).text
    <2>1. CASE Taught(t)
      <3>1. TextOK(t.content, E)
        BY <1>1, <2>1, TextMore DEF Grounded, TurnOK
      <3>2. /\ text.intent = t.content.intent /\ text.slots = t.content.slots
            /\ text.items = t.content.items /\ Rewritten(t.content, text, E)
        BY <3>1, RewriteKeepsSkeleton
      <3>3. new(i) = [t EXCEPT !.content = text]
        BY <2>1
      <3>4. t = [key \in TurnParts |-> t[key]]
        BY DEF Grounded, TurnOK
      <3> HIDE DEF new, text, t
      <3>5. /\ new(i).role = t.role /\ new(i).calls = t.calls /\ new(i).result = t.result
            /\ new(i).content = text
        BY <3>3, <3>4 DEF TurnParts
      <3>6. QED
        BY <3>2, <3>5 DEF t
    <2>2. CASE ~Taught(t)
      BY <2>2 DEF Rewritten
    <2>3. QED
      BY <2>1, <2>2
  <1>5. /\ DOMAIN taughtConv.turns = DOMAIN conv.turns
        /\ \A i \in DOMAIN conv.turns : taughtConv.turns[i] = new(i)
    BY <1>3
  <1> HIDE DEF new, taughtConv, E
  <1>6. [i \in DOMAIN taughtConv.turns |-> bones(taughtConv.turns[i])]
          = [i \in DOMAIN conv.turns |-> bones(conv.turns[i])]
    BY <1>4, <1>5
  <1>7. /\ Skeleton(taughtConv) = Skeleton(conv)
        /\ \A i \in DOMAIN conv.turns :
              Rewritten(conv.turns[i].content, taughtConv.turns[i].content, E)
    BY <1>3, <1>4, <1>5, <1>6 DEF Skeleton
  <1>8. QED
    BY <1>7 DEF taughtConv, E

-----------------------------------------------------------------------------
(* What the generators write: spans, turns and answers whose bold titles are
   among the titles the results of the same conversation carry. *)

Joins == INSTANCE LeftFolds WITH
    Op <- LAMBDA all, list, e : all \o list,
    Base <- LAMBDA e : <<>>,
    Holds <- LAMBDA e, s, all : all \in Seq(e)

LEMMA JoinedIsFold ==
  \A lists, S : Joined(lists) = Joins!Fold(S, lists)
  BY DEF Joined, Joins!Fold, FoldLeft, MapThenFoldSet, Max,
         Joins!FoldLeft, Joins!MapThenFoldSet, Joins!Max

LEMMA JoinedSeq ==
  ASSUME NEW S, NEW lists \in Seq(Seq(S))
  PROVE  Joined(lists) \in Seq(S)
  <1>1. \A t \in Seq(Seq(S)), list \in Seq(S) :
           Joins!Fold(S, t) \in Seq(S) => Joins!Fold(S, t) \o list \in Seq(S)
    OBVIOUS
  <1>2. <<>> \in Seq(S)
    OBVIOUS
  <1>3. \A t \in Seq(Seq(S)) : Joins!Fold(S, t) \in Seq(S)
    BY <1>1, <1>2, Joins!FoldInduction
  <1>4. QED
    BY <1>3, JoinedIsFold

\* Spans and turns as the generators write them, over the titles in E.
SpanOK(s, E) == s.mark = 0 /\ (s.bold => s.text \in E)
SpansOK(body, E) == \E S : body \in Seq(S) /\ \A x \in S : SpanOK(x, E)
TurnsOK(turns, E) == \E S : turns \in Seq(S) /\ \A x \in S : TurnOK(x, E)

LEMMA SpansIntro ==
  ASSUME NEW E, NEW S, NEW body \in Seq(S), \A x \in S : SpanOK(x, E)
  PROVE  SpansOK(body, E)
  BY DEF SpansOK

LEMMA SpansText ==
  ASSUME NEW E, NEW text, SpansOK(text.body, E), text = [key \in TextParts |-> text[key]],
         text.nomatch \in BOOLEAN
  PROVE  TextOK(text, E)
  <1>1. PICK S : text.body \in Seq(S) /\ \A x \in S : SpanOK(x, E)
    BY DEF SpansOK
  <1> DEFINE body == text.body
             n == Len(body)
  <1>2. n \in Nat /\ DOMAIN body = 1..n /\ body = [i \in 1..n |-> body[i]] /\ \A i \in 1..n : body[i] \in S
    <2> HIDE DEF body
    <2>1. body \in Seq(S)
      BY <1>1 DEF body
    <2>2. QED
      BY <2>1
  <1> HIDE DEF n
  <1>3. \A i \in 1..n : body[i].mark = 0 /\ (body[i].bold => body[i].text \in E)
    BY <1>1, <1>2 DEF SpanOK
  <1>4. PlainBody(body)
    BY <1>2, <1>3 DEF PlainBody
  <1>5. BoldOf(text) \subseteq E
    BY <1>2, <1>3 DEF BoldOf
  <1>6. QED
    BY <1>4, <1>5 DEF TextOK

LEMMA Concat ==
  ASSUME NEW S, NEW T, NEW s \in Seq(S), NEW t \in Seq(T)
  PROVE  /\ s \o t \in Seq(S \cup T)
         /\ \A i \in DOMAIN s : i \in DOMAIN (s \o t) /\ (s \o t)[i] = s[i]
         /\ \A i \in DOMAIN t : Len(s) + i \in DOMAIN (s \o t) /\ (s \o t)[Len(s) + i] = t[i]
  <1>1. s \in Seq(S \cup T) /\ t \in Seq(S \cup T)
    OBVIOUS
  <1>2. QED
    BY <1>1

LEMMA SpansJoin ==
  ASSUME NEW E, NEW a, NEW b, SpansOK(a, E), SpansOK(b, E)
  PROVE  SpansOK(a \o b, E)
  <1>1. PICK S : a \in Seq(S) /\ \A x \in S : SpanOK(x, E)
    BY DEF SpansOK
  <1>2. PICK T : b \in Seq(T) /\ \A x \in T : SpanOK(x, E)
    BY DEF SpansOK
  <1>3. a \o b \in Seq(S \cup T)
    BY <1>1, <1>2, Concat
  <1>4. QED
    BY <1>1, <1>2, <1>3 DEF SpansOK

LEMMA SpansJoined ==
  ASSUME NEW E, NEW n \in Nat, NEW lists, lists = [i \in 1..n |-> lists[i]],
         \A i \in 1..n : SpansOK(lists[i], E)
  PROVE  SpansOK(Joined(lists), E)
  <1> DEFINE own(i) == {lists[i][k] : k \in DOMAIN lists[i]}
             S == UNION {own(i) : i \in 1..n}
  <1>1. ASSUME NEW i \in 1..n PROVE lists[i] \in Seq(S) /\ \A x \in own(i) : SpanOK(x, E)
    <2>1. PICK T : lists[i] \in Seq(T) /\ \A x \in T : SpanOK(x, E)
      BY DEF SpansOK
    <2>2. lists[i] \in Seq(own(i))
      BY <2>1, OwnElements
    <2>3. own(i) \subseteq S
      OBVIOUS
    <2>4. own(i) \subseteq T
      BY <2>1
    <2> HIDE DEF S, own
    <2>5. lists[i] \in Seq(S)
      BY <2>2, <2>3
    <2>6. QED
      BY <2>1, <2>4, <2>5
  <1>2. \A x \in S : SpanOK(x, E)
    BY <1>1
  <1> HIDE DEF S
  <1>3. lists \in Seq(Seq(S))
    BY <1>1
  <1>4. QED
    BY <1>2, <1>3, JoinedSeq DEF SpansOK

LEMMA TurnsJoined ==
  ASSUME NEW E, NEW n \in Nat, NEW lists, lists = [i \in 1..n |-> lists[i]],
         \A i \in 1..n : TurnsOK(lists[i], E)
  PROVE  TurnsOK(Joined(lists), E)
  <1> DEFINE own(i) == {lists[i][k] : k \in DOMAIN lists[i]}
             S == UNION {own(i) : i \in 1..n}
  <1>1. ASSUME NEW i \in 1..n PROVE lists[i] \in Seq(S) /\ \A x \in own(i) : TurnOK(x, E)
    <2>1. PICK T : lists[i] \in Seq(T) /\ \A x \in T : TurnOK(x, E)
      BY DEF TurnsOK
    <2>2. lists[i] \in Seq(own(i))
      BY <2>1, OwnElements
    <2>3. own(i) \subseteq S
      OBVIOUS
    <2>4. own(i) \subseteq T
      BY <2>1
    <2> HIDE DEF S, own
    <2>5. lists[i] \in Seq(S)
      BY <2>2, <2>3
    <2>6. QED
      BY <2>1, <2>4, <2>5
  <1>2. \A x \in S : TurnOK(x, E)
    BY <1>1
  <1> HIDE DEF S
  <1>3. lists \in Seq(Seq(S))
    BY <1>1
  <1>4. QED
    BY <1>2, <1>3, JoinedSeq DEF TurnsOK

\* A part of a conversation over the titles in E whose results have those in R.
TitlesOf(turns) == UNION {ResultTitles(turns[i].result) : i \in DOMAIN turns}
Part(turns, E, R) == TurnsOK(turns, E) /\ R \subseteq TitlesOf(turns)

LEMMA PartsJoin ==
  ASSUME NEW E, NEW a, NEW b, NEW R, NEW Q, Part(a, E, R), Part(b, E, Q)
  PROVE  Part(a \o b, E, R \cup Q)
  <1>1. PICK S : a \in Seq(S) /\ \A x \in S : TurnOK(x, E)
    BY DEF Part, TurnsOK
  <1>2. PICK T : b \in Seq(T) /\ \A x \in T : TurnOK(x, E)
    BY DEF Part, TurnsOK
  <1>3. /\ a \o b \in Seq(S \cup T)
        /\ \A i \in DOMAIN a : i \in DOMAIN (a \o b) /\ (a \o b)[i] = a[i]
        /\ \A i \in DOMAIN b : Len(a) + i \in DOMAIN (a \o b) /\ (a \o b)[Len(a) + i] = b[i]
    BY <1>1, <1>2, Concat
  <1> DEFINE c == a \o b
  <1> HIDE DEF c
  <1>4. TitlesOf(a) \subseteq TitlesOf(c) /\ TitlesOf(b) \subseteq TitlesOf(c)
    BY <1>3 DEF TitlesOf, c
  <1>5. TurnsOK(c, E)
    BY <1>1, <1>2, <1>3 DEF TurnsOK, c
  <1>6. QED
    BY <1>4, <1>5 DEF Part, c

LEMMA PartOfTwo ==
  ASSUME NEW E, NEW a, NEW b, TurnOK(a, E), TurnOK(b, E)
  PROVE  /\ Part(<<a>>, E, {})
         /\ Part(<<a, b>>, E, ResultTitles(b.result))
  <1> DEFINE one == <<a>>
             two == <<a, b>>
             S == {a, b}
  <1>1. one \in Seq(S) /\ two \in Seq(S) /\ \A x \in S : TurnOK(x, E)
    OBVIOUS
  <1>2. TurnsOK(one, E) /\ TurnsOK(two, E)
    <2> HIDE DEF one, two, S
    <2>1. QED
      BY <1>1 DEF TurnsOK
  <1>3. 2 \in DOMAIN <<a, b>> /\ <<a, b>>[2] = b
    OBVIOUS
  <1>4. ResultTitles(b.result) \subseteq TitlesOf(<<a, b>>)
    BY <1>3 DEF TitlesOf
  <1>5. QED
    BY <1>2, <1>4 DEF Part

LEMMA AsksOK ==
  ASSUME NEW E, NEW body, SpansOK(body, E)
  PROVE  TurnOK(Asks(body), E) /\ Part(<<Asks(body)>>, E, {})
  <1>1. TextOK(UserText(body), E)
    <2>1. /\ UserText(body).body = body
          /\ UserText(body) = [key \in TextParts |-> UserText(body)[key]]
          /\ UserText(body).nomatch \in BOOLEAN
      BY DEF UserText, TextParts
    <2>2. QED
      BY <2>1, SpansText
  <1>2. TurnOK(Asks(body), E)
    BY <1>1 DEF Asks, Turn, TurnOK, TurnParts
  <1>3. QED
    BY <1>2, PartOfTwo

LEMMA SaysOK ==
  ASSUME NEW E, NEW text, TextOK(text, E)
  PROVE  TurnOK(Says(text), E) /\ Part(<<Says(text)>>, E, {})
  <1>1. TurnOK(Says(text), E)
    BY DEF Says, Turn, TurnOK, TurnParts
  <1>2. QED
    BY <1>1, PartOfTwo

LEMMA AnswerOK ==
  ASSUME NEW E, NEW body, SpansOK(body, E), NEW intent, NEW slots, NEW rows
  PROVE  TextOK(Answer(intent, slots, body, rows), E)
  <1> DEFINE text == Answer(intent, slots, body, rows)
  <1>1. /\ text.body = body /\ text = [key \in TextParts |-> text[key]] /\ text.nomatch \in BOOLEAN
    BY DEF Answer, TextParts
  <1> HIDE DEF text
  <1>2. TextOK(text, E)
    BY <1>1, SpansText
  <1>3. QED
    BY <1>2 DEF text

LEMMA AbstentionOK == \A E, slots : TextOK(Abstention(slots), E)
  <1> SUFFICES ASSUME NEW E, NEW slots PROVE TextOK(Abstention(slots), E)
    OBVIOUS
  <1> DEFINE text == Abstention(slots)
  <1>1. text.body = <<>> /\ text = [key \in TextParts |-> text[key]] /\ text.nomatch \in BOOLEAN
    BY DEF Abstention, Answer, TextParts
  <1> HIDE DEF text
  <1>2. <<>> \in Seq({})
    OBVIOUS
  <1>3. SpansOK(text.body, E)
    BY <1>1, <1>2 DEF SpansOK
  <1>4. TextOK(text, E)
    BY <1>1, <1>3, SpansText
  <1>5. QED
    BY <1>4 DEF text

LEMMA ToolOK ==
  ASSUME NEW E, NEW tool, NEW arguments, NEW result
  PROVE  Part(ToolTurns(tool, arguments, result), E, ResultTitles(result))
  <1> DEFINE a == Turn("assistant", NoText, <<[tool |-> tool, arguments |-> arguments]>>, NoResult)
             b == Turn("tool", NoText, <<>>, result)
  <1>1. TurnOK(a, E)
    BY DEF Turn, TurnOK, Taught, TurnParts
  <1>2. TurnOK(b, E) /\ b.result = result
    BY DEF Turn, TurnOK, Taught, TurnParts
  <1>3. ToolTurns(tool, arguments, result) = <<a, b>>
    BY DEF ToolTurns
  <1> HIDE DEF a, b
  <1>4. QED
    BY <1>1, <1>2, <1>3, PartOfTwo

LEMMA ListsOfTwo ==
  ASSUME NEW E, NEW a, NEW b, SpanOK(a, E), SpanOK(b, E)
  PROVE  SpansOK(<<>>, E) /\ SpansOK(<<a>>, E) /\ SpansOK(<<a, b>>, E)
  <1> DEFINE none == <<>>
             one == <<a>>
             two == <<a, b>>
             S == {a, b}
  <1>1. none \in Seq(S) /\ one \in Seq(S) /\ two \in Seq(S)
    OBVIOUS
  <1>2. \A x \in S : SpanOK(x, E)
    OBVIOUS
  <1> HIDE DEF none, one, two, S
  <1>3. SpansOK(none, E) /\ SpansOK(one, E) /\ SpansOK(two, E)
    BY <1>1, <1>2, SpansIntro
  <1>4. QED
    BY <1>3 DEF none, one, two

LEMMA SpansOf ==
  ASSUME NEW E
  PROVE  /\ SpansOK(<<>>, E)
         /\ \A x : SpansOK(<<Word(x)>>, E)
         /\ \A t \in E : SpansOK(<<Bold(t)>>, E)
         /\ \A t \in E : \A x : SpansOK(<<Bold(t), Word(x)>>, E)
         /\ \A S : \A s \in Seq(S) : SpansOK(Words(s), E)
  <1>1. \A x : SpanOK(Word(x), E)
    BY DEF SpanOK, Word
  <1>2. \A t \in E : SpanOK(Bold(t), E)
    BY DEF SpanOK, Word, Bold
  <1>3. ASSUME NEW S, NEW s \in Seq(S) PROVE SpansOK(Words(s), E)
    <2> DEFINE W == {Word(x) : x \in S}
    <2>1. \A i \in DOMAIN s : Word(s[i]) \in W
      OBVIOUS
    <2>2. \A x \in W : SpanOK(x, E)
      BY <1>1
    <2> HIDE DEF W
    <2>3. Words(s) \in Seq(W)
      BY <2>1 DEF Words
    <2>4. QED
      BY <2>2, <2>3, SpansIntro
  <1>4. SpansOK(<<>>, E) /\ \A x : SpansOK(<<Word(x)>>, E)
    BY <1>1, ListsOfTwo
  <1>5. \A t \in E : SpansOK(<<Bold(t)>>, E) /\ \A x : SpansOK(<<Bold(t), Word(x)>>, E)
    BY <1>1, <1>2, ListsOfTwo
  <1>6. QED
    BY <1>3, <1>4, <1>5

-----------------------------------------------------------------------------
(* Each behaviour's draft is such a conversation: find by plot, *)

LEMMA ChoiceIn ==
  ASSUME NEW S, NEW s \in Seq(S), s # <<>>, NEW n \in Nat
  PROVE  Choice(n, s) \in S
  <1>1. Len(s) \in Nat \ {0}
    OBVIOUS
  <1>2. (n % Len(s)) + 1 \in 1..Len(s)
    BY <1>1
  <1>3. QED
    BY <1>2 DEF Choice

\* What is recorded of a work in a snapshot whose works have the ids given.
ResultOK(result, ids) ==
    /\ result.rows # <<>>
    /\ \E S : result.rows \in Seq(S) /\ \A x \in S : x.work \in ids
WorkOK(work, ids) ==
    /\ IsFiniteSet(DOMAIN work.queries)
    /\ \A q \in DOMAIN work.queries : ResultOK(work.queries[q], ids)
    /\ work.versions \in Seq(VersionRow)
    /\ work.excerpts \in Seq(Seq(STRING))
IdsOf(works) == {works[i].id : i \in DOMAIN works}
WorksOK(works) == \E S : works \in Seq(S) /\ \A w \in S : WorkOK(w, IdsOf(works))

DraftOK(draft) == \E E : Part(draft.turns, E, E)

LEMMA SetToSeqList ==
  ASSUME NEW S, IsFiniteSet(S)
  PROVE  SetToSeq(S) \in Seq(S)
  <1> DEFINE f == SetToSeq(S)
             c == Cardinality(S)
  <1>1. c \in Nat /\ f \in [1..c -> S]
    BY SetToSeqFacts
  <1> HIDE DEF f, c
  <1>2. f \in Seq(S)
    BY <1>1
  <1>3. QED
    BY <1>2 DEF f

LEMMA FirstTitle ==
  ASSUME NEW result, NEW ids, ResultOK(result, ids)
  PROVE  result.rows[1].title \in ResultTitles(result)
  <1>1. 1 \in DOMAIN result.rows
    <2> DEFINE rows == result.rows
    <2>1. PICK S : rows \in Seq(S)
      BY DEF ResultOK
    <2>2. rows # <<>>
      BY DEF ResultOK
    <2> HIDE DEF rows
    <2>3. 1 \in DOMAIN rows
      BY <2>1, <2>2
    <2>4. QED
      BY <2>3 DEF rows
  <1>2. QED
    BY <1>1 DEF ResultTitles

LEMMA QueriesList ==
  ASSUME NEW work, NEW ids, WorkOK(work, ids)
  PROVE  /\ UnambiguousQueries(work) \in Seq(DOMAIN work.queries)
         /\ Ambiguous(work) \in Seq(DOMAIN work.queries)
  <1> DEFINE D == DOMAIN work.queries
             A == {q \in D : work.queries[q].rows # <<>> /\ ~work.queries[q].flag}
             B == {q \in D : work.queries[q].flag}
  <1>1. IsFiniteSet(A) /\ IsFiniteSet(B)
    BY FS_Subset DEF WorkOK
  <1>2. UnambiguousQueries(work) = SetToSeq(A) /\ Ambiguous(work) = SetToSeq(B)
    BY DEF UnambiguousQueries, Ambiguous
  <1>3. A \subseteq D /\ B \subseteq D
    OBVIOUS
  <1> HIDE DEF A, B, D
  <1>4. SetToSeq(A) \in Seq(A) /\ SetToSeq(B) \in Seq(B)
    BY <1>1, SetToSeqList
  <1>5. SetToSeq(A) \in Seq(D) /\ SetToSeq(B) \in Seq(D)
    BY <1>3, <1>4
  <1>6. QED
    BY <1>2, <1>5 DEF D

LEMMA QueryFound ==
  ASSUME NEW work, NEW ids, WorkOK(work, ids), UnambiguousQueries(work) # <<>>, NEW n \in Nat
  PROVE  LET found == work.queries[Choice(n, UnambiguousQueries(work))]
         IN  ResultOK(found, ids) /\ found.rows[1].title \in ResultTitles(found)
  <1> DEFINE query == Choice(n, UnambiguousQueries(work))
  <1>1. query \in DOMAIN work.queries
    BY QueriesList, ChoiceIn
  <1>2. ResultOK(work.queries[query], ids)
    BY <1>1 DEF WorkOK
  <1>3. QED
    BY <1>2, FirstTitle

LEMMA FourParts ==
  ASSUME NEW E, NEW a, NEW b, NEW c, NEW d, NEW P, NEW Q, NEW R, NEW T,
         Part(a, E, P), Part(b, E, Q), Part(c, E, R), Part(d, E, T), E \subseteq Q
  PROVE  Part(a \o b \o c \o d, E, E)
  <1>1. Part(a \o b, E, P \cup Q)
    BY PartsJoin
  <1>2. Part((a \o b) \o c, E, (P \cup Q) \cup R)
    BY <1>1, PartsJoin
  <1>3. Part(((a \o b) \o c) \o d, E, ((P \cup Q) \cup R) \cup T)
    BY <1>2, PartsJoin
  <1>4. QED
    BY <1>3 DEF Part

LEMMA VersionsAnswerOK ==
  \A E : \A title \in E : \A rows, intent, slots :
      Part(<<Says(VersionsAnswer(title, rows, intent, slots))>>, E, {})
  <1> SUFFICES ASSUME NEW E, NEW title \in E, NEW rows, NEW intent, NEW slots
               PROVE  Part(<<Says(VersionsAnswer(title, rows, intent, slots))>>, E, {})
    OBVIOUS
  <1>1. SpansOK(<<Bold(title)>>, E)
    BY SpansOf
  <1>2. TextOK(VersionsAnswer(title, rows, intent, slots), E)
    BY <1>1, AnswerOK DEF VersionsAnswer
  <1>3. QED
    BY <1>2, SaysOK

LEMMA PlotDraft ==
  ASSUME NEW S, NEW works \in Seq(S), works # <<>>, NEW ids,
         \A i \in DOMAIN works : WorkOK(works[i], ids) /\ works[i].excerpts # <<>>,
         NEW d, d[1] \in Nat, d[2] \in Nat, NEW all
  PROVE  DraftOK(GenFindByPlot(d, works, all))
  <1> DEFINE work  == Choice(d[1], works)
             desc  == PlotDescription(d[2], work)
             slots == {<<"plot_description", desc>>}
             args  == [description |-> desc, top_k |-> 10]
             found == PlotSearchResult(d, work, SelectSeq(all, LAMBDA w : w # work))
             E     == {work.title}
  <1>1. PICK i \in DOMAIN works : work = works[i]
    <2>1. works \in Seq({works[k] : k \in DOMAIN works})
      BY OwnElements
    <2>2. Choice(d[1], works) \in {works[k] : k \in DOMAIN works}
      BY <2>1, ChoiceIn
    <2>3. QED
      BY <2>2
  <1>2. work.excerpts \in Seq(Seq(STRING)) /\ work.excerpts # <<>>
    BY <1>1 DEF WorkOK
  <1>3. GenFindByPlot(d, works, all).turns =
            <<Asks(Words(desc))>> \o ToolTurns("search_by_plot", args, found)
            \o VersionTurns(work)
            \o <<Says(VersionsAnswer(work.title, work.versions, "find_by_plot", slots))>>
    BY DEF GenFindByPlot, Draft
  <1>4. work.title \in ResultTitles(found)
    <2> HIDE DEF work
    <2>1. found.rows[1].title = work.title /\ 1 \in DOMAIN found.rows
      BY DEF PlotSearchResult, Result
    <2> HIDE DEF found
    <2>2. QED
      BY <2>1 DEF ResultTitles
  <1>5. Part(<<Asks(Words(desc))>>, E, {})
    <2> DEFINE excerpt == Choice(d[2], work.excerpts)
    <2>1. excerpt \in Seq(STRING)
      <3> HIDE DEF work
      <3>1. QED
        BY <1>2, ChoiceIn
    <2>2. \E T : desc \in Seq(T)
      <3> HIDE DEF excerpt, work
      <3> DEFINE own == {work.title} \cup {work.versions[k].title : k \in DOMAIN work.versions}
                 mask(x) == IF x \in own THEN "the film" ELSE x
      <3>1. desc = [k \in DOMAIN excerpt |-> mask(excerpt[k])]
        BY DEF PlotDescription, excerpt
      <3> DEFINE T == {mask(x) : x \in STRING}
      <3> HIDE DEF own, desc
      <3>2. DOMAIN excerpt = 1..Len(excerpt) /\ Len(excerpt) \in Nat /\ \A k \in DOMAIN excerpt : excerpt[k] \in STRING
        BY <2>1
      <3>3. \A k \in DOMAIN excerpt : mask(excerpt[k]) \in T
        BY <3>2
      <3> HIDE DEF T, mask
      <3>4. desc \in Seq(T)
        BY <3>1, <3>2, <3>3
      <3>5. QED
        BY <3>4
    <2>3. PICK T : desc \in Seq(T)
      BY <2>2
    <2> HIDE DEF desc, E
    <2>4. SpansOK(Words(desc), E)
      BY <2>3, SpansOf
    <2>5. QED
      BY <2>4, AsksOK
  <1> HIDE DEF work, desc, slots, found, args
  <1>6. Part(ToolTurns("search_by_plot", args, found), E, ResultTitles(found))
    BY ToolOK
  <1>7. Part(VersionTurns(work), E, ResultTitles(Result("get_versions", work.versions, FALSE)))
    BY ToolOK DEF VersionTurns
  <1>8. Part(<<Says(VersionsAnswer(work.title, work.versions, "find_by_plot", slots))>>, E, {})
    BY VersionsAnswerOK
  <1>9. E \subseteq ResultTitles(found)
    BY <1>4
  <1> HIDE DEF E
  <1>10. Part(GenFindByPlot(d, works, all).turns, E, E)
    BY <1>3, <1>5, <1>6, <1>7, <1>8, <1>9, FourParts
  <1>11. QED
    BY <1>10 DEF DraftOK

-----------------------------------------------------------------------------
(* find by title and refine, *)

LEMMA OneOf ==
  ASSUME NEW S, NEW works \in Seq(S), works # <<>>, NEW n \in Nat
  PROVE  \E i \in DOMAIN works : Choice(n, works) = works[i]
  <1>1. works \in Seq({works[k] : k \in DOMAIN works})
    BY OwnElements
  <1>2. Choice(n, works) \in {works[k] : k \in DOMAIN works}
    BY <1>1, ChoiceIn
  <1>3. QED
    BY <1>2

\* The works a title can be asked for.
Titled(works, ids) ==
    /\ works # <<>>
    /\ \E S : works \in Seq(S)
    /\ \A i \in DOMAIN works : WorkOK(works[i], ids) /\ UnambiguousQueries(works[i]) # <<>>

LEMMA TitledWork ==
  ASSUME NEW works, NEW ids, Titled(works, ids), NEW n \in Nat
  PROVE  LET work == Choice(n, works)
         IN  WorkOK(work, ids) /\ UnambiguousQueries(work) # <<>>
  <1>1. PICK S : works \in Seq(S)
    BY DEF Titled
  <1>2. PICK i \in DOMAIN works : Choice(n, works) = works[i]
    BY <1>1, OneOf DEF Titled
  <1>3. QED
    BY <1>2 DEF Titled

LEMMA TitleDraft ==
  ASSUME NEW works, NEW ids, Titled(works, ids), NEW d, d[1] \in Nat, d[2] \in Nat, NEW behaviour
  PROVE  DraftOK(GenFindByTitle(d, works, behaviour))
  <1> DEFINE work  == Choice(d[1], works)
             query == Choice(d[2], UnambiguousQueries(work))
             found == work.queries[query]
             wide  == behaviour = "list_versions" /\ work.sequels # <<>> /\ d[3] % 5 < 3
             rows  == IF wide THEN work.sequels ELSE work.versions
             args  == IF wide THEN [work_id |-> work.id, include_sequels |-> TRUE]
                              ELSE [work_id |-> work.id]
             slots == {<<"title", query>>}
             title == found.rows[1].title
             E == {title}
  <1>1. GenFindByTitle(d, works, behaviour).turns =
            <<Asks(<<Word(query)>>)>> \o ResolveTurns(query, found)
            \o ToolTurns("get_versions", args, Result("get_versions", rows, FALSE))
            \o <<Says(VersionsAnswer(title, rows, behaviour, slots))>>
    BY DEF GenFindByTitle, Draft
  <1>2. title \in ResultTitles(found)
    <2>1. WorkOK(work, ids) /\ UnambiguousQueries(work) # <<>>
      BY TitledWork
    <2> HIDE DEF work
    <2>2. QED
      BY <2>1, QueryFound
  <1> HIDE DEF work, query, found, rows, args, slots, title
  <1>3. Part(<<Asks(<<Word(query)>>)>>, E, {})
    BY SpansOf, AsksOK
  <1>4. Part(ResolveTurns(query, found), E, ResultTitles(found))
    BY ToolOK DEF ResolveTurns
  <1>5. Part(ToolTurns("get_versions", args, Result("get_versions", rows, FALSE)), E,
             ResultTitles(Result("get_versions", rows, FALSE)))
    BY ToolOK
  <1>6. Part(<<Says(VersionsAnswer(title, rows, behaviour, slots))>>, E, {})
    BY VersionsAnswerOK
  <1>7. E \subseteq ResultTitles(found)
    BY <1>2
  <1> HIDE DEF E
  <1>8. Part(GenFindByTitle(d, works, behaviour).turns, E, E)
    BY <1>1, <1>3, <1>4, <1>5, <1>6, <1>7, FourParts
  <1>9. QED
    BY <1>8 DEF DraftOK

\* The first round of a conversation about a title.
LEMMA TitleRound ==
  ASSUME NEW work, NEW ids, WorkOK(work, ids), UnambiguousQueries(work) # <<>>, NEW n \in Nat,
         NEW query, query = Choice(n, UnambiguousQueries(work)),
         NEW found, found = work.queries[query], NEW rows, NEW intent, NEW slots
  PROVE  \E E : Part(<<Asks(<<Word(query)>>)>> \o ResolveTurns(query, found) \o VersionTurns(work)
                     \o <<Says(VersionsAnswer(found.rows[1].title, rows, intent, slots))>>, E, E)
  <1> DEFINE title == found.rows[1].title
             E == {title}
  <1>1. title \in ResultTitles(found)
    BY QueryFound
  <1> HIDE DEF title
  <1>2. Part(<<Asks(<<Word(query)>>)>>, E, {})
    BY SpansOf, AsksOK
  <1>3. Part(ResolveTurns(query, found), E, ResultTitles(found))
    BY ToolOK DEF ResolveTurns
  <1>4. Part(VersionTurns(work), E, ResultTitles(Result("get_versions", work.versions, FALSE)))
    BY ToolOK DEF VersionTurns
  <1>5. Part(<<Says(VersionsAnswer(title, rows, intent, slots))>>, E, {})
    BY VersionsAnswerOK
  <1>6. E \subseteq ResultTitles(found)
    BY <1>1
  <1> HIDE DEF E
  <1>7. Part(<<Asks(<<Word(query)>>)>> \o ResolveTurns(query, found) \o VersionTurns(work)
             \o <<Says(VersionsAnswer(title, rows, intent, slots))>>, E, E)
    BY <1>2, <1>3, <1>4, <1>5, <1>6, FourParts
  <1>8. QED
    BY <1>7 DEF title

LEMMA TabulatedList ==
  ASSUME NEW c \in Nat, NEW f, f = [i \in 1..c |-> f[i]]
  PROVE  \E S : f \in Seq(S)
  <1> DEFINE S == {f[i] : i \in 1..c}
  <1>1. \A i \in 1..c : f[i] \in S
    OBVIOUS
  <1> HIDE DEF S
  <1>2. f \in Seq(S)
    BY <1>1
  <1>3. QED
    BY <1>2

LEMMA ImageIsFinite ==
  ASSUME NEW I, IsFiniteSet(I), NEW f
  PROVE  IsFiniteSet({f[i] : i \in I})
  <1> DEFINE g == [i \in I |-> f[i]]
             S == {f[i] : i \in I}
  <1>1. g \in Surjection(I, S)
    BY DEF Surjection
  <1>2. QED
    BY <1>1, FS_Surjection

LEMMA DimensionsList ==
  ASSUME NEW rows \in Seq(VersionRow)
  PROVE  \E S : RefineDimensions(rows) \in Seq(S)
  <1> DEFINE all == DOMAIN rows
             L == {j \in all : \E k \in all : rows[k].language # rows[j].language}
             Y == {j \in all : rows[j].year # NoYear /\ \E k \in all : rows[k].year # rows[j].year}
             A == {j \in all : rows[j].actor # None}
             langs  == {rows[i].language : i \in L}
             years  == {rows[i].year : i \in Y}
             actors == {rows[i].actor : i \in A}
             named  == IF Cardinality(actors) < 3 THEN Cardinality(actors) ELSE 3
             a == [i \in 1..Cardinality(langs) |-> <<"language", SetToSeq(langs)[i]>>]
             b == [i \in 1..Cardinality(years) |-> <<"year", SetToSeq(years)[i]>>]
             c == [i \in 1..named |-> <<"actor", SetToSeq(actors)[i]>>]
             e == IF Len(rows) > 1 /\ \E i \in all : rows[i].orig
                  THEN << <<"era", "newer">> >> ELSE <<>>
  <1>1. IsFiniteSet(all)
    BY FS_Interval
  <1>2. IsFiniteSet(L) /\ IsFiniteSet(Y) /\ IsFiniteSet(A)
    BY <1>1, FS_Subset
  <1>3. IsFiniteSet(langs) /\ IsFiniteSet(years) /\ IsFiniteSet(actors)
    <2> DEFINE l == [i \in L |-> rows[i].language]
               y == [i \in Y |-> rows[i].year]
               w == [i \in A |-> rows[i].actor]
    <2>1. langs = {l[i] : i \in L} /\ years = {y[i] : i \in Y} /\ actors = {w[i] : i \in A}
      OBVIOUS
    <2> HIDE DEF langs, years, actors, L, Y, A, l, y, w
    <2>2. QED
      BY <1>2, <2>1, ImageIsFinite
  <1>4. RefineDimensions(rows) = a \o b \o c \o e
    BY DEF RefineDimensions
  <1> HIDE DEF langs, years, actors
  <1>5. Cardinality(langs) \in Nat /\ Cardinality(years) \in Nat /\ Cardinality(actors) \in Nat
    BY <1>3, FS_CardinalityType
  <1>6. named \in Nat
    BY <1>5
  <1> HIDE DEF named
  <1>7. PICK S1 : a \in Seq(S1)
    BY <1>5, TabulatedList
  <1>8. PICK S2 : b \in Seq(S2)
    BY <1>5, TabulatedList
  <1>9. PICK S3 : c \in Seq(S3)
    BY <1>6, TabulatedList
  <1>10. PICK S4 : e \in Seq(S4)
    <2> DEFINE era == <<"era", "newer">>
               one == <<era>>
               none == <<>>
    <2>1. e = one \/ e = none
      OBVIOUS
    <2> HIDE DEF e, era
    <2>2. one \in Seq({era}) /\ none \in Seq({era})
      OBVIOUS
    <2> HIDE DEF one, none
    <2>3. QED
      BY <2>1, <2>2
  <1> HIDE DEF a, b, c, e
  <1>11. a \o b \in Seq(S1 \cup S2)
    BY <1>7, <1>8, Concat
  <1>12. (a \o b) \o c \in Seq((S1 \cup S2) \cup S3)
    BY <1>9, <1>11, Concat
  <1>13. ((a \o b) \o c) \o e \in Seq(((S1 \cup S2) \cup S3) \cup S4)
    BY <1>10, <1>12, Concat
  <1>14. QED
    BY <1>4, <1>13

LEMMA RefineTurnsOK == \A rows, by, E : TurnsOK(RefineTurns(rows, by), E)
  <1> SUFFICES ASSUME NEW rows, NEW by, NEW E PROVE TurnsOK(RefineTurns(rows, by), E)
    OBVIOUS
  <1> DEFINE set   == {rows[i].version : i \in DOMAIN rows}
             kept  == RefineLocal(rows, by)
             value == IF by[1] = "year" THEN ToString(by[2]) ELSE by[2]
             a == <<Asks(<<Word(value)>>)>>
             b == ToolTurns("refine_filter", [version_set |-> set, by |-> by],
                            Result("refine_filter", kept, FALSE))
             c == <<Says(Answer("refine", {by}, <<>>, kept))>>
  <1>1. RefineTurns(rows, by) = a \o b \o c
    BY DEF RefineTurns
  <1>2. Part(a, E, {})
    <2> HIDE DEF value
    <2>1. QED
      BY SpansOf, AsksOK
  <1>3. Part(b, E, ResultTitles(Result("refine_filter", kept, FALSE)))
    BY ToolOK
  <1>4. Part(c, E, {})
    <2> HIDE DEF kept
    <2>1. QED
      BY SpansOf, AnswerOK, SaysOK
  <1> HIDE DEF a, b, c, kept
  <1>5. Part(a \o b, E, {} \cup ResultTitles(Result("refine_filter", kept, FALSE)))
    BY <1>2, <1>3, PartsJoin
  <1>6. Part((a \o b) \o c, E, ({} \cup ResultTitles(Result("refine_filter", kept, FALSE))) \cup {})
    BY <1>4, <1>5, PartsJoin
  <1>7. QED
    BY <1>1, <1>6 DEF Part

LEMMA RefineDraft ==
  ASSUME NEW works, NEW ids, Titled(works, ids), NEW d, \A k \in 1..8 : d[k] \in Nat
  PROVE  DraftOK(GenRefine(d, works))
  <1> DEFINE work  == Choice(d[1], works)
             query == Choice(d[2], UnambiguousQueries(work))
             found == work.queries[query]
             rows  == work.versions
             base  == {<<"title", query>>}
             split == RefineDimensions(rows)
             dims  == IF split # <<>> THEN split ELSE << <<"language", rows[1].language>> >>
             n     == 1 + (d[3] % (IF Len(dims) < 3 THEN Len(dims) ELSE 3))
             first == <<Asks(<<Word(query)>>)>> \o ResolveTurns(query, found) \o VersionTurns(work)
                      \o <<Says(VersionsAnswer(found.rows[1].title, rows, "list_versions", base))>>
  <1>1. \E by : GenRefine(d, works).turns = first \o Joined([j \in 1..n |-> RefineTurns(rows, by[j])])
    <2> DEFINE absent == SelectSeq(AbsentLangs,
                            LAMBDA l : \A i \in DOMAIN rows : rows[i].language # l)
               by(j) == IF j = n /\ d[4] % 4 = 0 /\ absent # <<>>
                        THEN <<"language", absent[1]>> ELSE Choice(d[4 + j], dims)
               by2 == [j \in 1..n |-> by(j)]
    <2>1. GenRefine(d, works).turns = first \o Joined([j \in 1..n |-> RefineTurns(rows, by(j))])
      BY DEF GenRefine, Draft
    <2> HIDE DEF first, rows, n, by
    <2>2. [j \in 1..n |-> RefineTurns(rows, by(j))] = [j \in 1..n |-> RefineTurns(rows, by2[j])]
      OBVIOUS
    <2>3. QED
      BY <2>1, <2>2
  <1>2. d[1] \in Nat /\ d[2] \in Nat /\ d[3] \in Nat
    OBVIOUS
  <1>3. WorkOK(work, ids) /\ UnambiguousQueries(work) # <<>>
    BY <1>2, TitledWork
  <1>4. \E E : Part(first, E, E)
    <2> HIDE DEF work, rows, base
    <2>1. QED
      BY <1>2, <1>3, TitleRound
  <1>5. n \in Nat
    <2>1. rows \in Seq(VersionRow)
      BY <1>3 DEF WorkOK
    <2> HIDE DEF rows
    <2>2. PICK S : split \in Seq(S)
      BY <2>1, DimensionsList
    <2> HIDE DEF split
    <2>3. Len(dims) \in Nat \ {0}
      <3>1. CASE split # <<>>
        BY <2>2, <3>1
      <3>2. CASE split = <<>>
        BY <3>2
      <3>3. QED
        BY <3>1, <3>2
    <2> HIDE DEF dims
    <2>4. QED
      BY <1>2, <2>3
  <1> HIDE DEF work, query, found, rows, base, split, dims, n, first
  <1>6. PICK by : GenRefine(d, works).turns = first \o Joined([j \in 1..n |-> RefineTurns(rows, by[j])])
    BY <1>1
  <1>7. PICK E : Part(first, E, E)
    BY <1>4
  <1> DEFINE lists == [j \in 1..n |-> RefineTurns(rows, by[j])]
  <1>8. \A j \in 1..n : TurnsOK(lists[j], E)
    BY RefineTurnsOK
  <1>9. lists = [j \in 1..n |-> lists[j]]
    OBVIOUS
  <1> HIDE DEF lists
  <1>10. TurnsOK(Joined(lists), E)
    BY <1>5, <1>8, <1>9, TurnsJoined
  <1>11. Part(Joined(lists), E, {})
    BY <1>10 DEF Part
  <1>12. Part(first \o Joined(lists), E, E \cup {})
    BY <1>7, <1>11, PartsJoin
  <1>13. Part(GenRefine(d, works).turns, E, E)
    BY <1>6, <1>12 DEF Part, lists
  <1>14. QED
    BY <1>13 DEF DraftOK

-----------------------------------------------------------------------------
(* disambiguate and out of catalog. *)

LEMMA PairsList ==
  ASSUME NEW works, WorksOK(works)
  PROVE  AmbiguousPairs(works) \in
            Seq(UNION {{<<works[i], q>> : q \in DOMAIN works[i].queries} : i \in DOMAIN works})
  <1> DEFINE pairs(i) == {<<works[i], q>> : q \in DOMAIN works[i].queries}
             P == UNION {pairs(i) : i \in DOMAIN works}
             asked(i) == Ambiguous(works[i])
             lists == [i \in DOMAIN works |-> [j \in DOMAIN asked(i) |-> <<works[i], asked(i)[j]>>]]
  <1>1. PICK S : works \in Seq(S) /\ \A w \in S : WorkOK(w, IdsOf(works))
    BY DEF WorksOK
  <1>2. ASSUME NEW i \in DOMAIN works PROVE lists[i] \in Seq(P)
    <2>1. WorkOK(works[i], IdsOf(works))
      BY <1>1
    <2>2. asked(i) \in Seq(DOMAIN works[i].queries)
      BY <2>1, QueriesList
    <2>3. \A q \in DOMAIN works[i].queries : <<works[i], q>> \in P
      OBVIOUS
    <2>4. lists[i] = [j \in DOMAIN asked(i) |-> <<works[i], asked(i)[j]>>]
      OBVIOUS
    <2> HIDE DEF P, asked, lists
    <2>5. \A j \in DOMAIN asked(i) : <<works[i], asked(i)[j]>> \in P
      BY <2>2, <2>3
    <2>6. DOMAIN asked(i) = 1..Len(asked(i)) /\ Len(asked(i)) \in Nat
      BY <2>2
    <2>7. QED
      BY <2>4, <2>5, <2>6
  <1>3. DOMAIN works = 1..Len(works) /\ Len(works) \in Nat
    BY <1>1
  <1>4. lists = [i \in 1..Len(works) |-> lists[i]]
    BY <1>3
  <1>5. AmbiguousPairs(works) = Joined(lists)
    BY DEF AmbiguousPairs
  <1> HIDE DEF P, lists
  <1>6. lists \in Seq(Seq(P))
    BY <1>2, <1>3, <1>4
  <1>7. Joined(lists) \in Seq(P)
    BY <1>6, JoinedSeq
  <1>8. QED
    BY <1>5, <1>7 DEF P

\* A choice among the elements at some indices.
LEMMA SubPick ==
  ASSUME NEW S, NEW s \in Seq(S), NEW P, NEW k \in P \cap DOMAIN s, NEW n \in Nat
  PROVE  \E i \in P \cap DOMAIN s : Choice(n, Sub(s, P)) = s[i]
  <1> DEFINE r == Sub(s, P)
  <1>1. /\ r \in Seq(S)
        /\ \A j \in DOMAIN r : \E i \in P \cap DOMAIN s : r[j] = s[i]
        /\ \E j \in DOMAIN r : r[j] = s[k]
    BY SubFacts
  <1> HIDE DEF r
  <1>2. r # <<>>
    BY <1>1
  <1>3. PICK j \in DOMAIN r : Choice(n, r) = r[j]
    BY <1>1, <1>2, OneOf
  <1>4. QED
    BY <1>1, <1>3 DEF r

\* The candidates of an ambiguous query: one of each work, and some work is in the snapshot.
LEMMA Candidates ==
  ASSUME NEW works, NEW result, ResultOK(result, IdsOf(works)), NEW n \in Nat
  PROVE  LET perWork == ByWork(result.rows)
             known == Sub(perWork, {k \in DOMAIN perWork :
                                       \E i \in DOMAIN works : works[i].id = perWork[k].work})
         IN  /\ \E S : perWork \in Seq(S)
             /\ \A k \in DOMAIN perWork : perWork[k].title \in ResultTitles(result)
             /\ Choice(n, known).title \in ResultTitles(result)
  <1> DEFINE rows == result.rows
             perWork == ByWork(rows)
             first == {i \in DOMAIN rows : \A k \in DOMAIN rows : k < i => rows[k].work # rows[i].work}
             here == {k \in DOMAIN perWork : \E i \in DOMAIN works : works[i].id = perWork[k].work}
  <1>1. PICK S : rows \in Seq(S) /\ \A x \in S : x.work \in IdsOf(works)
    BY DEF ResultOK
  <1>2. rows # <<>>
    BY DEF ResultOK
  <1>3. perWork = Sub(rows, first)
    BY DEF ByWork
  <1>4. \A i \in DOMAIN rows : rows[i].title \in ResultTitles(result)
    BY DEF ResultTitles
  <1> HIDE DEF rows, perWork
  <1>5. 1 \in first
    <2>1. 1 \in DOMAIN rows /\ \A k \in DOMAIN rows : ~(k < 1)
      BY <1>1, <1>2
    <2>2. QED
      BY <2>1
  <1>6. /\ perWork \in Seq(S)
        /\ \A k \in DOMAIN perWork : \E i \in first \cap DOMAIN rows : perWork[k] = rows[i]
        /\ \A i \in first \cap DOMAIN rows : \E k \in DOMAIN perWork : perWork[k] = rows[i]
    <2> HIDE DEF first
    <2>1. QED
      BY <1>1, <1>3, SubFacts
  <1>7. \A k \in DOMAIN perWork : perWork[k].title \in ResultTitles(result)
    BY <1>4, <1>6
  <1>8. PICK k \in DOMAIN perWork : TRUE
    BY <1>5, <1>6
  <1>9. k \in here
    <2>1. perWork[k] \in S
      BY <1>6
    <2>2. perWork[k].work \in IdsOf(works)
      BY <2>1, <1>1
    <2>3. QED
      BY <2>2 DEF IdsOf
  <1> HIDE DEF first, here
  <1>10. PICK j \in here \cap DOMAIN perWork : Choice(n, Sub(perWork, here)) = perWork[j]
    <2>1. k \in here \cap DOMAIN perWork
      BY <1>9
    <2>2. QED
      BY <1>6, <2>1, SubPick
  <1>11. Choice(n, Sub(perWork, here)).title \in ResultTitles(result)
    BY <1>7, <1>10
  <1>12. QED
    BY <1>6, <1>7, <1>11 DEF perWork, here, rows

LEMMA DisambiguateDraft ==
  ASSUME NEW works, WorksOK(works), AmbiguousPairs(works) # <<>>,
         NEW d, d[1] \in Nat, d[2] \in Nat
  PROVE  DraftOK(GenDisambiguate(d, works))
  <1> DEFINE pair   == Choice(d[1], AmbiguousPairs(works))
             query  == pair[2]
             found  == pair[1].queries[query]
             perWork == ByWork(found.rows)
             here == {k \in DOMAIN perWork : \E i \in DOMAIN works : works[i].id = perWork[k].work}
             known  == Sub(perWork, here)
             chosen == Choice(d[2], known)
             work   == works[CHOOSE i \in DOMAIN works : works[i].id = chosen.work]
             options == [i \in DOMAIN perWork |-> <<Bold(perWork[i].title), Word(ToString(perWork[i].year))>>]
             ask    == {<<"title", query>>}
             langs  == {perWork[i].language : i \in DOMAIN perWork}
             pick   == ask \cup {<<"year", chosen.year>>}
                       \cup IF Cardinality(langs) > 1 THEN {<<"language", chosen.language>>} ELSE {}
             E == ResultTitles(found)
             a == <<Asks(<<Word(query)>>)>>
             b == ResolveTurns(query, found)
             says == Says(Answer("disambiguate", ask, <<Word(query)>> \o Joined(options), <<>>))
             asks == Asks(<<Word(ToString(chosen.year))>>)
             e == <<Says(VersionsAnswer(chosen.title, work.versions, "list_versions", pick))>>
  <1>1. GenDisambiguate(d, works).turns = a \o b \o <<says, asks>> \o VersionTurns(work) \o e
    BY DEF GenDisambiguate, DisambiguateTurns, Draft
  <1>2. ResultOK(found, IdsOf(works))
    <2> DEFINE P == UNION {{<<works[i], q>> : q \in DOMAIN works[i].queries} : i \in DOMAIN works}
    <2>1. AmbiguousPairs(works) \in Seq(P)
      BY PairsList
    <2> HIDE DEF P
    <2>2. pair \in P
      BY <2>1, ChoiceIn
    <2> HIDE DEF pair
    <2>3. PICK i \in DOMAIN works : \E q \in DOMAIN works[i].queries : pair = <<works[i], q>>
      BY <2>2 DEF P
    <2>4. pair[1] = works[i] /\ pair[2] \in DOMAIN works[i].queries
      BY <2>3
    <2>5. WorkOK(works[i], IdsOf(works))
      BY DEF WorksOK
    <2>6. QED
      BY <2>4, <2>5 DEF WorkOK
  <1> HIDE DEF found
  <1>3. /\ \E S : perWork \in Seq(S)
        /\ \A k \in DOMAIN perWork : perWork[k].title \in E
        /\ chosen.title \in E
    BY <1>2, Candidates
  <1> HIDE DEF perWork, here, known, chosen, work, ask, pick, E, query
  <1>4. SpansOK(<<Word(query)>> \o Joined(options), E)
    <2>1. PICK S : perWork \in Seq(S)
      BY <1>3
    <2>2. DOMAIN perWork = 1..Len(perWork) /\ Len(perWork) \in Nat
      BY <2>1
    <2>3. \A i \in 1..Len(perWork) : SpansOK(options[i], E)
      BY <1>3, <2>2, SpansOf
    <2>4. options = [i \in 1..Len(perWork) |-> options[i]]
      BY <2>2
    <2> HIDE DEF options
    <2>5. SpansOK(Joined(options), E)
      BY <2>2, <2>3, <2>4, SpansJoined
    <2>6. SpansOK(<<Word(query)>>, E)
      BY SpansOf
    <2>7. QED
      BY <2>5, <2>6, SpansJoin
  <1>5. Part(a, E, {})
    BY SpansOf, AsksOK
  <1>6. Part(b, E, E)
    BY ToolOK DEF ResolveTurns, E
  <1>7. Part(<<says, asks>>, E, ResultTitles(asks.result))
    <2> HIDE DEF options
    <2>1. TurnOK(says, E)
      BY <1>4, AnswerOK, SaysOK
    <2>2. TurnOK(asks, E)
      BY SpansOf, AsksOK
    <2> HIDE DEF says, asks
    <2>3. QED
      BY <2>1, <2>2, PartOfTwo
  <1>8. Part(VersionTurns(work), E, ResultTitles(Result("get_versions", work.versions, FALSE)))
    BY ToolOK DEF VersionTurns
  <1>9. Part(e, E, {})
    BY <1>3, VersionsAnswerOK
  <1> HIDE DEF a, b, says, asks, e
  <1>10. Part(a \o b \o <<says, asks>> \o VersionTurns(work), E, E)
    BY <1>5, <1>6, <1>7, <1>8, FourParts
  <1>11. Part((a \o b \o <<says, asks>> \o VersionTurns(work)) \o e, E, E \cup {})
    BY <1>9, <1>10, PartsJoin
  <1>12. Part(GenDisambiguate(d, works).turns, E, E)
    BY <1>1, <1>11 DEF Part
  <1>13. QED
    BY <1>12 DEF DraftOK

LEMMA OutOfCatalogDraft ==
  ASSUME NEW titled, NEW ids, titled # <<>> => Titled(titled, ids),
         Decoys # <<>>, NEW d, \A k \in 1..8 : d[k] \in Nat, NEW family
  PROVE  DraftOK(GenOutOfCatalog(d, Decoys, titled, family))
  <1> DEFINE matching == Sub(Decoys, {i \in DOMAIN Decoys : Decoys[i].lang = family})
             from  == IF matching # <<>> THEN matching ELSE Decoys
             desc  == Choice(d[1], from).theme
             slots == {<<"plot_description", desc>>}
             tool  == ToolTurns("search_by_plot", [description |-> desc, top_k |-> 10],
                                Result("search_by_plot", <<>>, TRUE))
             says  == <<Says(Abstention(slots))>>
             work  == Choice(d[3], titled)
             query == Choice(d[4], UnambiguousQueries(work))
             found == work.queries[query]
             title == found.rows[1].title
             first == {<<"title", query>>}
             answer == Says(VersionsAnswer(title, work.versions, "find_by_title", first))
             asks  == Asks(Words(desc))
             draft == GenOutOfCatalog(d, Decoys, titled, family)
  <1>1. \/ draft.turns = <<asks>> \o (tool \o says)
        \/ /\ titled # <<>>
           /\ draft.turns = <<Asks(<<Word(query)>>)>> \o ResolveTurns(query, found) \o VersionTurns(work)
                            \o <<answer, asks>> \o (tool \o says)
    BY DEF GenOutOfCatalog, Draft
  <1>2. d[1] \in Nat /\ d[3] \in Nat /\ d[4] \in Nat
    OBVIOUS
  <1>3. desc \in Seq(STRING)
    <2> DEFINE D == [theme : Seq(STRING), lang : STRING]
    <2>1. Decoys \in Seq(D)
      BY GraphsAssumption
    <2> HIDE DEF D
    <2>2. matching \in Seq(D)
      BY <2>1, SubFacts
    <2> HIDE DEF matching
    <2>3. from \in Seq(D) /\ from # <<>>
      BY <2>1, <2>2
    <2> HIDE DEF from
    <2>4. Choice(d[1], from) \in D
      BY <1>2, <2>3, ChoiceIn
    <2>5. QED
      BY <2>4 DEF D
  <1> HIDE DEF desc, draft
  <1>4. \A E : TurnOK(asks, E)
    BY <1>3, SpansOf, AsksOK
  <1>5. \A E : Part(tool \o says, E, {})
    <2> SUFFICES ASSUME NEW E PROVE Part(tool \o says, E, {})
      OBVIOUS
    <2>1. Part(tool, E, ResultTitles(Result("search_by_plot", <<>>, TRUE)))
      BY ToolOK
    <2>2. Part(says, E, {})
      <3> HIDE DEF slots
      <3>1. QED
        BY AbstentionOK, SaysOK
    <2> HIDE DEF tool, says
    <2>3. Part(tool \o says, E, ResultTitles(Result("search_by_plot", <<>>, TRUE)) \cup {})
      BY <2>1, <2>2, PartsJoin
    <2>4. QED
      BY <2>3 DEF Part
  <1> HIDE DEF tool, says, asks
  <1>6. CASE draft.turns = <<asks>> \o (tool \o says)
    <2>1. Part(<<asks>>, {}, {})
      BY <1>4, PartOfTwo
    <2>2. Part(<<asks>> \o (tool \o says), {}, {} \cup {})
      BY <2>1, <1>5, PartsJoin
    <2>3. Part(draft.turns, {}, {})
      BY <1>6, <2>2 DEF Part
    <2>4. QED
      BY <2>3 DEF DraftOK, draft
  <1>7. CASE /\ titled # <<>>
             /\ draft.turns = <<Asks(<<Word(query)>>)>> \o ResolveTurns(query, found)
                              \o VersionTurns(work) \o <<answer, asks>> \o (tool \o says)
    <2> DEFINE E == {title}
    <2>1. WorkOK(work, ids) /\ UnambiguousQueries(work) # <<>>
      BY <1>2, <1>7, TitledWork
    <2> HIDE DEF work
    <2>2. title \in ResultTitles(found)
      BY <1>2, <2>1, QueryFound
    <2> HIDE DEF query, found, title, first
    <2>3. Part(<<Asks(<<Word(query)>>)>>, E, {})
      BY SpansOf, AsksOK
    <2>4. Part(ResolveTurns(query, found), E, ResultTitles(found))
      BY ToolOK DEF ResolveTurns
    <2>5. Part(VersionTurns(work), E, ResultTitles(Result("get_versions", work.versions, FALSE)))
      BY ToolOK DEF VersionTurns
    <2>6. TurnOK(answer, E)
      <3>1. SpansOK(<<Bold(title)>>, E)
        BY SpansOf
      <3>2. QED
        BY <3>1, AnswerOK, SaysOK DEF VersionsAnswer
    <2> HIDE DEF answer
    <2>7. Part(<<answer, asks>>, E, ResultTitles(asks.result))
      BY <1>4, <2>6, PartOfTwo
    <2>8. E \subseteq ResultTitles(found)
      BY <2>2
    <2> HIDE DEF E
    <2> DEFINE round == <<Asks(<<Word(query)>>)>> \o ResolveTurns(query, found)
                        \o VersionTurns(work) \o <<answer, asks>>
    <2>9. Part(round, E, E)
      BY <2>3, <2>4, <2>5, <2>7, <2>8, FourParts
    <2>10. draft.turns = round \o (tool \o says)
      BY <1>7
    <2> HIDE DEF round
    <2>11. Part(round \o (tool \o says), E, E \cup {})
      BY <1>5, <2>9, PartsJoin
    <2>12. Part(draft.turns, E, E)
      BY <2>10, <2>11 DEF Part
    <2>13. QED
      BY <2>12 DEF DraftOK, draft
  <1>8. QED
    BY <1>1, <1>6, <1>7

-----------------------------------------------------------------------------
(* What the review gate shows keeps what the generators rely on, and resolving
   an ambiguous query finds the work it was taken from. *)

\* The versions the gate shows of a work, and the works it shows.
LEMMA VisibleFacts ==
  ASSUME NEW g \in DOMAIN Graphs, NEW i \in DOMAIN Graphs[g]
  PROVE  /\ Visible(Graphs[g][i]) \in Seq(VersionRow)
         /\ \A k \in DOMAIN Visible(Graphs[g][i]) : Visible(Graphs[g][i])[k].work = Graphs[g][i].id
  <1> DEFINE work == Graphs[g][i]
             shown == {k \in DOMAIN work.versions : work.versions[k].version \notin work.hidden}
             s == work.versions
  <1>1. work \in CatalogWork
    BY GraphsAssumption
  <1>2. \A k \in DOMAIN s : s[k].work = work.id
    BY GraphsAssumption
  <1> HIDE DEF work
  <1>3. s \in Seq(VersionRow)
    BY <1>1 DEF CatalogWork
  <1>4. Visible(work) = Sub(s, shown)
    BY DEF Visible
  <1> HIDE DEF s, shown
  <1>5. /\ Sub(s, shown) \in Seq(VersionRow)
        /\ \A k \in DOMAIN Sub(s, shown) : \E j \in shown \cap DOMAIN s : Sub(s, shown)[k] = s[j]
    BY <1>3, SubFacts
  <1>6. QED
    BY <1>2, <1>4, <1>5 DEF work

LEMMA ResolveFinds ==
  ASSUME NEW g \in DOMAIN Graphs, NEW query, NEW ids,
         \A i \in DOMAIN Graphs[g] : Visible(Graphs[g][i]) # <<>> => Graphs[g][i].id \in ids,
         Resolve(Graphs[g], query).rows # <<>>
  PROVE  ResultOK(Resolve(Graphs[g], query), ids)
  <1> DEFINE works == Graphs[g]
             W == {v \in VersionRow : v.work \in ids}
             lists == [i \in DOMAIN works |-> Visible(works[i])]
             all == Joined(lists)
             hits == {i \in DOMAIN all : MatchKey(all[i].title) = MatchKey(query)}
  <1>1. DOMAIN works = 1..Len(works) /\ Len(works) \in Nat
    <2>1. works \in Seq(CatalogWork)
      BY GraphsAssumption
    <2> HIDE DEF works
    <2>2. QED
      BY <2>1
  <1>2. ASSUME NEW i \in DOMAIN works PROVE Visible(works[i]) \in Seq(W)
    <2> DEFINE s == Visible(works[i])
    <2>1. s \in Seq(VersionRow) /\ \A k \in DOMAIN s : s[k].work = works[i].id
      BY VisibleFacts
    <2>2. s # <<>> => works[i].id \in ids
      OBVIOUS
    <2> HIDE DEF s, works
    <2>3. CASE s = <<>>
      <3> HIDE DEF W
      <3>1. <<>> \in Seq(W)
        OBVIOUS
      <3>2. QED
        BY <3>1, <2>3 DEF s
    <2>4. CASE s # <<>>
      <3>1. \A k \in DOMAIN s : s[k] \in W
        BY <2>1, <2>2, <2>4
      <3> HIDE DEF W
      <3>2. s \in Seq(W)
        BY <2>1, <3>1
      <3>3. QED
        BY <3>2 DEF s
    <2>5. QED
      BY <2>3, <2>4
  <1>3. Resolve(works, query).rows = Sub(all, hits)
    BY DEF Resolve, Result
  <1>4. \A x \in W : x.work \in ids
    OBVIOUS
  <1> HIDE DEF W, works
  <1>5. lists \in Seq(Seq(W))
    BY <1>1, <1>2
  <1> HIDE DEF lists
  <1>6. all \in Seq(W)
    BY <1>5, JoinedSeq
  <1> HIDE DEF all, hits
  <1>7. Sub(all, hits) \in Seq(W)
    BY <1>6, SubFacts
  <1>8. QED
    BY <1>3, <1>4, <1>7 DEF ResultOK, works

LEMMA QueriesFinite ==
  ASSUME NEW works, NEW work \in CatalogWork
  PROVE  IsFiniteSet(Queries(works, work))
  <1> DEFINE V == DOMAIN work.versions
             own == {work.versions[i].title : i \in V}
             titles == {work.title} \cup own
             T == titles \cap DOMAIN Perturbations
             asked == titles \cup UNION {Perturbations[t] : t \in T}
  <1>1. IsFiniteSet(V)
    <2> DEFINE s == work.versions
    <2>1. s \in Seq(VersionRow)
      BY DEF CatalogWork
    <2> HIDE DEF s
    <2>2. DOMAIN s = 1..Len(s) /\ Len(s) \in Nat
      BY <2>1
    <2>3. IsFiniteSet(DOMAIN s)
      BY <2>2, FS_Interval
    <2>4. QED
      BY <2>3 DEF s
  <1>2. IsFiniteSet(own)
    <2> DEFINE f == [i \in V |-> work.versions[i].title]
    <2>1. own = {f[i] : i \in V}
      OBVIOUS
    <2> HIDE DEF own, f, V
    <2>2. QED
      BY <1>1, <2>1, ImageIsFinite
  <1>3. IsFiniteSet({work.title})
    BY FS_Singleton
  <1> HIDE DEF own, V
  <1>4. IsFiniteSet(titles)
    BY <1>2, <1>3, FS_Union
  <1>5. IsFiniteSet(T)
    BY <1>4, FS_Subset
  <1>6. \A t \in T : IsFiniteSet(Perturbations[t])
    BY GraphsAssumption
  <1> HIDE DEF titles
  <1>7. IsFiniteSet({Perturbations[t] : t \in T})
    BY <1>5, ImageIsFinite
  <1>8. IsFiniteSet(UNION {Perturbations[t] : t \in T})
    <2> DEFINE S == {Perturbations[t] : t \in T}
    <2>1. IsFiniteSet(S) /\ \A x \in S : IsFiniteSet(x)
      BY <1>6, <1>7
    <2> HIDE DEF S
    <2>2. IsFiniteSet(UNION S)
      BY <2>1, FS_UNION
    <2>3. QED
      BY <2>2 DEF S
  <1>9. IsFiniteSet(asked)
    BY <1>4, <1>8, FS_Union
  <1>10. Queries(works, work) = {q \in asked : Resolve(works, q).rows # <<>>}
    BY DEF Queries, titles, own, V
  <1> HIDE DEF asked
  <1>11. Queries(works, work) \subseteq asked
    BY <1>10
  <1>12. QED
    BY <1>9, <1>11, FS_Subset

LEMMA ExportOK ==
  ASSUME NEW g \in DOMAIN Graphs
  PROVE  WorksOK(Export(Graphs[g]).works)
  <1> DEFINE G == Graphs[g]
             here == {i \in DOMAIN G : Visible(G[i]) # <<>>}
             shown == Shown(G)
             snap(w) == WorkSnapshot(G, w)
             works == Export(G).works
             ids == IdsOf(works)
             S == {works[k] : k \in DOMAIN shown}
  <1>1. G \in Seq(CatalogWork)
    BY GraphsAssumption
  <1>2. shown = Sub(G, here)
    BY DEF Shown
  <1>3. /\ shown \in Seq(CatalogWork)
        /\ \A k \in DOMAIN shown : \E i \in here \cap DOMAIN G : shown[k] = G[i]
        /\ \A i \in here \cap DOMAIN G : \E k \in DOMAIN shown : shown[k] = G[i]
    <2> HIDE DEF here, G, shown
    <2>1. QED
      BY <1>1, <1>2, SubFacts
  <1>4. works = [k \in DOMAIN shown |-> snap(shown[k])]
    BY DEF Export
  <1>5. \A w : snap(w).id = w.id
    BY DEF WorkSnapshot
  <1>6. \A i \in DOMAIN G : Visible(G[i]) # <<>> => G[i].id \in ids
    <2> HIDE DEF G, snap, works, shown
    <2>1. ASSUME NEW i \in DOMAIN G, Visible(G[i]) # <<>> PROVE G[i].id \in ids
      <3>1. PICK k \in DOMAIN shown : shown[k] = G[i]
        BY <1>3, <2>1
      <3>2. works[k].id = G[i].id /\ k \in DOMAIN works
        BY <1>4, <1>5, <3>1
      <3>3. QED
        BY <3>2 DEF IdsOf
    <2>2. QED
      BY <2>1
  <1> HIDE DEF ids
  <1>7. ASSUME NEW i \in DOMAIN G PROVE WorkOK(snap(G[i]), ids)
    <2> DEFINE w == G[i]
               texts == Excerpts(w)
               snapw == snap(w)
    <2>1. w \in CatalogWork
      BY <1>1
    <2>2. /\ snapw.queries = [q \in Queries(G, w) |-> Resolve(G, q)]
          /\ snapw.versions = Visible(w)
          /\ snapw.excerpts = [k \in DOMAIN texts |-> texts[k].text]
      BY DEF WorkSnapshot
    <2>3. snapw.versions \in Seq(VersionRow)
      BY <2>2, VisibleFacts
    <2>4. IsFiniteSet(DOMAIN snapw.queries)
      <3>1. IsFiniteSet(Queries(G, w))
        BY <2>1, QueriesFinite
      <3> HIDE DEF snapw, G
      <3>2. QED
        BY <2>2, <3>1
    <2>5. ASSUME NEW q \in DOMAIN snapw.queries PROVE ResultOK(snapw.queries[q], ids)
      <3> HIDE DEF snapw
      <3>1. q \in Queries(G, w) /\ snapw.queries[q] = Resolve(G, q)
        BY <2>2, <2>5
      <3>2. Resolve(G, q).rows # <<>>
        BY <3>1 DEF Queries
      <3>3. ResultOK(Resolve(G, q), ids)
        BY <1>6, <3>2, ResolveFinds
      <3>4. QED
        BY <3>1, <3>3
    <2>6. snapw.excerpts \in Seq(Seq(STRING))
      <3> DEFINE P == [version : STRING, text : Seq(STRING)]
                 plots == w.plots
                 kept == {k \in DOMAIN plots : plots[k].version \notin w.hidden}
      <3>1. plots \in Seq(P)
        BY <2>1 DEF CatalogWork
      <3>2. texts = Sub(plots, kept)
        BY DEF Excerpts
      <3> HIDE DEF P, plots, kept, texts
      <3>3. texts \in Seq(P)
        BY <3>1, <3>2, SubFacts
      <3>4. \A k \in DOMAIN texts : texts[k].text \in Seq(STRING)
        <4>1. \A k \in DOMAIN texts : texts[k] \in P
          BY <3>3
        <4>2. QED
          BY <4>1 DEF P
      <3>5. DOMAIN texts = 1..Len(texts) /\ Len(texts) \in Nat
        BY <3>3
      <3> HIDE DEF snapw
      <3>6. QED
        BY <2>2, <3>4, <3>5
    <2> HIDE DEF snapw
    <2>7. WorkOK(snapw, ids)
      BY <2>3, <2>4, <2>5, <2>6 DEF WorkOK
    <2>8. QED
      BY <2>7 DEF snapw
  <1>8. \A k \in DOMAIN shown : WorkOK(works[k], ids)
    <2> HIDE DEF G, snap, works, shown
    <2>1. QED
      BY <1>3, <1>4, <1>7
  <1>9. works \in Seq(S)
    <2> HIDE DEF snap, works, shown
    <2>1. \A k \in DOMAIN shown : works[k] \in S
      OBVIOUS
    <2>2. DOMAIN shown = 1..Len(shown) /\ Len(shown) \in Nat
      BY <1>3
    <2> HIDE DEF S
    <2>3. QED
      BY <1>4, <2>1, <2>2
  <1>10. \A w \in S : WorkOK(w, ids)
    <2> HIDE DEF works, shown
    <2>1. QED
      BY <1>8
  <1> HIDE DEF works, S, shown
  <1>11. WorksOK(works)
    BY <1>9, <1>10 DEF WorksOK, ids
  <1>12. QED
    BY <1>11 DEF works

-----------------------------------------------------------------------------
(* Every generated conversation is grounded, a taught one keeps its skeleton,
   and so does a whole pass. *)

LEMMA DraftGrounded ==
  ASSUME NEW draft, DraftOK(draft), NEW id, NEW lang
  PROVE  Grounded(Conversation(draft, id, lang))
  <1> DEFINE conv == Conversation(draft, id, lang)
             turns == draft.turns
  <1>1. conv = [key \in ConvParts |-> conv[key]] /\ conv.turns = turns
    BY DEF Conversation, ConvParts
  <1>2. PICK E : Part(turns, E, E)
    BY DEF DraftOK
  <1>3. PICK S : turns \in Seq(S) /\ \A x \in S : TurnOK(x, E)
    BY <1>2 DEF Part, TurnsOK
  <1> HIDE DEF turns, conv
  <1>4. E \subseteq ConvTitles(conv)
    BY <1>1, <1>2 DEF Part, TitlesOf, ConvTitles
  <1>5. ASSUME NEW i \in DOMAIN turns PROVE TurnOK(turns[i], ConvTitles(conv))
    <2>1. TurnOK(turns[i], E)
      BY <1>3
    <2>2. QED
      BY <1>4, <2>1, TextMore DEF TurnOK
  <1>6. Grounded(conv)
    BY <1>1, <1>5 DEF Grounded
  <1>7. QED
    BY <1>6 DEF conv

LEMMA GeneratedFrom ==
  ASSUME NEW snap, NEW seed, NEW i \in 1..Size
  PROVE  LET d == Draws[seed][i]
             works == snap.works
         IN  \E draft, lang :
                /\ Generate(snap, seed, Size)[i] = Conversation(draft, <<seed, i>>, lang)
                /\ \/ draft = GenFindByPlot(d, PlotWorks(works), works)
                   \/ \E b : draft = GenFindByTitle(d, TitledWorks(works), b)
                   \/ draft = GenRefine(d, RefineWorks(works))
                   \/ draft = GenDisambiguate(d, works)
                   \/ \E family : draft = GenOutOfCatalog(d, snap.decoys, TitledWorks(works), family)
  BY DEF Generate, DraftOf

LEMMA WorkLists ==
  ASSUME NEW works, WorksOK(works), RefineWorks(works) # <<>>
  PROVE  /\ \E S : PlotWorks(works) \in Seq(S)
         /\ \A k \in DOMAIN PlotWorks(works) :
               /\ WorkOK(PlotWorks(works)[k], IdsOf(works))
               /\ PlotWorks(works)[k].excerpts # <<>>
         /\ Titled(TitledWorks(works), IdsOf(works))
         /\ Titled(RefineWorks(works), IdsOf(works))
  <1> DEFINE ids == IdsOf(works)
             P == {i \in DOMAIN works : works[i].excerpts # <<>> /\ works[i].versions # <<>>}
             T == {i \in DOMAIN works : UnambiguousQueries(works[i]) # <<>>}
             R == {i \in DOMAIN works : Len(works[i].versions) >= 3
                                     /\ UnambiguousQueries(works[i]) # <<>>}
  <1>1. PICK S : works \in Seq(S) /\ \A w \in S : WorkOK(w, ids)
    BY DEF WorksOK
  <1>2. \A i \in DOMAIN works : WorkOK(works[i], ids)
    BY <1>1
  <1>3. PlotWorks(works) = Sub(works, P) /\ TitledWorks(works) = Sub(works, T)
        /\ RefineWorks(works) = Sub(works, R)
    BY DEF PlotWorks, TitledWorks, RefineWorks
  <1>4. \A i \in P : works[i].excerpts # <<>>
    OBVIOUS
  <1>5. \A i \in T \cup R : UnambiguousQueries(works[i]) # <<>>
    OBVIOUS
  <1>6. R \subseteq T
    OBVIOUS
  <1> HIDE DEF P, T, R, ids
  <1>7. \A I : /\ Sub(works, I) \in Seq(S)
               /\ \A k \in DOMAIN Sub(works, I) : \E i \in I \cap DOMAIN works : Sub(works, I)[k] = works[i]
               /\ \A i \in I \cap DOMAIN works : \E k \in DOMAIN Sub(works, I) : Sub(works, I)[k] = works[i]
    BY <1>1, SubFacts
  <1>8. \A k \in DOMAIN Sub(works, P) : WorkOK(Sub(works, P)[k], ids) /\ Sub(works, P)[k].excerpts # <<>>
    BY <1>2, <1>4, <1>7
  <1>9. \A k \in DOMAIN Sub(works, T) :
            WorkOK(Sub(works, T)[k], ids) /\ UnambiguousQueries(Sub(works, T)[k]) # <<>>
    BY <1>2, <1>5, <1>7
  <1>10. \A k \in DOMAIN Sub(works, R) :
            WorkOK(Sub(works, R)[k], ids) /\ UnambiguousQueries(Sub(works, R)[k]) # <<>>
    BY <1>2, <1>5, <1>7
  <1>11. Sub(works, R) # <<>> /\ Sub(works, T) # <<>>
    <2> DEFINE r == Sub(works, R)
               t == Sub(works, T)
    <2>1. r # <<>> /\ r \in Seq(S)
      BY <1>3, <1>7
    <2>2. \A k \in DOMAIN r : \E i \in R \cap DOMAIN works : r[k] = works[i]
      BY <1>7
    <2>3. \A i \in T \cap DOMAIN works : \E k \in DOMAIN t : t[k] = works[i]
      BY <1>7
    <2> HIDE DEF r, t
    <2>4. 1 \in DOMAIN r
      BY <2>1
    <2>5. t # <<>>
      BY <1>6, <2>2, <2>3, <2>4
    <2>6. QED
      BY <2>1, <2>5 DEF r, t
  <1>12. Titled(Sub(works, T), ids) /\ Titled(Sub(works, R), ids)
    BY <1>7, <1>9, <1>10, <1>11 DEF Titled
  <1>13. QED
    BY <1>3, <1>7, <1>8, <1>12 DEF ids

LEMMA GeneratedGrounded ==
  ASSUME NEW d \in Scaffolded, NEW i \in 1..Size
  PROVE  Grounded(ScaffoldRows(d)[i])
  <1> DEFINE snap == Export(Graphs[d.from])
             works == snap.works
             draws == Draws[d.seed][i]
  <1>1. d.from \in DOMAIN Graphs /\ d.seed \in Seeds /\ CanGenerate(snap)
    BY DEF Scaffolded
  <1>2. WorksOK(works)
    BY <1>1, ExportOK
  <1>3. /\ PlotWorks(works) # <<>> /\ RefineWorks(works) # <<>>
        /\ AmbiguousPairs(works) # <<>> /\ snap.decoys # <<>>
    BY <1>1 DEF CanGenerate
  <1>4. snap.decoys = Decoys
    BY DEF Export
  <1>5. \A k \in 1..8 : draws[k] \in Nat
    BY <1>1, SizesAssumption
  <1>6. draws[1] \in Nat /\ draws[2] \in Nat
    BY <1>5
  <1>7. PICK draft, lang :
           /\ Generate(snap, d.seed, Size)[i] = Conversation(draft, <<d.seed, i>>, lang)
           /\ \/ draft = GenFindByPlot(draws, PlotWorks(works), works)
              \/ \E b : draft = GenFindByTitle(draws, TitledWorks(works), b)
              \/ draft = GenRefine(draws, RefineWorks(works))
              \/ draft = GenDisambiguate(draws, works)
              \/ \E family : draft = GenOutOfCatalog(draws, snap.decoys, TitledWorks(works), family)
    BY GeneratedFrom
  <1>8. ScaffoldRows(d)[i] = Conversation(draft, <<d.seed, i>>, lang)
    BY <1>7 DEF ScaffoldRows
  <1> HIDE DEF snap, works, draws
  <1>9. /\ \E S : PlotWorks(works) \in Seq(S)
        /\ \A k \in DOMAIN PlotWorks(works) :
               WorkOK(PlotWorks(works)[k], IdsOf(works)) /\ PlotWorks(works)[k].excerpts # <<>>
        /\ Titled(TitledWorks(works), IdsOf(works))
        /\ Titled(RefineWorks(works), IdsOf(works))
    BY <1>2, <1>3, WorkLists
  <1>10. DraftOK(GenFindByPlot(draws, PlotWorks(works), works))
    <2>1. PICK S : PlotWorks(works) \in Seq(S)
      BY <1>9
    <2>2. QED
      BY <1>3, <1>6, <1>9, <2>1, PlotDraft
  <1>11. \A b : DraftOK(GenFindByTitle(draws, TitledWorks(works), b))
    BY <1>6, <1>9, TitleDraft
  <1>12. DraftOK(GenRefine(draws, RefineWorks(works)))
    BY <1>5, <1>9, RefineDraft
  <1>13. DraftOK(GenDisambiguate(draws, works))
    BY <1>2, <1>3, <1>6, DisambiguateDraft
  <1>14. \A family : DraftOK(GenOutOfCatalog(draws, snap.decoys, TitledWorks(works), family))
    BY <1>3, <1>4, <1>5, <1>9, OutOfCatalogDraft
  <1>15. DraftOK(draft)
    BY <1>7, <1>10, <1>11, <1>12, <1>13, <1>14
  <1>16. QED
    BY <1>8, <1>15, DraftGrounded

LEMMA PassKeepsSkeletons ==
  ASSUME NEW rows, \A i \in DOMAIN rows : Grounded(rows[i]),
         NEW faulty, NEW first \in Quirks, NEW second \in Quirks, NEW golden, NEW stamp
  PROVE  SurfacesOf(rows, SurfacePass(rows, faulty, first, second, golden, stamp))
  <1> DEFINE after == SurfacePass(rows, faulty, first, second, golden, stamp)
  <1>1. "echo" \in Quirks
    BY DEF Quirks
  <1>2. /\ DOMAIN after = DOMAIN rows
        /\ \A i \in DOMAIN rows : \/ after[i] = TeachConv(rows[i], first, second, golden, stamp)
                                  \/ after[i] = TeachConv(rows[i], "echo", "echo", golden, stamp)
    BY DEF SurfacePass
  <1> HIDE DEF after
  <1>3. ASSUME NEW i \in DOMAIN rows
        PROVE  /\ Skeleton(after[i]) = Skeleton(rows[i])
               /\ \A k \in DOMAIN rows[i].turns :
                     Rewritten(rows[i].turns[k].content, after[i].turns[k].content, Lockable(rows[i]))
    BY <1>1, <1>2, TeachKeepsSkeleton
  <1>4. Skeletons(after) = Skeletons(rows)
    BY <1>2, <1>3 DEF Skeletons
  <1>5. QED
    BY <1>3, <1>4 DEF after, SurfacesOf

LEMMA TaughtKeepsSkeletons == TaughtNames \subseteq OnlySurfaces
  <1> SUFFICES ASSUME NEW t \in TaughtNames PROVE t \in OnlySurfaces
    OBVIOUS
  <1>1. PICK c \in Scaffolded, n \in Limits, a \in Answers : t = TaughtFrom(c, n, a)
    BY DEF TaughtNames
  <1>2. /\ TaughtFrom(t, 0, Untaught) = c /\ t.limit = n /\ t.answers = a
        /\ c.limit = 0 /\ c.answers = Untaught
    BY <1>1 DEF TaughtFrom, Scaffolded
  <1> DEFINE rows == ScaffoldRows(c)
             read == RowsOf(rows, n)
  <1>3. c # NoFile /\ t # NoFile
    <2>1. "limit" \in DOMAIN c /\ "limit" \in DOMAIN t
      BY <1>1 DEF Scaffolded, TaughtFrom
    <2>2. "limit" \notin DOMAIN NoFile
      BY DEF NoFile
    <2>3. QED
      BY <2>1, <2>2
  <1>4. Datasets[c] = Content(Rows(c)) /\ Datasets[t] = Content(Rows(t)) /\ t \in DOMAIN Datasets
    BY <1>3, DatasetFacts DEF Names
  <1>5. Datasets[c].rows = rows /\ Datasets[t].rows = Rows(t)
    BY <1>4, RowsByName DEF Content
  <1>6. RowsRead(t) = read
    BY <1>2, <1>5 DEF RowsRead
  <1>7. CASE t \in Scaffolded
    <2>1. n = 0
      BY <1>2, <1>7 DEF Scaffolded
    <2>2. t = c
      BY <1>2, <1>7, <1>1 DEF Scaffolded, TaughtFrom
    <2>3. read = Rows(t)
      BY <1>7, <2>1, <2>2, RowsByName DEF RowsOf
    <2>4. QED
      BY <1>3, <1>4, <1>5, <1>6, <2>3 DEF OnlySurfaces, SurfacesOf, Rewritten
  <1>8. CASE t \notin Scaffolded
    <2>1. Rows(t) = SurfacePass(read, a.faulty, a.first, a.second, GoldenQuery, Stamp)
      BY <1>2, <1>8, RowsByName
    <2>2. \A i \in DOMAIN read : Grounded(read[i])
      <3>1. Numbered(rows, c.seed, Size)
        BY ScaffoldsNumbered
      <3>2. DOMAIN rows = 1..Size /\ Size \in Nat
        BY <3>1, SizesAssumption DEF Numbered
      <3>3. n \in Nat
        BY SizesAssumption
      <3>4. PICK T : rows \in Seq(T)
        <4>1. Size \in 1..Size
          BY SizesAssumption
        <4>2. QED
          BY <3>1, <4>1, NumberedOK DEF RowsOK
      <3>5. \A i \in DOMAIN read : i \in 1..Size /\ read[i] = rows[i]
        <4> HIDE DEF rows
        <4>1. Len(rows) = Size
          BY <3>2, <3>4
        <4>2. CASE n = 0
          BY <3>2, <4>2 DEF RowsOf
        <4>3. CASE n # 0
          <5> DEFINE m == IF Size < n THEN Size ELSE n
                     r == SubSeq(rows, 1, m)
          <5>1. m \in 0..Size
            BY <3>2, <3>3
          <5>2. read = r
            BY <4>1, <4>3 DEF RowsOf, FirstOf
          <5> HIDE DEF m
          <5>3. DOMAIN r = 1..m /\ \A i \in 1..m : r[i] = rows[i]
            BY <3>4, <4>1, <5>1
          <5>4. QED
            BY <5>1, <5>2, <5>3, <3>2
        <4>4. QED
          BY <4>2, <4>3
      <3>6. QED
        BY <3>5, GeneratedGrounded
    <2>3. a.first \in Quirks /\ a.second \in Quirks
      BY AnswersAssumption
    <2> HIDE DEF read
    <2>4. SurfacesOf(read, Rows(t))
      BY <2>1, <2>2, <2>3, PassKeepsSkeletons
    <2>5. QED
      BY <1>3, <1>4, <1>5, <1>6, <2>4 DEF OnlySurfaces
  <1>9. QED
    BY <1>7, <1>8

\* Whatever the teacher answers of what the model lets it answer, the pass writes the rows it
\* read with nothing changed but the surfaces: turns, calls, results, slots and lists stay,
\* what was bold stays bold, only locked spans become bold, and an answer that abstained
\* still does, although one that did not may come to (teacher.py, validate.py verify_locked,
\* build_dataset.py 207-249).
THEOREM RewritesChangeSurfacesOnly == BuildSpec => OnlySurfacesChange
  <1>1. DatasetsInv /\ [BuildNext]_buildVars
          => [taught' # taught =>
                 taught' \in OnlySurfaces /\ pass = [read |-> TaughtFrom(taught', 0, Untaught),
                                                     limit |-> taught'.limit]]_buildVars
    <2> SUFFICES ASSUME DatasetsInv, [BuildNext]_buildVars, taught' # taught
                 PROVE  taught' \in OnlySurfaces /\ pass = [read |-> TaughtFrom(taught', 0, Untaught),
                                                            limit |-> taught'.limit]
      OBVIOUS
    <2>1. PICK answers \in Answers : TeachFinish(answers)
      BY DEF BuildNext, buildVars, GraphChanges, WriteSnapshot, Scaffold, TeachStart, TeachFails,
             SealStart, SealWrite, SealCrash, Push, ExportTrl, Train
    <2>2. pass \in [read : Scaffolded, limit : Limits]
      BY <2>1 DEF DatasetsInv, Contents, TeachFinish
    <2>3. PICK d \in Scaffolded, n \in Limits : pass = [read |-> d, limit |-> n]
      BY <2>2
    <2>4. taught' = TaughtFrom(d, n, answers)
      BY <2>1, <2>3 DEF TeachFinish
    <2>5. TaughtFrom(taught', 0, Untaught) = d /\ taught'.limit = n
      BY <2>4 DEF TaughtFrom, Scaffolded
    <2>6. taught' \in TaughtNames
      BY <2>4 DEF TaughtNames
    <2>7. QED
      BY <2>3, <2>5, <2>6, TaughtKeepsSkeletons
  <1>2. QED
    BY <1>1, DatasetsInvariant, PTL DEF BuildSpec, OnlySurfacesChange
=============================================================================
