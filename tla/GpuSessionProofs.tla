-------------------------- MODULE GpuSessionProofs --------------------------
(***************************************************************************)
(* For any number of sessions, benchmarks, boxes and scripts: what is said *)
(* of leaks, exit codes and startup scripts holds in every behaviour.      *)
(***************************************************************************)
EXTENDS GpuSession, TLAPS, WellFoundedInduction

\* A box bills unexcused only while its session is going to give it back, or
\* was killed.
Accounted(b) ==
    LET p == proc[boxes[b].owner]
    IN  boxes[b].excused \/ p.pc = "killed" \/ (p.pc \in {"work", "destroy"} /\ p.instance = b)
LeakInv == \A b \in Running : Accounted(b)

\* A session with one leg owns at most the box it knows of until it has seen
\* destroy() succeed, and none from then on.
Early == {"idle", "script", "pick", "create"}
ExitOf(s) ==
    /\ proc[s].leg = 1
    /\ proc[s].pc \in Early \cup {"exit 0"} => NoBoxOf(s)
    /\ proc[s].pc \in Early => proc[s].instance = NoId
    /\ proc[s].pc \in {"work", "destroy"} /\ proc[s].instance # NoId =>
           \A b \in Running : boxes[b].owner = s => b = proc[s].instance
    /\ proc[s].destroyed => proc[s].pc = "cleanup" /\ NoBoxOf(s)
ExitInv == \A s \in Singles : ExitOf(s)

\* A session that has always been alone finds the script it has just added, and
\* from then on the box boots from that one.
Alone == \A s, q \in Sessions : s # q /\ Alive(s) /\ Alive(q) => s \in overlapped
BootOf(s) ==
    /\ Alive(s) /\ proc[s].pc = "pick" => proc[s].added = lastScript /\ lastScript \in scripts
    /\ Alive(s) /\ proc[s].pc = "create" => proc[s].picked = proc[s].added
    /\ proc[s].pc \in Early => proc[s].instance = NoId
    /\ proc[s].instance <= lastBox
    /\ proc[s].instance \in Running => boxes[proc[s].instance].script = proc[s].added
BootInv == Alone /\ \A s \in Sessions \ overlapped : BootOf(s)

IInv == TypeOK /\ LeakInv /\ ExitInv /\ BootInv

LEMMA InitIInv == Init => IInv
  <1> SUFFICES ASSUME Init PROVE IInv
    OBVIOUS
  <1> USE DEF Init, NoId
  <1>1. Running = {} /\ boxes = [b \in Running |-> {}]
    BY DEF Running
  <1>2. \A s \in Sessions : proc[s] = Blank("idle") /\ ~Alive(s)
    BY DEF Alive, Over, Blank
  <1>3. TypeOK
    <2>1. boxes \in [Running -> Rented]
      BY <1>1 DEF Running
    <2>2. Blank("idle") \in Process
      BY DEF Blank, Process, PC
    <2>3. QED
      BY <1>1, <2>1, <2>2, ProviderAssumption DEF TypeOK
  <1>4. LeakInv /\ ExitInv
    BY <1>1, <1>2 DEF LeakInv, ExitInv, ExitOf, NoBoxOf, Blank, Sessions
  <1>5. BootInv
    BY <1>1, <1>2 DEF BootInv, Alone, BootOf, Blank
  <1>6. QED
    BY <1>3, <1>4, <1>5 DEF IInv

LEMMA MaxExists ==
  ASSUME NEW n \in Nat, NEW S, S \subseteq 1 .. n, S # {}
  PROVE  \E i \in S : \A j \in S : j <= i
  <1> DEFINE T == {n - i : i \in S}
  <1>1. T \subseteq Nat /\ T # {}
    <2>1. \A i \in S : n - i \in Nat
      OBVIOUS
    <2>2. PICK i \in S : TRUE
      OBVIOUS
    <2>3. n - i \in T
      BY <2>2
    <2>4. QED
      BY <2>1, <2>3
  <1>2. PICK x \in T : \A y \in T : ~(<<y, x>> \in OpToRel(<, Nat))
    BY <1>1, NatLessThanWellFounded, WFMin
  <1>3. PICK i \in S : x = n - i
    OBVIOUS
  <1>4. \A j \in S : j <= i
    <2> SUFFICES ASSUME NEW j \in S, ~(j <= i) PROVE FALSE
      OBVIOUS
    <2>1. n - j \in T /\ n - j \in Nat /\ x \in Nat /\ n - j < x
      BY <1>3
    <2>2. <<n - j, x>> \in OpToRel(<, Nat)
      BY <2>1 DEF OpToRel
    <2>3. QED
      BY <1>2, <2>1, <2>2
  <1>5. QED
    BY <1>4

LEMMA NewestIsLast ==
  ASSUME TypeOK, lastScript \in scripts
  PROVE  NewestScript = lastScript
  <1>1. scripts # {} /\ lastScript \in Nat /\ \A j \in scripts : j \in Nat /\ j <= lastScript
    BY ProviderAssumption DEF TypeOK
  <1>2. \A i \in scripts : (\A j \in scripts : j <= i) => i = lastScript
    BY <1>1
  <1>3. QED
    BY <1>1, <1>2 DEF NewestScript

LEMMA NewestType ==
  ASSUME TypeOK
  PROVE  NewestScript \in Script \cup {NoId}
  <1>1. CASE scripts = {}
    BY <1>1 DEF NewestScript
  <1>2. CASE scripts # {}
    <2>1. \E i \in scripts : \A j \in scripts : j <= i
      <3>1. lastScript \in Nat /\ scripts \subseteq 1 .. lastScript
        BY ProviderAssumption DEF TypeOK
      <3>2. QED
        BY <1>2, <3>1, MaxExists
    <2>2. NewestScript \in scripts
      BY <1>2, <2>1 DEF NewestScript
    <2>3. QED
      BY <2>2, ProviderAssumption DEF TypeOK, Script
  <1>3. QED
    BY <1>1, <1>2

-----------------------------------------------------------------------------
(* A session alone at what it does: nobody else has moved.                 *)

LEMMA Updated ==
  ASSUME TypeOK, NEW s \in Sessions, NEW p \in Process, proc' = [proc EXCEPT ![s] = p]
  PROVE  /\ proc' \in [Sessions -> Process]
         /\ proc'[s] = p
         /\ \A q \in Sessions : q # s => proc'[q] = proc[q]
  BY DEF TypeOK

LEMMA Fields ==
  ASSUME TypeOK, NEW s \in Sessions
  PROVE  /\ proc[s] \in Process
         /\ proc[s].pc \in PC /\ proc[s].leg \in 1 .. 2
         /\ proc[s].instance \in Box \cup {NoId}
         /\ proc[s].added \in Script \cup {NoId} /\ proc[s].picked \in Script \cup {NoId}
         /\ proc[s].worked \in SUBSET (1 .. 2) /\ proc[s].destroyed \in BOOLEAN
  BY DEF TypeOK, Process

LEMMA BlankFields ==
  \A pc : /\ Blank(pc).pc = pc /\ Blank(pc).leg = 1 /\ Blank(pc).instance = NoId
          /\ Blank(pc).destroyed = FALSE
  BY DEF Blank

LEMMA Blanks == \A pc \in PC : Blank(pc) \in Process
  BY DEF Blank, Process

\* What each step makes of its session.
LEMMA GotoMoves ==
  ASSUME TypeOK, NEW s \in Sessions, NEW pc, Goto(s, pc)
  PROVE  proc' = [proc EXCEPT ![s] = [proc[s] EXCEPT !.pc = pc]]
  BY DEF TypeOK, Process, Goto

LEMMA DestroyMoves ==
  ASSUME TypeOK, NEW s \in Sessions, NEW after, NEW flag, Destroy(s, after, flag)
  PROVE  proc' = [proc EXCEPT ![s] = [proc[s] EXCEPT !.pc = "cleanup", !.destroyed = flag]]
  BY DEF TypeOK, Process, Destroy

LEMMA Moves ==
  ASSUME TypeOK, NEW s \in Sessions
  PROVE  /\ AddScript(s) =>
                proc' = [proc EXCEPT ![s] = [proc[s] EXCEPT !.pc = "pick", !.added = lastScript']]
         /\ PickScript(s) =>
                proc' = [proc EXCEPT ![s] = [proc[s] EXCEPT !.pc = "create", !.picked = NewestScript]]
         /\ CreateReturns(s) =>
                proc' = [proc EXCEPT ![s] = [proc[s] EXCEPT !.pc = "work", !.instance = lastBox']]
         /\ WorkSucceeds(s) =>
                proc' = [proc EXCEPT ![s] = [proc[s] EXCEPT !.pc = "destroy",
                                                            !.worked = @ \cup {proc[s].leg}]]
  BY DEF TypeOK, Process, AddScript, PickScript, CreateReturns, WorkSucceeds

LEMMA NextLegMoves ==
  ASSUME TypeOK, NEW s \in Sessions, NextLeg(s)
  PROVE  proc' = [proc EXCEPT ![s] =
                     [proc[s] EXCEPT !.pc = "script", !.leg = proc[s].leg + 1,
                                     !.instance = NoId, !.added = NoId, !.picked = NoId]]
  BY DEF TypeOK, Process, NextLeg

\* Every step of a session leaves a process in its place.
LEMMA ProcType == ASSUME IInv, NEW s \in Sessions, Begin(s) \/ Step(s) \/ Kill(s)
                  PROVE  proc' \in [Sessions -> Process]
  <1> USE DEF IInv
  <1>1. ASSUME NEW p, proc' = [proc EXCEPT ![s] = p], p \in Process
        PROVE  proc' \in [Sessions -> Process]
    BY <1>1, Updated
  <1>2. \A pc \in PC : [proc[s] EXCEPT !.pc = pc] \in Process
    BY Fields DEF Process
  <1>3. ASSUME NEW pc \in PC, Goto(s, pc) PROVE proc' \in [Sessions -> Process]
    <2>1. proc' = [proc EXCEPT ![s] = [proc[s] EXCEPT !.pc = pc]]
      BY <1>3, GotoMoves
    <2>2. QED
      BY <1>1, <1>2, <2>1
  <1>4. CASE Begin(s) \/ CreateLost(s) \/ CreateFails(s) \/ WorkFails(s) \/ DestroySkipped(s)
    BY <1>3, <1>4 DEF Begin, CreateLost, CreateFails, WorkFails, DestroySkipped, PC
  <1>5. CASE AddScript(s)
    <2>1. lastScript' \in Script
      BY <1>5, ProviderAssumption DEF AddScript, TypeOK, Script
    <2>2. [proc[s] EXCEPT !.pc = "pick", !.added = lastScript'] \in Process
      BY <2>1, Fields DEF Process, PC
    <2>3. QED
      BY <1>1, <1>5, <2>2, Moves
  <1>6. CASE PickScript(s)
    <2>1. [proc[s] EXCEPT !.pc = "create", !.picked = NewestScript] \in Process
      BY NewestType, Fields DEF Process, PC
    <2>2. QED
      BY <1>1, <1>6, <2>1, Moves
  <1>7. CASE CreateReturns(s)
    <2>1. lastBox' \in Box
      BY <1>7, ProviderAssumption DEF CreateReturns, NewBox, TypeOK, Box
    <2>2. [proc[s] EXCEPT !.pc = "work", !.instance = lastBox'] \in Process
      BY <2>1, Fields DEF Process, PC
    <2>3. QED
      BY <1>1, <1>7, <2>2, Moves
  <1>8. CASE WorkSucceeds(s)
    <2>1. proc[s].worked \cup {proc[s].leg} \in SUBSET (1 .. 2) /\ "destroy" \in PC
      BY Fields DEF PC
    <2>2. [proc[s] EXCEPT !.pc = "destroy", !.worked = @ \cup {proc[s].leg}] \in Process
      BY <2>1, Fields DEF Process
    <2>3. QED
      BY <1>1, <1>8, <2>2, Moves
  <1>9. ASSUME NEW after, NEW flag \in BOOLEAN, Destroy(s, after, flag)
        PROVE  proc' \in [Sessions -> Process]
    <2>1. [proc[s] EXCEPT !.pc = "cleanup", !.destroyed = flag] \in Process
      BY Fields DEF Process, PC
    <2>2. proc' = [proc EXCEPT ![s] = [proc[s] EXCEPT !.pc = "cleanup", !.destroyed = flag]]
      BY <1>9, DestroyMoves
    <2>3. QED
      BY <1>1, <2>1, <2>2
  <1>10. CASE DestroyReturns(s) \/ DestroyRefused(s) \/ DestroyRaises(s)
    BY <1>9, <1>10, Fields DEF DestroyReturns, DestroyRefused, DestroyRaises
  <1>11. CASE NextLeg(s)
    <2>1. proc[s].leg + 1 \in 1 .. 2
      BY <1>11, Fields DEF NextLeg, Legs
    <2>2. [proc[s] EXCEPT !.pc = "script", !.leg = proc[s].leg + 1, !.instance = NoId,
                          !.added = NoId, !.picked = NoId] \in Process
      BY <2>1, Fields DEF Process, PC
    <2>3. QED
      BY <1>1, <1>11, <2>2, NextLegMoves
  <1>12. CASE End(s) \/ Kill(s)
    BY <1>1, <1>12, Blanks DEF End, Kill, PC
  <1>13. QED
    BY <1>4, <1>5, <1>6, <1>7, <1>8, <1>10, <1>11, <1>12 DEF Step

LEMMA OtherBoxes ==
  ASSUME TypeOK, NEW b
  PROVE  /\ DOMAIN Without(b) = Running \ {b} /\ Without(b) \in [Running \ {b} -> Rented]
         /\ \A c \in Running \ {b} : Without(b)[c] = boxes[c]
         /\ DOMAIN Excusing(b) = Running /\ Excusing(b) \in [Running -> Rented]
         /\ \A c \in Running : /\ Excusing(b)[c].owner = boxes[c].owner
                               /\ Excusing(b)[c].script = boxes[c].script
                               /\ boxes[c].excused \/ c = b => Excusing(b)[c].excused
  BY DEF Without, Excusing, TypeOK, Rented

LEMMA BoxesLeft ==
  ASSUME TypeOK, NEW b, boxes' \in {Without(b), Excusing(b)}
  PROVE  Running' \subseteq Running /\ boxes' \in [Running' -> Rented]
  <1>1. CASE boxes' = Without(b)
    <2>1. Running' = Running \ {b} /\ boxes' \in [Running \ {b} -> Rented]
      BY <1>1, OtherBoxes DEF Running
    <2>2. QED
      BY <2>1
  <1>2. CASE boxes' = Excusing(b)
    <2>1. Running' = Running /\ boxes' \in [Running -> Rented]
      BY <1>2, OtherBoxes DEF Running
    <2>2. QED
      BY <2>1
  <1>3. QED
    BY <1>1, <1>2

\* What a create, a teardown and a nuke leave.
LEMMA BoxAdded ==
  ASSUME TypeOK, NEW s \in Sessions, NEW lost \in BOOLEAN, NewBox(s, lost)
  PROVE  /\ lastBox' = lastBox + 1 /\ lastBox' \in Box /\ lastBox' \notin Running
         /\ Running' = Running \cup {lastBox'} /\ boxes' \in [Running' -> Rented]
         /\ \A c \in Running : boxes'[c] = boxes[c]
         /\ boxes'[lastBox'] = [owner |-> s, script |-> proc[s].picked, excused |-> lost]
  BY Fields, ProviderAssumption DEF TypeOK, NewBox, Running, Rented, Box

LEMMA Types == IInv /\ [Next]_vars => TypeOK'
  <1> SUFFICES ASSUME IInv, [Next]_vars PROVE TypeOK'
    OBVIOUS
  <1> USE ProviderAssumption DEF IInv
  <1>1. ASSUME NEW s \in Sessions, Begin(s) \/ PickScript(s) \/ CreateFails(s) \/ WorkSucceeds(s)
                                   \/ WorkFails(s) \/ DestroySkipped(s)
        PROVE  TypeOK'
    <2>1. proc' \in [Sessions -> Process]
      BY <1>1, ProcType DEF Step
    <2>2. UNCHANGED <<boxes, lastBox, scripts, lastScript, nukeList>> /\ overlapped' \subseteq Sessions
      BY <1>1 DEF Begin, PickScript, CreateFails, WorkSucceeds, WorkFails, DestroySkipped, TypeOK
    <2>3. QED
      BY <2>1, <2>2 DEF TypeOK, Running
  <1>2. ASSUME NEW s \in Sessions, AddScript(s) PROVE TypeOK'
    <2>1. lastScript' \in 0 .. MaxScripts /\ scripts' \subseteq 1 .. lastScript'
      BY <1>2 DEF AddScript, TypeOK
    <2>2. proc' \in [Sessions -> Process]
      BY <1>2, ProcType DEF Step
    <2>3. QED
      BY <1>2, <2>1, <2>2 DEF AddScript, TypeOK, Running
  <1>3. ASSUME NEW s \in Sessions, CreateReturns(s) \/ CreateLost(s) PROVE TypeOK'
    <2>1. PICK lost \in BOOLEAN : NewBox(s, lost)
      BY <1>3 DEF CreateReturns, CreateLost
    <2>2. proc' \in [Sessions -> Process]
      BY <1>3, ProcType DEF Step
    <2>3. /\ lastBox' \in 0 .. MaxBoxes /\ Running' \subseteq 1 .. lastBox'
          /\ boxes' \in [Running' -> Rented] /\ nukeList \subseteq 1 .. lastBox'
      <3>1. /\ lastBox' = lastBox + 1 /\ lastBox' \in Box
            /\ Running' = Running \cup {lastBox'} /\ boxes' \in [Running' -> Rented]
        BY <2>1, BoxAdded
      <3>2. QED
        BY <3>1 DEF TypeOK, Box
    <2>4. QED
      BY <2>1, <2>2, <2>3 DEF NewBox, TypeOK
  <1>4. ASSUME NEW s \in Sessions, DestroyReturns(s) \/ DestroyRefused(s) \/ DestroyRaises(s)
        PROVE  TypeOK'
    <2>1. boxes' \in {Without(proc[s].instance), Excusing(proc[s].instance)}
          /\ UNCHANGED <<lastBox, scripts, lastScript, overlapped, nukeList>>
      BY <1>4 DEF DestroyReturns, DestroyRefused, DestroyRaises, Destroy
    <2>2. Running' \subseteq Running /\ boxes' \in [Running' -> Rented]
      BY <2>1, BoxesLeft
    <2>3. proc' \in [Sessions -> Process]
      BY <1>4, ProcType DEF Step
    <2>4. QED
      BY <2>1, <2>2, <2>3 DEF TypeOK
  <1>5. ASSUME NEW s \in Sessions, NextLeg(s) \/ End(s) \/ Kill(s) PROVE TypeOK'
    <2>1. proc' \in [Sessions -> Process]
      BY <1>5, ProcType DEF Step
    <2>2. UNCHANGED <<boxes, lastBox, lastScript, overlapped, nukeList>> /\ scripts' \subseteq scripts
      BY <1>5 DEF NextLeg, End, Kill, RemoveScripts
    <2>3. QED
      BY <2>1, <2>2 DEF TypeOK, Running
  <1>6. CASE Nuke
    <2>1. Running' \subseteq Running /\ boxes' \in [Running' -> Rented]
      <3>1. boxes' = boxes \/ \E b : boxes' = Without(b)
        BY <1>6 DEF Nuke, NukeLists, NukeDestroys, NukeRefused, NukeRaises
      <3>2. CASE boxes' = boxes
        BY <3>2 DEF Running, TypeOK
      <3>3. QED
        BY <3>1, <3>2, BoxesLeft
    <2>2. nukeList' \subseteq 1 .. lastBox
      BY <1>6 DEF Nuke, NukeLists, NukeDestroys, NukeRefused, NukeRaises, Tagged, TypeOK
    <2>3. QED
      BY <1>6, <2>1, <2>2 DEF Nuke, NukeLists, NukeDestroys, NukeRefused, NukeRaises, TypeOK
  <1>7. CASE UNCHANGED vars
    BY <1>7 DEF vars, TypeOK, Running
  <1>8. QED
    BY <1>1, <1>2, <1>3, <1>4, <1>5, <1>6, <1>7 DEF Next, Step

\* The session's record before and after each of its steps.
LEMMA After ==
  ASSUME TypeOK, NEW s \in Sessions
  PROVE  /\ Begin(s) =>
                proc[s].pc = "idle" /\ proc'[s] = [proc[s] EXCEPT !.pc = "script"]
         /\ AddScript(s) =>
                /\ proc[s].pc = "script"
                /\ proc'[s] = [proc[s] EXCEPT !.pc = "pick", !.added = lastScript']
         /\ PickScript(s) =>
                /\ proc[s].pc = "pick"
                /\ proc'[s] = [proc[s] EXCEPT !.pc = "create", !.picked = NewestScript]
         /\ CreateReturns(s) =>
                /\ proc[s].pc = "create"
                /\ proc'[s] = [proc[s] EXCEPT !.pc = "work", !.instance = lastBox']
         /\ CreateLost(s) =>
                proc[s].pc = "create" /\ proc'[s] = [proc[s] EXCEPT !.pc = "destroy"]
         /\ CreateFails(s) =>
                /\ proc[s].pc \in {"script", "pick", "create"}
                /\ proc'[s] = [proc[s] EXCEPT !.pc = "destroy"]
         /\ WorkSucceeds(s) =>
                /\ proc[s].pc = "work"
                /\ proc'[s] = [proc[s] EXCEPT !.pc = "destroy", !.worked = @ \cup {proc[s].leg}]
         /\ WorkFails(s) =>
                proc[s].pc = "work" /\ proc'[s] = [proc[s] EXCEPT !.pc = "destroy"]
         /\ DestroySkipped(s) =>
                /\ proc[s].pc = "destroy" /\ proc[s].instance = NoId
                /\ proc'[s] = [proc[s] EXCEPT !.pc = "cleanup"]
         /\ NextLeg(s) =>
                /\ proc[s].pc = "cleanup" /\ proc[s].leg < Legs(s)
                /\ proc'[s] = [proc[s] EXCEPT !.pc = "script", !.leg = proc[s].leg + 1,
                                  !.instance = NoId, !.added = NoId, !.picked = NoId]
         /\ End(s) =>
                /\ proc[s].pc = "cleanup"
                /\ proc'[s] = Blank(IF Success(s) THEN "exit 0" ELSE "exit 1")
         /\ Kill(s) => Alive(s) /\ proc'[s] = Blank("killed")
  <1> USE DEF At
  <1>1. ASSUME NEW p, proc' = [proc EXCEPT ![s] = p] PROVE proc'[s] = p
    BY <1>1 DEF TypeOK
  <1>2. ASSUME NEW pc, Goto(s, pc) PROVE proc'[s] = [proc[s] EXCEPT !.pc = pc]
    BY <1>1, <1>2, GotoMoves
  <1>3. /\ Begin(s) => proc[s].pc = "idle" /\ proc'[s] = [proc[s] EXCEPT !.pc = "script"]
        /\ CreateLost(s) => proc[s].pc = "create" /\ proc'[s] = [proc[s] EXCEPT !.pc = "destroy"]
        /\ CreateFails(s) => /\ proc[s].pc \in {"script", "pick", "create"}
                             /\ proc'[s] = [proc[s] EXCEPT !.pc = "destroy"]
        /\ WorkFails(s) => proc[s].pc = "work" /\ proc'[s] = [proc[s] EXCEPT !.pc = "destroy"]
        /\ DestroySkipped(s) => /\ proc[s].pc = "destroy" /\ proc[s].instance = NoId
                                /\ proc'[s] = [proc[s] EXCEPT !.pc = "cleanup"]
    BY <1>2 DEF Begin, CreateLost, CreateFails, WorkFails, DestroySkipped
  <1>4. AddScript(s) => /\ proc[s].pc = "script"
                        /\ proc'[s] = [proc[s] EXCEPT !.pc = "pick", !.added = lastScript']
    BY <1>1, Moves DEF AddScript
  <1>5. PickScript(s) => /\ proc[s].pc = "pick"
                         /\ proc'[s] = [proc[s] EXCEPT !.pc = "create", !.picked = NewestScript]
    BY <1>1, Moves DEF PickScript
  <1>6. CreateReturns(s) => /\ proc[s].pc = "create"
                            /\ proc'[s] = [proc[s] EXCEPT !.pc = "work", !.instance = lastBox']
    BY <1>1, Moves DEF CreateReturns
  <1>7. WorkSucceeds(s) => /\ proc[s].pc = "work"
                           /\ proc'[s] = [proc[s] EXCEPT !.pc = "destroy",
                                                         !.worked = @ \cup {proc[s].leg}]
    BY <1>1, Moves DEF WorkSucceeds
  <1>8. NextLeg(s) => /\ proc[s].pc = "cleanup" /\ proc[s].leg < Legs(s)
                      /\ proc'[s] = [proc[s] EXCEPT !.pc = "script", !.leg = proc[s].leg + 1,
                                        !.instance = NoId, !.added = NoId, !.picked = NoId]
    BY <1>1, NextLegMoves DEF NextLeg
  <1>9. /\ End(s) => /\ proc[s].pc = "cleanup"
                     /\ proc'[s] = Blank(IF Success(s) THEN "exit 0" ELSE "exit 1")
        /\ Kill(s) => Alive(s) /\ proc'[s] = Blank("killed")
    BY <1>1 DEF End, Kill
  <1>10. QED
    BY <1>3, <1>4, <1>5, <1>6, <1>7, <1>8, <1>9

LEMMA AfterDestroy ==
  ASSUME TypeOK, NEW s \in Sessions, DestroyReturns(s) \/ DestroyRefused(s) \/ DestroyRaises(s)
  PROVE  /\ proc[s].pc = "destroy" /\ proc[s].instance # NoId
         /\ \E flag \in BOOLEAN :
                /\ proc'[s] = [proc[s] EXCEPT !.pc = "cleanup", !.destroyed = flag]
                /\ flag => proc[s].destroyed
                           \/ (proc[s].instance \in Running /\ boxes' = Without(proc[s].instance))
         /\ boxes' \in {Without(proc[s].instance), Excusing(proc[s].instance)}
  <1>1. ASSUME NEW after, NEW flag, Destroy(s, after, flag)
        PROVE  /\ proc[s].pc = "destroy" /\ proc[s].instance # NoId /\ boxes' = after
               /\ proc'[s] = [proc[s] EXCEPT !.pc = "cleanup", !.destroyed = flag]
    BY <1>1, DestroyMoves DEF Destroy, At, TypeOK
  <1>2. proc[s].destroyed \in BOOLEAN
    BY Fields
  <1>3. CASE DestroyReturns(s)
    BY <1>1, <1>3 DEF DestroyReturns
  <1>4. CASE DestroyRefused(s)
    BY <1>1, <1>4 DEF DestroyRefused
  <1>5. CASE DestroyRaises(s)
    BY <1>1, <1>2, <1>5 DEF DestroyRaises
  <1>6. QED
    BY <1>3, <1>4, <1>5

-----------------------------------------------------------------------------
(* Boxes and processes over a step.                                        *)

\* A box that bills after a step did so before, in the same hands, or has just
\* been created.
Inherited(b) ==
    /\ b \in Running
    /\ boxes'[b].owner = boxes[b].owner /\ boxes'[b].script = boxes[b].script
    /\ boxes[b].excused => boxes'[b].excused
Created(b) ==
    \E s \in Sessions :
        /\ At(s, "create") /\ b = lastBox' /\ b \in Box /\ b \notin Running
        /\ boxes'[b].owner = s /\ boxes'[b].script = proc[s].picked
        /\ CreateReturns(s) \/ (CreateLost(s) /\ boxes'[b].excused)

LEMMA BoxesKept ==
  ASSUME IInv, [Next]_vars, NEW b \in Running'
  PROVE  Inherited(b) \/ Created(b)
  <1> USE DEF IInv
  <1>1. CASE UNCHANGED boxes
    BY <1>1 DEF Inherited, Running
  <1>2. ASSUME NEW c, boxes' \in {Without(c), Excusing(c)} PROVE Inherited(b)
    <2>1. CASE boxes' = Without(c)
      <3>1. Running' = Running \ {c}
        BY <2>1, OtherBoxes DEF Running
      <3>2. boxes'[b] = boxes[b]
        BY <2>1, <3>1, OtherBoxes
      <3>3. QED
        BY <3>1, <3>2 DEF Inherited
    <2>2. CASE boxes' = Excusing(c)
      <3>1. Running' = Running
        BY <2>2, OtherBoxes DEF Running
      <3>2. /\ boxes'[b].owner = boxes[b].owner /\ boxes'[b].script = boxes[b].script
            /\ boxes[b].excused => boxes'[b].excused
        BY <2>2, <3>1, OtherBoxes
      <3>3. QED
        BY <3>1, <3>2 DEF Inherited
    <2>3. QED
      BY <1>2, <2>1, <2>2
  <1>3. ASSUME NEW s \in Sessions, CreateReturns(s) \/ CreateLost(s)
        PROVE  Inherited(b) \/ Created(b)
    <2>1. At(s, "create") /\ \E lost \in BOOLEAN : NewBox(s, lost) /\ (~lost => CreateReturns(s))
                                                   /\ (lost => CreateLost(s))
      BY <1>3 DEF CreateReturns, CreateLost
    <2>2. PICK lost \in BOOLEAN : NewBox(s, lost) /\ (~lost => CreateReturns(s)) /\ (lost => CreateLost(s))
      BY <2>1
    <2>3. /\ Running' = Running \cup {lastBox'} /\ lastBox' \notin Running /\ lastBox' \in Box
          /\ \A c \in Running : boxes'[c] = boxes[c]
          /\ boxes'[lastBox'] = [owner |-> s, script |-> proc[s].picked, excused |-> lost]
      BY <2>2, BoxAdded
    <2>4. CASE b \in Running
      BY <2>3, <2>4 DEF Inherited
    <2>5. CASE b = lastBox'
      BY <2>1, <2>2, <2>3, <2>5 DEF Created
    <2>6. QED
      BY <2>3, <2>4, <2>5
  <1>4. ASSUME NEW s \in Sessions, DestroyReturns(s) \/ DestroyRefused(s) \/ DestroyRaises(s)
        PROVE  Inherited(b)
    <2>1. boxes' \in {Without(proc[s].instance), Excusing(proc[s].instance)}
      BY <1>4 DEF DestroyReturns, DestroyRefused, DestroyRaises, Destroy
    <2>2. QED
      BY <1>2, <2>1
  <1>5. ASSUME NEW s \in Sessions, Begin(s) \/ Step(s) \/ Kill(s)
        PROVE  UNCHANGED boxes \/ CreateReturns(s) \/ CreateLost(s)
               \/ DestroyReturns(s) \/ DestroyRefused(s) \/ DestroyRaises(s)
    BY <1>5 DEF Step, Begin, AddScript, PickScript, CreateFails, WorkSucceeds, WorkFails,
                DestroySkipped, NextLeg, End, RemoveScripts, Kill
  <1>6. CASE Nuke
    <2>1. UNCHANGED boxes \/ \E c : boxes' = Without(c)
      BY <1>6 DEF Nuke, NukeLists, NukeDestroys, NukeRefused, NukeRaises
    <2>2. QED
      BY <1>1, <1>2, <2>1
  <1>7. QED
    BY <1>1, <1>3, <1>4, <1>5, <1>6 DEF Next, vars

\* A step is one session's, and every other process stays as it is.
LEMMA OneMoves ==
  ASSUME IInv, [Next]_vars
  PROVE  \/ \E s \in Sessions : /\ Begin(s) \/ Step(s) \/ Kill(s)
                                /\ \A q \in Sessions : q # s => proc'[q] = proc[q]
         \/ (Nuke \/ UNCHANGED vars) /\ UNCHANGED <<proc, scripts, lastScript, overlapped>>
  <1> USE DEF IInv
  <1>1. ASSUME NEW s \in Sessions, Begin(s) \/ Step(s) \/ Kill(s)
        PROVE  \A q \in Sessions : q # s => proc'[q] = proc[q]
    <2>1. \E p : proc' = [proc EXCEPT ![s] = p]
      <3>1. ASSUME NEW pc, Goto(s, pc) PROVE \E p : proc' = [proc EXCEPT ![s] = p]
        BY <3>1, GotoMoves
      <3>2. ASSUME NEW after, NEW flag, Destroy(s, after, flag)
            PROVE  \E p : proc' = [proc EXCEPT ![s] = p]
        BY <3>2, DestroyMoves
      <3>3. CASE Begin(s) \/ CreateLost(s) \/ CreateFails(s) \/ WorkFails(s) \/ DestroySkipped(s)
        BY <3>1, <3>3 DEF Begin, CreateLost, CreateFails, WorkFails, DestroySkipped
      <3>4. CASE DestroyReturns(s) \/ DestroyRefused(s) \/ DestroyRaises(s)
        BY <3>2, <3>4 DEF DestroyReturns, DestroyRefused, DestroyRaises
      <3>5. CASE AddScript(s) \/ PickScript(s) \/ CreateReturns(s) \/ WorkSucceeds(s)
        BY <3>5, Moves
      <3>6. CASE NextLeg(s)
        BY <3>6, NextLegMoves
      <3>7. CASE End(s) \/ Kill(s)
        BY <3>7 DEF End, Kill
      <3>8. QED
        BY <1>1, <3>3, <3>4, <3>5, <3>6, <3>7 DEF Step
    <2>2. QED
      BY <2>1 DEF TypeOK
  <1>2. ASSUME Nuke \/ UNCHANGED vars
        PROVE  UNCHANGED <<proc, scripts, lastScript, overlapped>>
    BY <1>2 DEF Nuke, NukeLists, NukeDestroys, NukeRefused, NukeRaises, vars
  <1>3. QED
    BY <1>1, <1>2 DEF Next

-----------------------------------------------------------------------------
(* The three invariants over a step.                                       *)

LEMMA Owners == IInv => \A b \in Running : boxes[b].owner \in Sessions /\ b \in Box /\ b # NoId
  BY ProviderAssumption DEF IInv, TypeOK, Rented, Box, NoId

LEMMA LeakStep == IInv /\ [Next]_vars => LeakInv'
  <1> SUFFICES ASSUME IInv, [Next]_vars, NEW b \in Running' PROVE Accounted(b)'
    BY DEF LeakInv
  <1> USE DEF IInv
  <1>1. CASE Created(b)
    <2>1. PICK s \in Sessions :
             /\ boxes'[b].owner = s /\ b = lastBox'
             /\ CreateReturns(s) \/ (CreateLost(s) /\ boxes'[b].excused)
      BY <1>1 DEF Created
    <2>2. CASE CreateReturns(s)
      <3>1. proc'[s].pc = "work" /\ proc'[s].instance = lastBox'
        <4>1. proc' = [proc EXCEPT ![s] = [proc[s] EXCEPT !.pc = "work", !.instance = lastBox']]
          BY <2>2, Moves
        <4>2. QED
          BY <4>1 DEF TypeOK, Process
      <3>2. QED
        BY <2>1, <3>1 DEF Accounted
    <2>3. QED
      BY <2>1, <2>2 DEF Accounted
  <1>2. CASE Inherited(b)
    <2> DEFINE s == boxes[b].owner
    <2>1. /\ s \in Sessions /\ b # NoId /\ boxes'[b].owner = s /\ Accounted(b)
          /\ boxes[b].excused => boxes'[b].excused
      BY <1>2, Owners DEF Inherited, LeakInv
    <2>2. CASE proc'[s] = proc[s]
      BY <2>1, <2>2 DEF Accounted
    <2>3. CASE proc'[s] # proc[s]
      <3>1. Begin(s) \/ Step(s) \/ Kill(s)
        BY <2>1, <2>3, OneMoves
      <3>2. CASE boxes[b].excused
        BY <2>1, <3>2 DEF Accounted
      <3>3. CASE ~boxes[b].excused
        <4>1. /\ proc[s].pc = "killed" \/ proc[s].pc \in {"work", "destroy"}
              /\ proc[s].pc # "killed" => proc[s].instance = b
          BY <2>1, <3>3 DEF Accounted
        <4>2. CASE Kill(s)
          <5>1. proc'[s].pc = "killed"
            BY <2>1, <4>2 DEF Kill, Blank, TypeOK
          <5>2. QED
            BY <2>1, <5>1 DEF Accounted
        <4>3. CASE WorkSucceeds(s) \/ WorkFails(s)
          <5>1. proc'[s].pc = "destroy" /\ proc'[s].instance = proc[s].instance /\ proc[s].pc = "work"
            BY <2>1, <4>3 DEF WorkSucceeds, WorkFails, Goto, At, TypeOK, Process
          <5>2. QED
            BY <2>1, <4>1, <5>1 DEF Accounted
        <4>4. CASE DestroyReturns(s) \/ DestroyRefused(s) \/ DestroyRaises(s)
          <5>1. boxes' \in {Without(b), Excusing(b)} /\ proc[s].pc = "destroy"
            BY <4>1, <4>4 DEF DestroyReturns, DestroyRefused, DestroyRaises, Destroy, At
          <5>2. boxes' # Without(b)
            BY OtherBoxes DEF Running
          <5>3. boxes'[b].excused
            BY <1>2, <5>1, <5>2, OtherBoxes DEF Inherited
          <5>4. QED
            BY <5>3 DEF Accounted
        <4>5. QED
          BY <2>1, <3>1, <4>1, <4>2, <4>3, <4>4
          DEF Begin, Step, At, AddScript, PickScript, CreateReturns, CreateLost, CreateFails,
              DestroySkipped, NextLeg, End
      <3>4. QED
        BY <3>2, <3>3
    <2>4. QED
      BY <2>2, <2>3
  <1>3. QED
    BY <1>1, <1>2, BoxesKept

LEMMA ExitKept ==
  ASSUME NEW s, ExitOf(s), proc'[s] = proc[s],
         \A b \in Running' : boxes'[b].owner = s => b \in Running /\ boxes[b].owner = s
  PROVE  ExitOf(s)'
  BY DEF ExitOf, NoBoxOf

LEMMA ExitStep == IInv /\ [Next]_vars => ExitInv'
  <1> SUFFICES ASSUME IInv, [Next]_vars, NEW s \in Singles PROVE ExitOf(s)'
    BY DEF ExitInv
  <1> USE DEF IInv
  <1>1. /\ s \in Sessions /\ s \notin Benchmarks /\ Legs(s) = 1
        /\ ExitOf(s) /\ proc[s].leg = 1 /\ proc[s] \in Process
    BY ProviderAssumption, Fields DEF Sessions, ExitInv, ExitOf, Legs
  <1>2. ASSUME NEW b \in Running', boxes'[b].owner = s, ~(b \in Running /\ boxes[b].owner = s)
        PROVE  /\ proc[s].pc = "create" /\ b = lastBox' /\ b \in Box
               /\ CreateReturns(s) \/ CreateLost(s)
    <2>1. Created(b)
      BY <1>2, BoxesKept DEF Inherited
    <2>2. QED
      BY <1>2, <2>1 DEF Created, At
  <1>3. CASE proc'[s] = proc[s]
    <2>1. ~CreateReturns(s) /\ ~CreateLost(s)
      BY <1>1, <1>3, After DEF Process
    <2>2. QED
      BY <1>1, <1>2, <1>3, <2>1, ExitKept
  <1>4. CASE proc'[s] # proc[s]
    <2>1. Begin(s) \/ Step(s) \/ Kill(s)
      BY <1>1, <1>4, OneMoves
    <2>2. ~CreateReturns(s) /\ ~CreateLost(s) /\ NoBoxOf(s) => NoBoxOf(s)'
      BY <1>2 DEF NoBoxOf
    <2>3. proc[s].destroyed => proc[s].pc = "cleanup"
      BY <1>1 DEF ExitOf
    <2>4. CASE Begin(s) \/ AddScript(s) \/ PickScript(s)
      <3>1. /\ proc[s].pc \in {"idle", "script", "pick"} /\ proc'[s].pc \in {"script", "pick", "create"}
            /\ proc'[s].leg = 1 /\ proc'[s].destroyed = proc[s].destroyed
            /\ proc'[s].instance = proc[s].instance
        BY <1>1, <2>4, After DEF Process
      <3>2. NoBoxOf(s)' /\ proc[s].instance = NoId
        BY <1>1, <2>2, <3>1, After DEF ExitOf, Early
      <3>3. QED
        BY <2>3, <3>1, <3>2 DEF ExitOf
    <2>5. CASE CreateReturns(s)
      <3>1. /\ proc[s].pc = "create" /\ proc'[s].pc = "work" /\ proc'[s].instance = lastBox'
            /\ proc'[s].leg = 1 /\ proc'[s].destroyed = proc[s].destroyed
        BY <1>1, <2>5, After DEF Process
      <3>2. NoBoxOf(s)
        BY <1>1, <3>1 DEF ExitOf, Early
      <3>3. \A b \in Running' : boxes'[b].owner = s => b = lastBox'
        BY <1>2, <3>2 DEF NoBoxOf
      <3>4. QED
        BY <2>3, <3>1, <3>3 DEF ExitOf, Early
    <2>6. CASE CreateLost(s) \/ CreateFails(s)
      <3>1. /\ proc[s].pc \in {"script", "pick", "create"} /\ proc'[s].pc = "destroy"
            /\ proc'[s].leg = 1 /\ proc'[s].destroyed = proc[s].destroyed
            /\ proc'[s].instance = proc[s].instance
        BY <1>1, <2>6, After DEF Process
      <3>2. proc[s].instance = NoId
        BY <1>1, <3>1 DEF ExitOf, Early
      <3>3. QED
        BY <2>3, <3>1, <3>2 DEF ExitOf, Early
    <2>7. CASE WorkSucceeds(s) \/ WorkFails(s)
      <3>1. /\ proc[s].pc = "work" /\ proc'[s].pc = "destroy"
            /\ proc'[s].leg = 1 /\ proc'[s].destroyed = proc[s].destroyed
            /\ proc'[s].instance = proc[s].instance
        BY <1>1, <2>7, After DEF Process
      <3>2. \A b \in Running' : boxes'[b].owner = s => b \in Running /\ boxes[b].owner = s
        BY <1>2, <3>1
      <3>3. QED
        BY <1>1, <2>3, <3>1, <3>2 DEF ExitOf, Early
    <2>8. CASE DestroySkipped(s)
      <3>1. /\ proc[s].pc = "destroy" /\ proc'[s].pc = "cleanup"
            /\ proc'[s].leg = 1 /\ proc'[s].destroyed = proc[s].destroyed
        BY <1>1, <2>8, After DEF Process
      <3>2. QED
        BY <2>3, <3>1 DEF ExitOf, Early
    <2>9. CASE DestroyReturns(s) \/ DestroyRefused(s) \/ DestroyRaises(s)
      <3>1. PICK flag \in BOOLEAN :
                /\ proc'[s] = [proc[s] EXCEPT !.pc = "cleanup", !.destroyed = flag]
                /\ flag => proc[s].destroyed
                           \/ (proc[s].instance \in Running /\ boxes' = Without(proc[s].instance))
        BY <1>1, <2>9, AfterDestroy
      <3>2. proc[s].pc = "destroy" /\ proc[s].instance # NoId /\ ~proc[s].destroyed
        BY <1>1, <2>3, <2>9, AfterDestroy
      <3>3. proc'[s].pc = "cleanup" /\ proc'[s].leg = 1 /\ proc'[s].destroyed = flag
        BY <1>1, <3>1 DEF Process
      <3>4. flag => NoBoxOf(s)'
        <4> SUFFICES ASSUME flag, NEW b \in Running', boxes'[b].owner = s PROVE FALSE
          BY DEF NoBoxOf
        <4>1. boxes' = Without(proc[s].instance)
          BY <3>1, <3>2
        <4>2. Running' = Running \ {proc[s].instance}
          BY <4>1, OtherBoxes DEF Running
        <4>3. b \in Running /\ boxes[b].owner = s
          BY <1>2, <3>2
        <4>4. QED
          BY <1>1, <3>2, <4>2, <4>3 DEF ExitOf
      <3>5. QED
        BY <3>3, <3>4 DEF ExitOf, Early
    <2>10. CASE End(s)
      <3>1. /\ proc[s].pc = "cleanup" /\ proc'[s] = Blank(IF Success(s) THEN "exit 0" ELSE "exit 1")
            /\ ~CreateReturns(s) /\ ~CreateLost(s)
        BY <1>1, <2>10, After
      <3>2. Success(s) => NoBoxOf(s)'
        BY <1>1, <2>2, <3>1 DEF Success, ExitOf
      <3>3. /\ proc'[s].pc \in {"exit 0", "exit 1"} /\ (proc'[s].pc = "exit 0" => Success(s))
            /\ proc'[s].leg = 1 /\ proc'[s].destroyed = FALSE
        <4>1. CASE Success(s)
          BY <3>1, <4>1, BlankFields
        <4>2. CASE ~Success(s)
          BY <3>1, <4>2, BlankFields
        <4>3. QED
          BY <4>1, <4>2
      <3>4. QED
        BY <3>2, <3>3 DEF ExitOf, Early
    <2>11. CASE Kill(s)
      <3>1. proc'[s].pc = "killed" /\ proc'[s].leg = 1 /\ proc'[s].destroyed = FALSE
        <4>1. proc'[s] = Blank("killed")
          BY <1>1, <2>11, After
        <4>2. QED
          BY <4>1, BlankFields
      <3>2. QED
        BY <3>1 DEF ExitOf, Early
    <2>12. ~NextLeg(s)
      BY <1>1 DEF NextLeg
    <2>13. QED
      BY <2>1, <2>4, <2>5, <2>6, <2>7, <2>8, <2>9, <2>10, <2>11, <2>12 DEF Step
  <1>5. QED
    BY <1>3, <1>4

\* Two sessions are alive at once only after one has begun beside the other.
LEMMA AloneStep == IInv /\ [Next]_vars => Alone'
  <1> SUFFICES ASSUME IInv, [Next]_vars, NEW s \in Sessions, NEW q \in Sessions, s # q,
                      Alive(s)', Alive(q)'
               PROVE  s \in overlapped'
    BY DEF Alone
  <1> USE DEF IInv
  <1>1. ASSUME NEW t \in Sessions, proc'[t] # proc[t], Alive(t)', ~Alive(t)
        PROVE  Begin(t)
    <2>1. Begin(t) \/ Step(t) \/ Kill(t)
      BY <1>1, OneMoves
    <2>2. Step(t) \/ Kill(t) => proc[t].pc \notin {"idle"} \cup Over
      BY After, AfterDestroy DEF Step, Over, Alive
    <2>3. QED
      BY <1>1, <2>1, <2>2 DEF Alive
  <1>2. ASSUME NEW t \in Sessions, Begin(t) PROVE
           /\ ~Alive(t) /\ Alive(t)'
           /\ \A r \in Sessions : r # t /\ Alive(r) => {r, t} \subseteq overlapped'
    <2>1. ~Alive(t) /\ Alive(t)'
      <3>1. proc[t].pc = "idle" /\ proc'[t] = [proc[t] EXCEPT !.pc = "script"] /\ proc[t] \in Process
        BY <1>2, After, Fields
      <3>2. QED
        BY <3>1 DEF Alive, Over, Process
    <2>2. QED
      BY <1>2, <2>1 DEF Begin
  <1>3. overlapped \subseteq overlapped'
    BY OneMoves
    DEF Begin, Step, Kill, AddScript, PickScript, CreateReturns, CreateLost, CreateFails, NewBox,
        WorkSucceeds, WorkFails, DestroySkipped, DestroyReturns, DestroyRefused, DestroyRaises,
        Destroy, NextLeg, End, RemoveScripts
  <1>4. CASE Alive(s) /\ Alive(q)
    BY <1>3, <1>4 DEF BootInv, Alone
  <1>5. CASE ~Alive(s)
    <2>1. proc'[s] # proc[s]
      BY <1>5 DEF Alive
    <2>2. Begin(s)
      BY <1>1, <1>5, <2>1
    <2>3. proc'[q] = proc[q]
      BY <2>2 DEF Begin, Goto, TypeOK
    <2>4. Alive(q)
      BY <2>3 DEF Alive
    <2>5. QED
      BY <1>2, <2>2, <2>4
  <1>6. CASE ~Alive(q)
    <2>1. proc'[q] # proc[q]
      BY <1>6 DEF Alive
    <2>2. Begin(q)
      BY <1>1, <1>6, <2>1
    <2>3. proc'[s] = proc[s]
      BY <2>2 DEF Begin, Goto, TypeOK
    <2>4. Alive(s)
      BY <2>3 DEF Alive
    <2>5. QED
      BY <1>2, <2>2, <2>4
  <1>7. QED
    BY <1>4, <1>5, <1>6

LEMMA BootStep == IInv /\ [Next]_vars => BootInv'
  <1> SUFFICES ASSUME IInv, [Next]_vars, NEW s \in Sessions, s \notin overlapped'
               PROVE  BootOf(s)'
    BY AloneStep DEF BootInv
  <1> USE DEF IInv
  <1>1. s \notin overlapped /\ BootOf(s) /\ proc[s] \in Process
    <2>1. overlapped \subseteq overlapped'
      BY OneMoves
      DEF Begin, Step, Kill, AddScript, PickScript, CreateReturns, CreateLost, CreateFails, NewBox,
          WorkSucceeds, WorkFails, DestroySkipped, DestroyReturns, DestroyRefused, DestroyRaises,
          Destroy, NextLeg, End, RemoveScripts
    <2>2. QED
      BY <2>1, Fields DEF BootInv
  <1>2. proc[s].instance \in Nat /\ lastBox \in Nat /\ proc[s].instance <= lastBox
    BY <1>1, Fields, ProviderAssumption DEF BootOf, TypeOK, Box, NoId
  <1>3. lastBox' \in Nat /\ lastBox <= lastBox'
    <2>1. lastBox' = lastBox \/ \E t \in Sessions, lost \in BOOLEAN : NewBox(t, lost)
      BY OneMoves
      DEF Begin, Step, Kill, AddScript, PickScript, CreateReturns, CreateLost, CreateFails,
          WorkSucceeds, WorkFails, DestroySkipped, DestroyReturns, DestroyRefused, DestroyRaises,
          Destroy, NextLeg, End, RemoveScripts, Nuke, NukeLists, NukeDestroys, NukeRefused,
          NukeRaises, vars
    <2>2. lastBox' = lastBox \/ lastBox' = lastBox + 1
      BY <2>1 DEF NewBox
    <2>3. QED
      BY <1>2, <2>2
  <1>4. proc[s].instance \in Running' => Inherited(proc[s].instance)
    <2> SUFFICES ASSUME proc[s].instance \in Running', Created(proc[s].instance) PROVE FALSE
      BY BoxesKept
    <2>1. PICK t \in Sessions : CreateReturns(t) \/ CreateLost(t)
      BY DEF Created
    <2>2. lastBox' = lastBox + 1 /\ proc[s].instance = lastBox'
      BY <2>1 DEF Created, CreateReturns, CreateLost, NewBox
    <2>3. QED
      BY <1>2, <2>2
  <1>5. proc[s].instance \in Running' => boxes'[proc[s].instance].script = proc[s].added
    BY <1>1, <1>4 DEF Inherited, BootOf
  <1>6. NoId \notin Running' /\ NoId <= lastBox'
    BY <1>3, Types, ProviderAssumption DEF TypeOK, NoId
  <1>7. CASE proc'[s] = proc[s]
    <2>1. Alive(s) /\ proc[s].pc = "pick" => UNCHANGED <<scripts, lastScript>>
      <3> SUFFICES ASSUME Alive(s), proc[s].pc = "pick", NEW t \in Sessions,
                          Begin(t) \/ Step(t) \/ Kill(t)
                   PROVE  UNCHANGED <<scripts, lastScript>>
        BY OneMoves
      <3>1. ~Begin(t) /\ (t # s => ~Alive(t))
        BY <1>1 DEF Begin, BootInv, Alone, At
      <3>2. CASE t = s
        <4>1. PickScript(s) \/ CreateFails(s) \/ Kill(s)
          BY <3>1, <3>2, After, AfterDestroy DEF Step
        <4>2. QED
          BY <4>1 DEF PickScript, CreateFails, Kill
      <3>3. CASE t # s
        <4>1. Step(t) \/ Kill(t) => proc[t].pc \notin {"idle"} \cup Over
          BY After, AfterDestroy DEF Step, Over, Alive
        <4>2. QED
          BY <3>1, <3>3, <4>1 DEF Alive
      <3>4. QED
        BY <3>2, <3>3
    <2>2. Alive(s)' = Alive(s)
      BY <1>7 DEF Alive
    <2>3. QED
      BY <1>1, <1>2, <1>3, <1>5, <1>7, <2>1, <2>2 DEF BootOf
  <1>8. CASE proc'[s] # proc[s]
    <2>1. Begin(s) \/ Step(s) \/ Kill(s)
      BY <1>8, OneMoves
    <2>2. CASE Begin(s)
      <3>1. proc[s].pc = "idle" /\ proc'[s] = [proc[s] EXCEPT !.pc = "script"]
        BY <2>2, After
      <3>2. QED
        BY <1>1, <1>2, <1>3, <1>5, <3>1 DEF BootOf, Process, Early
    <2>3. CASE AddScript(s)
      <3>1. /\ proc[s].pc = "script" /\ proc'[s] = [proc[s] EXCEPT !.pc = "pick", !.added = lastScript']
            /\ lastScript' \in scripts'
        BY <2>3, After DEF AddScript
      <3>2. /\ proc'[s].pc = "pick" /\ proc'[s].added = lastScript'
            /\ proc'[s].instance = proc[s].instance /\ proc[s].instance = NoId
        BY <1>1, <3>1 DEF BootOf, Process, Early
      <3>3. QED
        BY <1>2, <1>3, <1>6, <3>1, <3>2 DEF BootOf
    <2>4. CASE PickScript(s)
      <3>1. /\ proc[s].pc = "pick" /\ Alive(s)
            /\ proc'[s] = [proc[s] EXCEPT !.pc = "create", !.picked = NewestScript]
        BY <2>4, After DEF Alive, Over
      <3>2. NewestScript = proc[s].added /\ proc[s].instance = NoId
        BY <1>1, <3>1, NewestIsLast DEF BootOf, Early
      <3>3. /\ proc'[s].pc = "create" /\ proc'[s].picked = proc'[s].added
            /\ proc'[s].instance = proc[s].instance
        BY <1>1, <3>1, <3>2 DEF Process
      <3>4. QED
        BY <1>2, <1>3, <1>6, <3>2, <3>3 DEF BootOf
    <2>5. CASE CreateReturns(s)
      <3>1. /\ proc[s].pc = "create" /\ Alive(s)
            /\ proc'[s] = [proc[s] EXCEPT !.pc = "work", !.instance = lastBox']
        BY <2>5, After DEF Alive, Over
      <3>2. boxes'[lastBox'].script = proc[s].picked
        <4>1. NewBox(s, FALSE)
          BY <2>5 DEF CreateReturns
        <4>2. boxes'[lastBox'] = [owner |-> s, script |-> proc[s].picked, excused |-> FALSE]
          BY <4>1, BoxAdded
        <4>3. QED
          BY <4>2
      <3>3. /\ proc'[s].pc = "work" /\ proc'[s].instance = lastBox' /\ proc'[s].added = proc[s].added
            /\ proc[s].picked = proc[s].added
        BY <1>1, <3>1 DEF BootOf, Process
      <3>4. QED
        BY <1>3, <3>2, <3>3 DEF BootOf, Early
    <2>6. CASE CreateLost(s) \/ CreateFails(s) \/ WorkSucceeds(s) \/ WorkFails(s) \/ DestroySkipped(s)
               \/ DestroyReturns(s) \/ DestroyRefused(s) \/ DestroyRaises(s)
      <3>1. /\ proc'[s].pc \in {"destroy", "cleanup"} /\ proc'[s].instance = proc[s].instance
            /\ proc'[s].added = proc[s].added
        <4>1. CASE DestroyReturns(s) \/ DestroyRefused(s) \/ DestroyRaises(s)
          <5>1. PICK flag \in BOOLEAN :
                   proc'[s] = [proc[s] EXCEPT !.pc = "cleanup", !.destroyed = flag]
            BY <4>1, AfterDestroy
          <5>2. QED
            BY <1>1, <5>1 DEF Process
        <4>2. CASE CreateLost(s) \/ CreateFails(s) \/ WorkFails(s) \/ DestroySkipped(s)
          BY <1>1, <4>2, After DEF Process
        <4>3. CASE WorkSucceeds(s)
          BY <1>1, <4>3, After DEF Process
        <4>4. QED
          BY <2>6, <4>1, <4>2, <4>3
      <3>2. QED
        BY <1>2, <1>3, <1>5, <3>1 DEF BootOf, Early
    <2>7. CASE NextLeg(s)
      <3>1. proc'[s].pc = "script" /\ proc'[s].instance = NoId
        BY <1>1, <2>7, After DEF Process
      <3>2. QED
        BY <1>3, <1>6, <3>1 DEF BootOf, NoId
    <2>8. CASE End(s) \/ Kill(s)
      <3>1. PICK pc \in {"exit 0", "exit 1", "killed"} : proc'[s] = Blank(pc)
        BY <2>8, After
      <3>2. proc'[s].instance = NoId
        BY <3>1, BlankFields
      <3>3. proc'[s].pc = pc
        BY <3>1, BlankFields
      <3>4. proc'[s].pc # "pick" /\ proc'[s].pc # "create" /\ proc'[s].pc \notin Early
        BY <3>3 DEF Early
      <3>5. proc'[s].instance \notin Running' /\ proc'[s].instance <= lastBox'
        BY <1>6, <3>2
      <3>6. QED
        BY <3>4, <3>5 DEF BootOf
    <2>9. QED
      BY <2>1, <2>2, <2>3, <2>4, <2>5, <2>6, <2>7, <2>8 DEF Step
  <1>9. QED
    BY <1>7, <1>8

-----------------------------------------------------------------------------
LEMMA Invariant == Spec => []IInv
  <1>1. IInv /\ [Next]_vars => IInv'
    BY Types, LeakStep, ExitStep, BootStep DEF IInv
  <1>2. QED
    BY InitIInv, <1>1, PTL DEF Spec

\* The boxes, scripts and processes are of their types (jarvis.py 230-350).
THEOREM TypeCorrect == Spec => []TypeOK
  <1>1. IInv => TypeOK
    BY DEF IInv
  <1>2. QED
    BY <1>1, Invariant, PTL

\* A box that bills after its session's exit is one that an API call failed on
\* (jarvis.py 5-6, 297).
THEOREM LeaksAreExplained == Spec => []LeaksHaveACause
  <1>1. IInv => LeaksHaveACause
    BY DEF IInv, LeakInv, Accounted, LeaksHaveACause
  <1>2. QED
    BY <1>1, Invariant, PTL

\* Exit code 0 of a session with one leg means that its box is gone
\* (jarvis.py 1673-1703).
THEOREM ExitCodesAreHonest == Spec => []CleanExit
  <1>1. IInv => CleanExit
    BY DEF IInv, ExitInv, ExitOf, CleanExit, At
  <1>2. QED
    BY <1>1, Invariant, PTL

\* Of sessions that do not overlap each boots the script it has added
\* (jarvis.py 141-160).
THEOREM OwnScriptsBoot == Spec => []BootsOwnScript
  <1>1. IInv => BootsOwnScript
    BY DEF IInv, BootInv, BootOf, BootsOwnScript
  <1>2. QED
    BY <1>1, Invariant, PTL
=============================================================================
