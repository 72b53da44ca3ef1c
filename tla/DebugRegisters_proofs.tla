------------------------ MODULE DebugRegisters_proofs ------------------------
(* Proofs about the debug registers, for any number of threads, registers  *)
(* and stoppoints.                                                         *)
EXTENDS DebugRegisters, TLAPS

USE RegistersAssumption

(* Programming or clearing a slot keeps the registers well typed.          *)
LEMMA StoppointType ==
  ASSUME TypeOK, NEW a \in Addr, NEW c \in Cond, NEW i \in Slot,
         SetStoppoint(a, c, i) \/ ClearStoppoint(i)
  PROVE  /\ dr'  \in [Thread -> [Slot -> Addr \cup {None}]]
         /\ dr7' \in [Thread -> [Slot -> Cond \cup {None}]]
<1> DEFINE set   == [dr7[current] EXCEPT ![i] = c]
           clear == [dr7[current] EXCEPT ![i] = None]
<1>1. dr7[current] \in [Slot -> Cond \cup {None}]
  BY DEF TypeOK
<1>2. set \in [Slot -> Cond \cup {None}] /\ clear \in [Slot -> Cond \cup {None}]
  BY <1>1
<1>3. \A t \in Thread : /\ [dr[t] EXCEPT ![i] = a] \in [Slot -> Addr \cup {None}]
                       /\ [dr[t] EXCEPT ![i] = None] \in [Slot -> Addr \cup {None}]
                       /\ dr[t] \in [Slot -> Addr \cup {None}]
                       /\ dr7[t] \in [Slot -> Cond \cup {None}]
  BY DEF TypeOK
<1> HIDE DEF set, clear
<1>4. CASE SetStoppoint(a, c, i)
  <2>1. /\ dr' = [t \in Thread |-> IF t \in live THEN [dr[t] EXCEPT ![i] = a] ELSE dr[t]]
        /\ dr7' = [t \in Thread |-> IF t \in live THEN set ELSE dr7[t]]
    BY <1>4 DEF SetStoppoint, set
  <2>. QED BY <1>2, <1>3, <2>1
<1>5. CASE ClearStoppoint(i)
  <2>1. /\ dr' = [t \in Thread |-> IF t \in live THEN [dr[t] EXCEPT ![i] = None] ELSE dr[t]]
        /\ dr7' = [t \in Thread |-> IF t \in live THEN clear ELSE dr7[t]]
    BY <1>5 DEF ClearStoppoint, clear
  <2>. QED BY <1>2, <1>3, <2>1
<1>. QED BY <1>4, <1>5

(* The fields of a stoppoint that was just enabled, and its condition.     *)
LEMMA EnabledFields ==
  ASSUME NEW p \in Point, NEW i \in Slot
  PROVE  [on |-> TRUE, idx |-> i] \in FieldsOf /\ AddrOf[p] \in Addr /\ CondOf(p) \in Cond
  BY DEF FieldsOf, Slot, CondOf, Cond

(* A free register that was found is one of the slots.                     *)
LEMMA FirstFreeIsSlot ==
  ASSUME NEW i, IsFirstFree(i)
  PROVE  i \in Slot /\ dr7[current][i] = None
  BY DEF IsFirstFree, FreeSlots

(* A stoppoint that was just disabled keeps its fields' types.             *)
LEMMA DisabledFields ==
  ASSUME TypeOK, NEW p \in Point, Present(p)
  PROVE  /\ point[p] \in FieldsOf
         /\ [point[p] EXCEPT !.on = FALSE] \in FieldsOf
<1>1. point[p] \in FieldsOf
  BY DEF TypeOK, Present
<1>. QED BY <1>1 DEF FieldsOf

(* The thread the debugger is busy with, and the breakpoint it has taken   *)
(* out for a step (StepInstruction, stepOverBreakpointForThread).          *)
HeldInv ==
  /\ phase \in {"stepping", "stopping"} => me \in live
  /\ held # None => phase = "stepping" /\ ~Enabled(held)

(* Every step keeps the types.                                             *)
LEMMA TypeStep == TypeOK /\ HeldInv /\ [Next]_vars => TypeOK'
<1> SUFFICES ASSUME TypeOK, HeldInv, [Next]_vars PROVE TypeOK'
  OBVIOUS
<1> USE DEF TypeOK, wait, history
<1>1. ASSUME NEW p \in Point, NEW i \in Slot,
             CreateWatchpoint(p, i) \/ CreateBreakpoint(p, i) \/ Enable(p, i)
      PROVE  TypeOK'
  <2>1. /\ dr'  \in [Thread -> [Slot -> Addr \cup {None}]]
        /\ dr7' \in [Thread -> [Slot -> Cond \cup {None}]]
    BY <1>1, StoppointType, EnabledFields DEF CreateWatchpoint, CreateBreakpoint, Enable
  <2>2. point' \in [Point -> FieldsOf \cup {None}]
    BY <1>1, EnabledFields DEF CreateWatchpoint, CreateBreakpoint, Enable
  <2>3. UNCHANGED <<live, current, phase, todo, me, held, runs, hit, mem, prev, late, wrote, old>>
    BY <1>1 DEF CreateWatchpoint, CreateBreakpoint, Enable, AtPrompt
  <2>4. data' \in [Watch -> Value \cup {None}] /\ steady' \subseteq Watch
    BY <1>1 DEF CreateWatchpoint, CreateBreakpoint, Enable
  <2>. QED BY <2>1, <2>2, <2>3, <2>4
<1>2. ASSUME NEW p \in Point, CreateBreakpointFails(p) PROVE TypeOK'
  <2>1. [on |-> FALSE, idx |-> -1] \in FieldsOf
    BY DEF FieldsOf
  <2>. QED BY <1>2, <2>1 DEF CreateBreakpointFails, AtPrompt
<1>3. ASSUME NEW p \in Point, Disable(p) PROVE TypeOK'
  <2>1. Present(p) /\ point[p].idx \in Slot
    BY <1>3 DEF Disable, ClearStoppoint
  <2>2. [point[p] EXCEPT !.on = FALSE] \in FieldsOf
    BY <2>1, DisabledFields
  <2>3. /\ dr'  \in [Thread -> [Slot -> Addr \cup {None}]]
        /\ dr7' \in [Thread -> [Slot -> Cond \cup {None}]]
    BY <1>3, <2>1, StoppointType, EnabledFields DEF Disable
  <2>. QED BY <1>3, <2>2, <2>3 DEF Disable, AtPrompt
<1>4. ASSUME NEW p \in Point, Delete(p) PROVE TypeOK'
  <2>1. /\ dr'  \in [Thread -> [Slot -> Addr \cup {None}]]
        /\ dr7' \in [Thread -> [Slot -> Cond \cup {None}]]
    <3>1. CASE point[p].on
      <4>1. point[p].idx \in Slot
        BY <1>4, <3>1 DEF Delete, ClearStoppoint
      <4>. QED BY <1>4, <3>1, <4>1, StoppointType, EnabledFields DEF Delete
    <3>2. CASE ~point[p].on
      BY <1>4, <3>2 DEF Delete
    <3>. QED BY <3>1, <3>2
  <2>2. UNCHANGED <<live, current, phase, todo, me, held, runs, hit, mem, late>>
    BY <1>4 DEF Delete, Forgotten
  <2>3. /\ point' \in [Point -> FieldsOf \cup {None}] /\ steady' \subseteq Watch
        /\ data' \in [Watch -> Value \cup {None}] /\ prev' \in [Watch -> Value \cup {None}]
        /\ wrote' \in [Watch -> 0 .. 2] /\ old' \in [Watch -> Value \cup {None}]
    BY <1>4 DEF Delete, Forgotten
  <2>. QED BY <2>1, <2>2, <2>3
<1>5. ASSUME NEW t \in Thread, SelectThread(t) PROVE TypeOK'
  BY <1>5 DEF SelectThread, AtPrompt
<1>6. CASE Resume
  BY <1>6 DEF Resume, NewRun
<1>7. ASSUME NEW t \in Thread, BeginStep(t) PROVE TypeOK'
  <2>1. /\ dr'  \in [Thread -> [Slot -> Addr \cup {None}]]
        /\ dr7' \in [Thread -> [Slot -> Cond \cup {None}]]
        /\ point' \in [Point -> FieldsOf \cup {None}]
        /\ held' \in Exec \cup {None}
    <3>1. CASE held' = None /\ UNCHANGED <<dr, dr7, point>>
      BY <3>1
    <3>2. ASSUME NEW p \in Exec, Enabled(p), held' = p, ClearStoppoint(point[p].idx),
                 point' = [point EXCEPT ![p] = [@ EXCEPT !.on = FALSE]]
          PROVE  <2>1!1 /\ <2>1!2 /\ <2>1!3 /\ <2>1!4
      <4>1. p \in Point /\ Present(p) /\ point[p].idx \in Slot
        BY <3>2 DEF ClearStoppoint, Enabled, Point
      <4>2. [point[p] EXCEPT !.on = FALSE] \in FieldsOf
        BY <4>1, DisabledFields
      <4>3. dr' \in [Thread -> [Slot -> Addr \cup {None}]] /\ dr7' \in [Thread -> [Slot -> Cond \cup {None}]]
        BY <3>2, <4>1, StoppointType, EnabledFields
      <4>. QED BY <3>2, <4>1, <4>2, <4>3
    <3>. QED BY <1>7, <3>1, <3>2 DEF BeginStep
  <2>2. /\ wrote' \in [Watch -> 0 .. 2] /\ old' \in [Watch -> Value \cup {None}]
        /\ me' \in live /\ phase' = "stepping"
        /\ UNCHANGED <<live, current, todo, runs, hit, mem, data, prev, steady, late>>
    BY <1>7 DEF BeginStep, NewRun
  <2>. QED BY <2>1, <2>2
<1>8. CASE EndStep
  <2>1. /\ dr'  \in [Thread -> [Slot -> Addr \cup {None}]]
        /\ dr7' \in [Thread -> [Slot -> Cond \cup {None}]]
        /\ point' \in [Point -> FieldsOf \cup {None}]
    <3>1. CASE UNCHANGED <<dr, dr7, point>>
      BY <3>1
    <3>2. ASSUME NEW i \in Slot, held # None, SetStoppoint(AddrOf[held], "x", i),
                 point' = [point EXCEPT ![held] = [on |-> TRUE, idx |-> i]]
          PROVE  <2>1!1 /\ <2>1!2 /\ <2>1!3
      <4>1. held \in Point /\ "x" \in Cond
        BY <3>2 DEF Point, Cond
      <4>2. dr' \in [Thread -> [Slot -> Addr \cup {None}]] /\ dr7' \in [Thread -> [Slot -> Cond \cup {None}]]
        BY <3>2, <4>1, StoppointType, EnabledFields
      <4>. QED BY <3>2, <4>1, <4>2, EnabledFields
    <3>. QED BY <1>8, <3>1, <3>2 DEF EndStep
  <2>2. mem' \in [Watch -> Value] /\ steady' \subseteq Watch /\ wrote' \in [Watch -> 0 .. 2]
    <3>1. CASE UNCHANGED <<mem, steady, wrote>>
      BY <3>1
    <3>2. ASSUME NEW p \in Watch, NEW v \in Value, StepWrites(p, v)
          PROVE  mem' \in [Watch -> Value] /\ steady' \subseteq Watch /\ wrote' \in [Watch -> 0 .. 2]
      <4>1. mem' \in [Watch -> Value] /\ steady' \subseteq Watch
        BY <3>2 DEF StepWrites
      <4>2. [wrote EXCEPT ![p] = 2] \in [Watch -> 0 .. 2]
        OBVIOUS
      <4>. QED BY <3>2, <4>1, <4>2 DEF StepWrites
    <3>. QED BY <1>8, <3>1, <3>2 DEF EndStep
  <2>3. /\ phase' \in {"prompt", "resuming"} /\ todo' \subseteq live /\ held' = None /\ me' = None
        /\ UNCHANGED <<live, current, runs, hit, data, prev, late, old>>
    BY <1>8 DEF EndStep
  <2>. QED BY <2>1, <2>2, <2>3
<1>9. CASE Continue \/ Return
  BY <1>9 DEF Continue, Return, HeldInv
<1>10. ASSUME NEW t \in Thread, NewThread(t) PROVE TypeOK'
  BY <1>10 DEF NewThread
<1>11. ASSUME NEW t \in Thread, NEW a, NEW c, Accesses(t, a, c)
       PROVE  hit' \in [Thread -> Slot \cup {None}] /\ runs' \subseteq runs
  <2>1. CASE UNCHANGED <<hit, runs>>
    BY <2>1
  <2>2. ASSUME NEW i \in Slot, hit' = [hit EXCEPT ![t] = i], runs' = runs \ {t}
        PROVE  hit' \in [Thread -> Slot \cup {None}] /\ runs' \subseteq runs
    BY <2>2
  <2>. QED BY <1>11, <2>1, <2>2 DEF Accesses, Triggered
<1>12. ASSUME NEW t \in Thread, NEW p \in Exec, Break(t, p) PROVE TypeOK'
  <2>1. /\ hit' \in [Thread -> Slot \cup {None}] /\ runs' \subseteq runs
        /\ UNCHANGED <<live, current, phase, todo, me, held, dr, dr7, point, mem, data, prev, steady,
                       late, wrote, old>>
    BY <1>11, <1>12 DEF Break
  <2>. QED BY <2>1
<1>13. ASSUME NEW t \in Thread, NEW p \in Watch, NEW v \in Value, Write(t, p, v) PROVE TypeOK'
  <2>1. /\ hit' \in [Thread -> Slot \cup {None}] /\ runs' \subseteq runs
        /\ UNCHANGED <<live, current, phase, todo, me, held, dr, dr7, point, data, prev, steady, late>>
    BY <1>11, <1>13 DEF Write
  <2>2. mem' = [mem EXCEPT ![p] = v] /\ mem[p] \in Value
    BY <1>13 DEF Write
  <2>3. wrote' \in [Watch -> 0 .. 2]
    BY <1>13 DEF Write
  <2>4. old' \in [Watch -> Value \cup {None}]
    <3>1. old' = old \/ \E w \in Value \cup {None} : old' = [old EXCEPT ![p] = w]
      BY <1>13, <2>2 DEF Write
    <3>. QED BY <3>1
  <2>5. mem' \in [Watch -> Value]
    BY <2>2
  <2>. QED BY <2>1, <2>3, <2>4, <2>5
<1>14. ASSUME NEW t \in Thread, HandleSignal(t)
       PROVE  /\ data' \in [Watch -> Value \cup {None}] /\ prev' \in [Watch -> Value \cup {None}]
              /\ steady' \subseteq Watch
              /\ hit' \in [Thread -> Slot \cup {None}] /\ runs' \subseteq runs
  <2>1. CASE UNCHANGED <<data, prev, steady>>
    BY <1>14, <2>1 DEF HandleSignal
  <2>2. ASSUME NEW p \in Watch, UpdateData(p)
        PROVE  /\ data' \in [Watch -> Value \cup {None}] /\ prev' \in [Watch -> Value \cup {None}]
               /\ steady' \subseteq Watch
               /\ hit' \in [Thread -> Slot \cup {None}] /\ runs' \subseteq runs
    <3>1. mem[p] \in Value /\ data[p] \in Value \cup {None}
      OBVIOUS
    <3>2. data' \in [Watch -> Value \cup {None}] /\ prev' \in [Watch -> Value \cup {None}]
      BY <2>2, <3>1 DEF UpdateData
    <3>3. steady' \subseteq Watch
      BY <2>2 DEF UpdateData, Refreshed
    <3>4. hit' \in [Thread -> Slot \cup {None}] /\ runs' \subseteq runs
      BY <1>14 DEF HandleSignal
    <3>. QED BY <3>2, <3>3, <3>4
  <2>. QED BY <1>14, <2>1, <2>2 DEF HandleSignal, Trapped
<1>15. ASSUME NEW t \in Thread, ReportStop(t) \/ CollectStop(t) PROVE TypeOK'
  <2>1. UNCHANGED <<live, current, held, dr, dr7, point, mem, late, wrote, old>> /\ HandleSignal(t)
    BY <1>15 DEF ReportStop, CollectStop
  <2>2. phase' \in {"running", "stopping"} /\ todo' \subseteq live /\ me' \in live \cup {None}
    BY <1>15 DEF ReportStop, CollectStop, Stopping
  <2>. QED BY <2>1, <2>2, <1>14
<1>16. CASE UNCHANGED vars
  BY <1>16 DEF vars
<1>. QED
  BY <1>1, <1>2, <1>3, <1>4, <1>5, <1>6, <1>7, <1>8, <1>9, <1>10, <1>12, <1>13, <1>15, <1>16 DEF Next

(* Every step keeps track of the thread in hand and of what it holds.      *)
LEMMA HeldStep == TypeOK /\ HeldInv /\ [Next]_vars => HeldInv'
<1> SUFFICES ASSUME TypeOK, HeldInv, [Next]_vars PROVE HeldInv'
  OBVIOUS
<1> USE DEF HeldInv
<1>1. CASE UNCHANGED <<live, phase, me, held>> /\ phase # "stepping"
  BY <1>1 DEF Enabled, Present
<1>2. ASSUME NEW t \in Thread, BeginStep(t) PROVE HeldInv'
  <2>1. phase' = "stepping" /\ me' = t /\ t \in live /\ live' = live
    BY <1>2 DEF BeginStep, TypeOK
  <2>2. held' # None => ~Enabled(held)'
    BY <1>2 DEF BeginStep, TypeOK, Enabled, Present, Point, FieldsOf
  <2>. QED BY <2>1, <2>2
<1>3. CASE EndStep
  BY <1>3 DEF EndStep
<1>4. CASE Resume \/ Continue \/ Return
  BY <1>4 DEF Resume, Continue, Return
<1>5. ASSUME NEW t \in Thread, ReportStop(t) PROVE HeldInv'
  BY <1>5 DEF ReportStop, Stopping
<1>6. ASSUME NEW t \in Thread, NewThread(t) PROVE HeldInv'
  BY <1>6 DEF NewThread
<1>7. ASSUME \/ \E p \in Point, i \in Slot :
                  CreateWatchpoint(p, i) \/ CreateBreakpoint(p, i) \/ Enable(p, i)
             \/ \E p \in Point : CreateBreakpointFails(p) \/ Disable(p) \/ Delete(p)
             \/ \E t \in Thread : SelectThread(t) \/ CollectStop(t)
             \/ \E t \in Thread, p \in Exec : Break(t, p)
             \/ \E t \in Thread, p \in Watch, v \in Value : Write(t, p, v)
      PROVE  UNCHANGED <<live, phase, me, held>> /\ phase # "stepping"
  BY <1>7 DEF CreateWatchpoint, CreateBreakpoint, Enable, CreateBreakpointFails, Disable, Delete,
              Forgotten, SelectThread, CollectStop, Break, Write, Executes, AtPrompt, wait
<1>8. CASE UNCHANGED vars
  BY <1>8 DEF vars, wait, Enabled, Present
<1>. QED BY <1>1, <1>2, <1>3, <1>4, <1>5, <1>6, <1>7, <1>8 DEF Next

(* The collections, the registers, the loops and the history keep their    *)
(* types (CreateWatchpoint, setHardwareStoppoint, ClearHardwareStoppoint,  *)
(* handleSignal): an enabled stoppoint never has an index that is not a    *)
(* debug register, and a run ends on a thread that is in p.threads.        *)
THEOREM TypeCorrect == Spec => []TypeOK
<1>1. Init => TypeOK /\ HeldInv
  <2> SUFFICES ASSUME Init PROVE TypeOK /\ HeldInv
    OBVIOUS
  <2>1. live \subseteq Thread /\ current \in live /\ mem \in [Watch -> Value]
    BY DEF Init
  <2>2. late \in BOOLEAN /\ steady \subseteq Watch
    BY DEF Init
  <2>. QED BY <2>1, <2>2 DEF Init, TypeOK, HeldInv
<1>. QED BY <1>1, TypeStep, HeldStep, PTL DEF Spec

(* The same for the thread in hand.                                        *)
LEMMA Holding == Spec => []HeldInv
<1>1. Init => TypeOK /\ HeldInv
  <2> SUFFICES ASSUME Init PROVE TypeOK /\ HeldInv
    OBVIOUS
  <2>1. live \subseteq Thread /\ current \in live /\ mem \in [Watch -> Value]
    BY DEF Init
  <2>2. late \in BOOLEAN /\ steady \subseteq Watch
    BY DEF Init
  <2>. QED BY <2>1, <2>2 DEF Init, TypeOK, HeldInv
<1>. QED BY <1>1, TypeStep, HeldStep, PTL DEF Spec

-----------------------------------------------------------------------------
(* What the two register operations do to one slot of one live thread.     *)
LEMMA SetSlot ==
  ASSUME TypeOK, NEW a \in Addr, NEW c \in Cond, NEW i \in Slot, SetStoppoint(a, c, i),
         NEW t \in live, NEW j \in Slot
  PROVE  /\ dr'[t][j]  = IF j = i THEN a ELSE dr[t][j]
         /\ dr7'[t][j] = IF j = i THEN c ELSE dr7[current][j]
  BY DEF TypeOK, SetStoppoint

(* Likewise for clearing.                                                  *)
LEMMA ClearSlot ==
  ASSUME TypeOK, NEW i \in Slot, ClearStoppoint(i), NEW t \in live, NEW j \in Slot
  PROVE  /\ dr'[t][j]  = IF j = i THEN None ELSE dr[t][j]
         /\ dr7'[t][j] = IF j = i THEN None ELSE dr7[current][j]
  BY DEF TypeOK, ClearStoppoint

(* An address and a condition belong to one stoppoint.                     *)
LEMMA OnePoint ==
  ASSUME NEW p \in Point, NEW q \in Point, AddrOf[p] = AddrOf[q], CondOf(p) = CondOf(q)
  PROVE  p = q
  BY DEF CondOf, Point

-----------------------------------------------------------------------------
(* What an action does to the stoppoints and to the registers: it enables, *)
(* disables or forgets one, or leaves them alone.                          *)
Enables(p, i) ==
  /\ ~Enabled(p) /\ IsFirstFree(i)
  /\ SetStoppoint(AddrOf[p], CondOf(p), i)
  /\ point' = [point EXCEPT ![p] = [on |-> TRUE, idx |-> i]]

Keeps(p) == ~Enabled(p)' /\ \A q \in Point \ {p} : point'[q] = point[q]

Disables(p) == Enabled(p) /\ ClearStoppoint(point[p].idx) /\ Keeps(p)

Drops(p) == ~Enabled(p) /\ UNCHANGED <<dr, dr7>> /\ Keeps(p)

Sets ==
  \/ \E p \in Point, i \in Slot : Enables(p, i)
  \/ \E p \in Point : Disables(p) \/ Drops(p)
  \/ UNCHANGED <<dr, dr7, point>>

(* A stoppoint whose enabled bit is reset is not enabled; the others are   *)
(* as they were.                                                           *)
LEMMA DisableKeeps ==
  ASSUME TypeOK, NEW p \in Point, Present(p),
         point' = [point EXCEPT ![p] = [@ EXCEPT !.on = FALSE]]
  PROVE  Keeps(p)
<1>1. point[p] \in FieldsOf
  BY DisabledFields
<1>2. point'[p] = [point[p] EXCEPT !.on = FALSE] /\ \A q \in Point \ {p} : point'[q] = point[q]
  BY DEF TypeOK
<1>. QED BY <1>1, <1>2 DEF Keeps, Enabled, FieldsOf

(* Every step is one of these, or a new thread.  The breakpoint taken out  *)
(* for a step is disabled, and enabled after it like any other.            *)
LEMMA Effects ==
  ASSUME ~Rearm, TypeOK, HeldInv, [Next]_vars
  PROVE  \/ \E t \in Thread : NewThread(t)
         \/ UNCHANGED <<live, late>> /\ Sets
<1>1. ASSUME NEW p \in Point, NEW i \in Slot,
             CreateWatchpoint(p, i) \/ CreateBreakpoint(p, i) \/ Enable(p, i)
      PROVE  UNCHANGED <<live, late>> /\ Enables(p, i)
  BY <1>1 DEF CreateWatchpoint, CreateBreakpoint, Enable, Enables, Enabled, Present
<1>2. ASSUME NEW p \in Point, CreateBreakpointFails(p)
      PROVE  UNCHANGED <<live, late>> /\ Drops(p)
  BY <1>2 DEF CreateBreakpointFails, Drops, Keeps, Enabled, Present, TypeOK
<1>3. ASSUME NEW p \in Point, Disable(p)
      PROVE  UNCHANGED <<live, late>> /\ Disables(p)
  BY <1>3, DisableKeeps DEF Disable, Disables, Enabled
<1>4. ASSUME NEW p \in Point, Delete(p)
      PROVE  UNCHANGED <<live, late>> /\ (Disables(p) \/ Drops(p))
  <2>1. Keeps(p) /\ UNCHANGED <<live, late>>
    BY <1>4 DEF Delete, Forgotten, Keeps, Enabled, Present, TypeOK
  <2>. QED BY <1>4, <2>1 DEF Delete, Disables, Drops, Enabled
<1>5. ASSUME NEW t \in Thread, BeginStep(t) PROVE UNCHANGED <<live, late>> /\ Sets
  <2>1. CASE UNCHANGED <<dr, dr7, point>>
    BY <1>5, <2>1 DEF BeginStep, Sets
  <2>2. ASSUME NEW p \in Exec, Enabled(p), ClearStoppoint(point[p].idx),
               point' = [point EXCEPT ![p] = [@ EXCEPT !.on = FALSE]]
        PROVE  Sets
    <3>1. p \in Point /\ Present(p)
      BY <2>2 DEF Point, Enabled
    <3>. QED BY <2>2, <3>1, DisableKeeps DEF Disables, Sets
  <2>. QED BY <1>5, <2>1, <2>2 DEF BeginStep
<1>6. ASSUME EndStep PROVE UNCHANGED <<live, late>> /\ Sets
  <2>1. CASE UNCHANGED <<dr, dr7, point>>
    BY <1>6, <2>1 DEF EndStep, Sets
  <2>2. ASSUME NEW i \in Slot, held # None, IsFirstFree(i), SetStoppoint(AddrOf[held], "x", i),
               point' = [point EXCEPT ![held] = [on |-> TRUE, idx |-> i]]
        PROVE  Sets
    <3>1. held \in Point /\ CondOf(held) = "x" /\ ~Enabled(held)
      BY <2>2 DEF TypeOK, HeldInv, Point, CondOf
    <3>. QED BY <2>2, <3>1 DEF Enables, Sets
  <2>. QED BY <1>6, <2>1, <2>2 DEF EndStep
<1>7. ASSUME \/ Resume \/ Continue \/ Return \/ UNCHANGED vars
             \/ \E t \in Thread : SelectThread(t) \/ ReportStop(t) \/ CollectStop(t)
             \/ \E t \in Thread, p \in Exec : Break(t, p)
             \/ \E t \in Thread, p \in Watch, v \in Value : Write(t, p, v)
      PROVE  UNCHANGED <<live, late, dr, dr7, point>>
  BY <1>7 DEF Resume, Continue, Return, vars, history, SelectThread, ReportStop, CollectStop,
              Break, Write
<1>. QED BY <1>1, <1>2, <1>3, <1>4, <1>5, <1>6, <1>7 DEF Next, Sets

-----------------------------------------------------------------------------
(* The inductive form of DisabledIsSilent: an address that is in a slot of *)
(* one thread and a condition that is in that slot of another are those of *)
(* one enabled stoppoint, which names the slot.  Two threads are needed:   *)
(* each operation copies DR7 of the current thread over that of the        *)
(* others, and a new thread may have a DR7 that goes with no address.      *)
SlotsOwned ==
  \A t, u \in live, i \in Slot : dr[t][i] # None /\ dr7[u][i] # None =>
    \E q \in Point : /\ Enabled(q) /\ point[q].idx = i
                     /\ AddrOf[q] = dr[t][i] /\ CondOf(q) = dr7[u][i]

(* A slot that is owned says so whatever happens to other stoppoints.      *)
Owned(t, u, i) ==
  \E q \in Point : /\ Enabled(q) /\ point[q].idx = i
                   /\ AddrOf[q] = dr[t][i] /\ CondOf(q) = dr7[u][i]

(* Every step keeps the slots owned.                                       *)
LEMMA OwnedStep ==
  ASSUME ~Rearm
  PROVE  TypeOK /\ HeldInv /\ SlotsOwned /\ [Next]_vars => SlotsOwned'
<1> SUFFICES ASSUME TypeOK, HeldInv, SlotsOwned, [Next]_vars PROVE SlotsOwned'
  OBVIOUS
<1>0. None \notin Cond /\ current \in live
  BY DEF TypeOK
<1>1. ASSUME NEW p \in Point, NEW i \in Slot, Enables(p, i), live' = live PROVE SlotsOwned'
  <2>1. /\ ~Enabled(p) /\ live' = live
        /\ SetStoppoint(AddrOf[p], CondOf(p), i)
        /\ point' = [point EXCEPT ![p] = [on |-> TRUE, idx |-> i]]
    BY <1>1 DEF Enables
  <2>2. AddrOf[p] \in Addr /\ CondOf(p) \in Cond
    BY EnabledFields
  <2>3. /\ Enabled(p)' /\ point'[p].idx = i
        /\ \A q \in Point \ {p} : point'[q] = point[q] /\ (Enabled(q) => Enabled(q)')
    BY <2>1, EnabledFields DEF Enabled, Present, TypeOK
  <2>4. SUFFICES ASSUME NEW t \in live, NEW u \in live, NEW j \in Slot,
                        dr'[t][j] # None, dr7'[u][j] # None
                 PROVE  Owned(t, u, j)'
    BY <2>1 DEF SlotsOwned, Owned
  <2>5. CASE j = i
    <3>1. dr'[t][j] = AddrOf[p] /\ dr7'[u][j] = CondOf(p)
      BY <2>1, <2>2, <2>5, SetSlot
    <3>. QED BY <2>3, <2>5, <3>1 DEF Owned, CondOf
  <2>6. CASE j # i
    <3>1. dr'[t][j] = dr[t][j] /\ dr7'[u][j] = dr7[current][j]
      BY <2>1, <2>2, <2>6, SetSlot
    <3>2. PICK q \in Point : /\ Enabled(q) /\ point[q].idx = j
                             /\ AddrOf[q] = dr[t][j] /\ CondOf(q) = dr7[current][j]
      BY <1>0, <2>4, <3>1 DEF SlotsOwned
    <3>. QED BY <2>1, <2>3, <3>1, <3>2 DEF Owned, CondOf
  <2>. QED BY <2>5, <2>6
<1>2. ASSUME NEW p \in Point, Disables(p), live' = live PROVE SlotsOwned'
  <2> DEFINE i == point[p].idx
  <2>1. /\ i \in Slot /\ live' = live /\ ClearStoppoint(i)
        /\ \A q \in Point \ {p} : point'[q] = point[q] /\ (Enabled(q) => Enabled(q)')
    BY <1>2 DEF Disables, Keeps, ClearStoppoint, Enabled, Present
  <2> HIDE DEF i
  <2>2. SUFFICES ASSUME NEW t \in live, NEW u \in live, NEW j \in Slot,
                        dr'[t][j] # None, dr7'[u][j] # None
                 PROVE  Owned(t, u, j)'
    BY <2>1 DEF SlotsOwned, Owned
  <2>3. j # i /\ dr'[t][j] = dr[t][j] /\ dr7'[u][j] = dr7[current][j]
    BY <2>1, <2>2, ClearSlot
  <2>4. PICK q \in Point : /\ Enabled(q) /\ point[q].idx = j
                           /\ AddrOf[q] = dr[t][j] /\ CondOf(q) = dr7[current][j]
    BY <1>0, <2>2, <2>3 DEF SlotsOwned
  <2>5. q # p
    BY <2>3, <2>4 DEF i
  <2>. QED BY <2>1, <2>3, <2>4, <2>5 DEF Owned, CondOf
<1>3. ASSUME NEW p \in Point, Drops(p), live' = live PROVE SlotsOwned'
  <2>1. /\ UNCHANGED <<live, dr, dr7>>
        /\ \A q \in Point \ {p} : point'[q] = point[q] /\ (Enabled(q) => Enabled(q)')
    BY <1>3 DEF Drops, Keeps, Enabled, Present
  <2>2. ~Enabled(p)
    BY <1>3 DEF Drops
  <2>. QED BY <2>1, <2>2 DEF SlotsOwned, CondOf
<1>4. ASSUME NEW t \in Thread, NewThread(t) PROVE SlotsOwned'
  <2>1. /\ point' = point /\ live' = live \cup {t}
        /\ \A i \in Slot : dr'[t][i] = None
        /\ \A u \in live : dr'[u] = dr[u] /\ dr7'[u] = dr7[u]
    BY <1>4 DEF NewThread, TypeOK
  <2>2. PICK u \in live : dr7'[t] = dr7[u] \/ dr7'[t] = [i \in Slot |-> None]
    BY <1>0, <1>4 DEF NewThread, TypeOK
  <2>3. \A i \in Slot, w \in live \cup {t} :
           dr7'[w][i] # None => \E x \in live : dr7'[w][i] = dr7[x][i]
    BY <2>1, <2>2
  <2>. QED BY <2>1, <2>3 DEF SlotsOwned, Enabled, Present, CondOf
<1>5. ASSUME UNCHANGED <<live, dr, dr7, point>> PROVE SlotsOwned'
  BY <1>5 DEF SlotsOwned, Enabled, Present, CondOf
<1>. QED BY <1>1, <1>2, <1>3, <1>4, <1>5, Effects DEF Sets

(* A disabled or deleted stoppoint stops no thread, also when threads are  *)
(* created while stoppoints are set and whichever thread is current, as    *)
(* long as the user enables only disabled stoppoints (Rearm).              *)
THEOREM Silent == ASSUME ~Rearm PROVE Spec => []DisabledIsSilent
<1>1. Init => SlotsOwned
  BY DEF Init, SlotsOwned
<1>2. TypeOK /\ SlotsOwned => DisabledIsSilent
  <2> SUFFICES ASSUME TypeOK, SlotsOwned, NEW p \in Point, NEW t \in live, NEW i \in Slot,
                      Programmed(t, p, i)
               PROVE  Enabled(p)
    BY DEF DisabledIsSilent
  <2>1. AddrOf[p] # None /\ CondOf(p) # None
    BY EnabledFields
  <2>2. PICK q \in Point : /\ Enabled(q)
                           /\ AddrOf[q] = dr[t][i] /\ CondOf(q) = dr7[t][i]
    BY <2>1 DEF Programmed, SlotsOwned
  <2>. QED BY <2>2, OnePoint DEF Programmed
<1>. QED BY <1>1, <1>2, TypeCorrect, Holding, OwnedStep, PTL DEF Spec

-----------------------------------------------------------------------------
(* The enabled stoppoints are armed everywhere as long as no thread is     *)
(* created while there are any; that is inductive with the next fact.      *)

(* An enabled stoppoint has a slot: its Disable cannot fail.               *)
IndexInv == \A p \in Point : Enabled(p) => point[p].idx \in Slot

(* Every step keeps the slots of the enabled stoppoints.                   *)
LEMMA IndexStep ==
  ASSUME ~Rearm
  PROVE  TypeOK /\ HeldInv /\ IndexInv /\ [Next]_vars => IndexInv'
<1> SUFFICES ASSUME TypeOK, HeldInv, IndexInv, [Next]_vars PROVE IndexInv'
  OBVIOUS
<1>1. ASSUME NEW p \in Point, NEW i \in Slot, Enables(p, i) PROVE IndexInv'
  <2>1. /\ point'[p].idx = i
        /\ \A q \in Point \ {p} : point'[q] = point[q]
    BY <1>1 DEF Enables, TypeOK
  <2>. QED BY <2>1 DEF IndexInv, Enabled, Present
<1>2. ASSUME NEW p \in Point, Disables(p) \/ Drops(p) PROVE IndexInv'
  BY <1>2 DEF Disables, Drops, Keeps, IndexInv, Enabled, Present
<1>3. ASSUME UNCHANGED point PROVE IndexInv'
  BY <1>3 DEF IndexInv, Enabled, Present
<1>4. ASSUME NEW t \in Thread, NewThread(t) PROVE UNCHANGED point
  BY <1>4 DEF NewThread
<1>. QED BY <1>1, <1>2, <1>3, <1>4, Effects DEF Sets

(* The history is never forgotten.                                         *)
LEMMA LateStays ==
  ASSUME ~Rearm, TypeOK, HeldInv, [Next]_vars, late
  PROVE  late'
<1>1. \A t \in Thread : NewThread(t) => late'
  BY DEF NewThread
<1>. QED BY <1>1, Effects

(* Every step keeps the enabled stoppoints armed.                          *)
LEMMA ArmedStep ==
  ASSUME ~Rearm
  PROVE  TypeOK /\ HeldInv /\ IndexInv /\ ArmedEverywhere /\ [Next]_vars => ArmedEverywhere'
<1> SUFFICES ASSUME TypeOK, HeldInv, IndexInv, ArmedEverywhere, [Next]_vars, ~late'
             PROVE  ArmedEverywhere'
  BY DEF ArmedEverywhere
<1> ~late
  BY LateStays
<1>0. None \notin Cond /\ current \in live
  BY DEF TypeOK
<1>1. ASSUME NEW p \in Point, NEW i \in Slot, Enables(p, i), live' = live PROVE ArmedEverywhere'
  <2>1. /\ live' = live /\ IsFirstFree(i)
        /\ SetStoppoint(AddrOf[p], CondOf(p), i)
        /\ point' = [point EXCEPT ![p] = [on |-> TRUE, idx |-> i]]
    BY <1>1 DEF Enables
  <2>2. AddrOf[p] \in Addr /\ CondOf(p) \in Cond
    BY EnabledFields
  <2>3. point'[p].idx = i /\ \A q \in Point \ {p} : point'[q] = point[q] /\ (Enabled(q)' => Enabled(q))
    BY <2>1 DEF Enabled, Present, TypeOK
  <2>4. \A q \in Point \ {p} : Enabled(q) => point[q].idx # i
    <3> SUFFICES ASSUME NEW q \in Point, Enabled(q), point[q].idx = i PROVE FALSE
      OBVIOUS
    <3>1. dr7[current][i] = CondOf(q)
      BY <1>0 DEF ArmedEverywhere, Programmed
    <3>2. dr7[current][i] = None
      BY <2>1, FirstFreeIsSlot
    <3>3. CondOf(q) \in Cond
      BY EnabledFields
    <3>. QED BY <1>0, <3>1, <3>2, <3>3
  <2>6. ASSUME NEW q \in Point, Enabled(q)', NEW t \in live
        PROVE  Programmed(t, q, point[q].idx)'
    <3>1. CASE q = p
      BY <2>1, <2>2, <2>3, <3>1, SetSlot DEF Programmed, CondOf
    <3>2. CASE q # p
      <4>1. Enabled(q) /\ point'[q] = point[q] /\ point[q].idx \in Slot /\ point[q].idx # i
        BY <2>3, <2>4, <2>6, <3>2 DEF IndexInv
      <4>2. dr[t][point[q].idx] = AddrOf[q] /\ dr7[current][point[q].idx] = CondOf(q)
        BY <1>0, <4>1 DEF ArmedEverywhere, Programmed
      <4>. QED BY <2>1, <2>2, <4>1, <4>2, SetSlot DEF Programmed, CondOf
    <3>. QED BY <3>1, <3>2
  <2>. QED BY <2>1, <2>6 DEF ArmedEverywhere
<1>2. ASSUME NEW p \in Point, Disables(p), live' = live PROVE ArmedEverywhere'
  <2> DEFINE i == point[p].idx
  <2>1. /\ i \in Slot /\ live' = live /\ ClearStoppoint(i)
        /\ \A q \in Point \ {p} : point'[q] = point[q] /\ (Enabled(q)' => Enabled(q))
    BY <1>2 DEF Disables, Keeps, ClearStoppoint, Enabled, Present
  <2>5. ~Enabled(p)'
    BY <1>2 DEF Disables, Keeps
  <2>2. \A q \in Point \ {p} : Enabled(q) => point[q].idx # i
    BY <1>0, <1>2, OnePoint DEF ArmedEverywhere, Programmed, Disables
  <2> HIDE DEF i
  <2>3. ASSUME NEW q \in Point, Enabled(q)', NEW t \in live
        PROVE  Programmed(t, q, point[q].idx)'
    <3>1. q # p /\ Enabled(q) /\ point'[q] = point[q] /\ point[q].idx \in Slot /\ point[q].idx # i
      BY <2>1, <2>2, <2>3, <2>5 DEF IndexInv
    <3>2. dr[t][point[q].idx] = AddrOf[q] /\ dr7[current][point[q].idx] = CondOf(q)
      BY <1>0, <3>1 DEF ArmedEverywhere, Programmed
    <3>. QED BY <2>1, <3>1, <3>2, ClearSlot DEF Programmed, CondOf
  <2>. QED BY <2>1, <2>3 DEF ArmedEverywhere
<1>3. ASSUME NEW p \in Point, Drops(p), live' = live PROVE ArmedEverywhere'
  <2>1. /\ UNCHANGED <<live, dr, dr7>> /\ ~Enabled(p)'
        /\ \A q \in Point \ {p} : point'[q] = point[q] /\ (Enabled(q)' => Enabled(q))
    BY <1>3 DEF Drops, Keeps, Enabled, Present
  <2>. QED BY <2>1 DEF ArmedEverywhere, Programmed, CondOf
<1>4. ASSUME NEW t \in Thread, NewThread(t) PROVE ArmedEverywhere'
  <2>1. point' = point /\ (~late' => \A p \in Point : ~Enabled(p))
    BY <1>4 DEF NewThread
  <2>. QED BY <2>1 DEF ArmedEverywhere, Enabled, Present
<1>5. ASSUME UNCHANGED <<live, dr, dr7, point>> PROVE ArmedEverywhere'
  BY <1>5 DEF ArmedEverywhere, Programmed, Enabled, Present, CondOf
<1>. QED BY <1>1, <1>2, <1>3, <1>4, <1>5, Effects DEF Sets

(* As long as no thread is created while a stoppoint is enabled, each      *)
(* enabled breakpoint and watchpoint is programmed in its slot of every    *)
(* thread, whatever the order of commands and whichever thread is current  *)
(* when they are given (setHardwareStoppoint, ClearHardwareStoppoint).     *)
THEOREM Armed ==
  ASSUME ~Rearm
  PROVE  Spec => []ArmedEverywhere
<1>1. Init => IndexInv /\ ArmedEverywhere
  BY DEF Init, IndexInv, ArmedEverywhere, Enabled, Present
<1>. QED BY <1>1, TypeCorrect, Holding, IndexStep, ArmedStep, PTL DEF Spec

(* Then a trap is attributed to the stoppoint that caused it               *)
(* (GetCurrentHardwareStoppoint), if a watchpoint and a hardware           *)
(* breakpoint never share an address.                                      *)
THEOREM Attribution ==
  ASSUME ~Rearm,
         \A p, q \in Point : AddrOf[p] = AddrOf[q] => p = q
  PROVE  Spec => []HitsAreFound
<1>1. ArmedEverywhere => HitsAreFound
  <2> SUFFICES ASSUME ~late, ArmedEverywhere, NEW p \in Point, Enabled(p), NEW t \in live
               PROVE  Found(t, point[p].idx) = {p}
    BY DEF HitsAreFound
  <2>1. Present(p) /\ dr[t][point[p].idx] = AddrOf[p]
    BY DEF ArmedEverywhere, Programmed, Enabled
  <2>. QED BY <2>1 DEF Found, Point
<1>. QED BY <1>1, Armed, PTL

-----------------------------------------------------------------------------
(* A trap is pending only while the program runs or is stopped, of a       *)
(* thread that is stopped and that the loop in stopRunningThreads, once    *)
(* entered, has yet to visit.                                              *)
HitInv ==
  /\ \A t \in Thread : hit[t] # None =>
       /\ t \in live /\ t \notin runs
       /\ phase = "running" \/ (phase = "stopping" /\ t \in todo)
  /\ phase = "stopping" => runs \subseteq todo

(* Whatever the debugger does between two runs it leaves no trap behind.   *)
LEMMA NoneIsHit ==
  ASSUME HitInv, phase \notin {"running", "stopping"} \/ (phase = "stopping" /\ todo = {}),
         NEW t \in Thread
  PROVE  hit[t] = None
  BY DEF HitInv

(* The actions of the debugger between two runs.                           *)
Commands ==
  \/ \E p \in Point, i \in Slot : CreateWatchpoint(p, i) \/ CreateBreakpoint(p, i) \/ Enable(p, i)
  \/ \E p \in Point : CreateBreakpointFails(p) \/ Disable(p) \/ Delete(p)
  \/ \E t \in Thread : SelectThread(t) \/ BeginStep(t)
  \/ Resume \/ EndStep \/ Continue \/ Return

(* They find no trap pending and leave none.                               *)
LEMMA CommandsHit ==
  ASSUME HitInv, Commands
  PROVE  /\ \A t \in Thread : hit[t] = None /\ hit'[t] = None
         /\ phase' # "stopping"
<1>1. ASSUME NEW p \in Point, NEW i \in Slot,
             CreateWatchpoint(p, i) \/ CreateBreakpoint(p, i) \/ Enable(p, i)
      PROVE  phase = "prompt" /\ UNCHANGED <<hit, phase>>
  BY <1>1 DEF CreateWatchpoint, CreateBreakpoint, Enable, AtPrompt, wait
<1>2. ASSUME NEW p \in Point, CreateBreakpointFails(p) \/ Disable(p) \/ Delete(p)
      PROVE  phase = "prompt" /\ UNCHANGED <<hit, phase>>
  BY <1>2 DEF CreateBreakpointFails, Disable, Delete, Forgotten, AtPrompt, wait
<1>3. ASSUME NEW t \in Thread, SelectThread(t) \/ BeginStep(t)
      PROVE  phase \in {"prompt", "resuming"} /\ UNCHANGED hit /\ phase' \in {"prompt", "stepping"}
  BY <1>3 DEF SelectThread, BeginStep, AtPrompt, wait
<1>4. ASSUME Resume \/ EndStep \/ Continue
      PROVE  phase \in {"prompt", "resuming", "stepping"} /\ UNCHANGED hit /\ phase' # "stopping"
  BY <1>4 DEF Resume, EndStep, Continue
<1>5. ASSUME Return PROVE phase = "stopping" /\ todo = {} /\ UNCHANGED hit /\ phase' = "prompt"
  BY <1>5 DEF Return
<1>. QED BY <1>1, <1>2, <1>3, <1>4, <1>5, NoneIsHit DEF Commands

(* What an access changes: it may stop the thread for a slot that it       *)
(* triggers, and does if there is one.                                     *)
LEMMA AccessHits ==
  ASSUME TypeOK, NEW t \in Thread, NEW a, NEW c, Accesses(t, a, c)
  PROVE  \/ UNCHANGED <<hit, runs>> /\ \A i \in Slot : ~(dr[t][i] = a /\ dr7[t][i] = c)
         \/ \E i \in Slot : /\ dr[t][i] = a /\ dr7[t][i] = c
                            /\ hit' = [hit EXCEPT ![t] = i] /\ runs' = runs \ {t}
  BY DEF Accesses, Triggered

(* Every step keeps the pending traps in order.                            *)
LEMMA HitStep == TypeOK /\ HitInv /\ [Next]_vars => HitInv'
<1> SUFFICES ASSUME TypeOK, HitInv, [Next]_vars PROVE HitInv'
  OBVIOUS
<1>1. CASE Commands
  BY <1>1, CommandsHit DEF HitInv
<1>2. ASSUME NEW t \in Thread, NewThread(t) PROVE HitInv'
  BY <1>2 DEF NewThread, HitInv
<1>3. ASSUME NEW t \in Thread, NEW a, NEW c, Executes(t), Accesses(t, a, c),
             UNCHANGED <<live, phase, todo>>
      PROVE  HitInv'
  <2>1. CASE UNCHANGED <<hit, runs>>
    BY <1>3, <2>1 DEF HitInv
  <2>2. ASSUME NEW i \in Slot, hit' = [hit EXCEPT ![t] = i], runs' = runs \ {t} PROVE HitInv'
    <3>1. t \in live /\ t \in runs /\ phase \in {"running", "stopping"}
      BY <1>3 DEF Executes, TypeOK
    <3>2. \A u \in Thread : u # t => hit'[u] = hit[u]
      BY <2>2 DEF TypeOK
    <3>. QED BY <1>3, <2>2, <3>1, <3>2 DEF HitInv
  <2>. QED BY <1>3, <2>1, <2>2, AccessHits
<1>4. ASSUME NEW t \in Thread, ReportStop(t) \/ CollectStop(t) PROVE HitInv'
  <2>1. /\ hit'[t] = None /\ runs' = runs \ {t} /\ live' = live
        /\ \A u \in Thread : u # t => hit'[u] = hit[u]
    BY <1>4 DEF ReportStop, CollectStop, HandleSignal, TypeOK
  <2>2. CASE ReportStop(t)
    BY <2>1, <2>2 DEF ReportStop, Stopping, HitInv, TypeOK
  <2>3. CASE CollectStop(t)
    BY <2>1, <2>3 DEF CollectStop, HitInv
  <2>. QED BY <1>4, <2>2, <2>3
<1>5. ASSUME NEW t \in Thread, NEW p \in Exec, Break(t, p)
      PROVE  Executes(t) /\ Accesses(t, AddrOf[p], "x") /\ UNCHANGED <<live, phase, todo>>
  BY <1>5 DEF Break
<1>6. ASSUME NEW t \in Thread, NEW p \in Watch, NEW v \in Value, Write(t, p, v)
      PROVE  Executes(t) /\ Accesses(t, AddrOf[p], "w") /\ UNCHANGED <<live, phase, todo>>
  BY <1>6 DEF Write
<1>7. CASE UNCHANGED vars
  BY <1>7 DEF vars, wait, HitInv
<1>. QED BY <1>1, <1>2, <1>3, <1>4, <1>5, <1>6, <1>7 DEF Next, Commands

-----------------------------------------------------------------------------
(* The threads that have trapped on the watchpoint, and not been reported. *)
Pending(p) ==
  {t \in Thread : hit[t] # None /\ dr[t][hit[t]] = AddrOf[p] /\ dr7[t][hit[t]] = "w"}

(* The inductive form of ChangeIsShown: what a watchpoint has not read yet *)
(* some thread that has trapped on it will make it read; and a write that  *)
(* was the only one is either shown, or the only one to be pending, with   *)
(* the value before it still in data.                                      *)
Shown(p) ==
  /\ p \in steady => Enabled(p) /\ (data[p] = mem[p] \/ Pending(p) # {})
  /\ wrote[p] = 0 => Pending(p) = {}
  /\ wrote[p] = 1 => /\ phase = "prompt" \/ p \in steady
                     /\ \/ prev[p] = old[p] /\ Pending(p) = {}
                        \/ data[p] = old[p] /\ \E t \in Thread : Pending(p) = {t}

ShownInv == ~late => \A p \in Watch : Shown(p)

(* What that comes to when no trap is pending.                             *)
Settled(p) ==
  /\ p \in steady => Enabled(p) /\ data[p] = mem[p]
  /\ wrote[p] = 1 => (phase = "prompt" \/ p \in steady) /\ prev[p] = old[p]

(* When none is pending they are the same.                                 *)
LEMMA ShownIsSettled ==
  ASSUME NEW p \in Watch, Pending(p) = {}
  PROVE  Shown(p) <=> Settled(p)
  BY DEF Shown, Settled

(* A step that is not about watchpoint p leaves it settled.                *)
LEMMA OtherSettled ==
  ASSUME NEW p \in Watch, Settled(p),
         point'[p] = point[p], mem'[p] = mem[p], data'[p] = data[p], prev'[p] = prev[p],
         p \in steady' <=> p \in steady, wrote'[p] = wrote[p], old'[p] = old[p],
         phase = "prompt" => phase' = "prompt" \/ wrote'[p] = 0
  PROVE  Settled(p)'
  BY DEF Settled, Enabled, Present

(* The debugger's actions leave every watchpoint settled: one that is set  *)
(* reads its first value, one that is disabled is not steady any more, one *)
(* written in a step neither, and a run starts with no writes.             *)
LEMMA CommandsSettle ==
  ASSUME TypeOK, Commands, \A p \in Watch : Settled(p)
  PROVE  \A p \in Watch : Settled(p)'
<1> TAKE p \in Watch
<1>0. Settled(p) /\ p \in Point /\ p \notin Exec
  BY DEF Point
<1>1. ASSUME NEW q \in Point, NEW i \in Slot,
             CreateWatchpoint(q, i) \/ CreateBreakpoint(q, i) \/ Enable(q, i)
      PROVE  Settled(p)'
  <2>1. UNCHANGED <<mem, prev, wrote, old, phase>> /\ phase = "prompt"
    BY <1>1 DEF CreateWatchpoint, CreateBreakpoint, Enable, AtPrompt, wait
  <2>2. point' = [point EXCEPT ![q] = [on |-> TRUE, idx |-> i]]
    BY <1>1 DEF CreateWatchpoint, CreateBreakpoint, Enable
  <2>3. (p = q => Enabled(p)') /\ (p # q => point'[p] = point[p])
    <3>1. CASE p = q
      <4>1. point'[p] = [on |-> TRUE, idx |-> i]
        BY <1>0, <2>2, <3>1 DEF TypeOK
      <4>2. point'[p] # None /\ point'[p].on
        BY <4>1, EnabledFields
      <4>. QED BY <3>1, <4>2 DEF Enabled, Present
    <3>2. CASE p # q
      <4>1. point \in [Point -> FieldsOf \cup {None}]
        BY DEF TypeOK
      <4>2. point'[p] = point[p]
        BY <1>0, <2>2, <3>2, <4>1
      <4>. QED BY <3>2, <4>2
    <3>. QED BY <3>1, <3>2
  <2>4. p \in steady' => (p \in steady /\ data'[p] = data[p]) \/ (p = q /\ data'[p] = mem[p])
    BY <1>1 DEF CreateWatchpoint, CreateBreakpoint, Enable, TypeOK
  <2>. QED BY <1>0, <2>1, <2>3, <2>4 DEF Settled, Enabled, Present
<1>2. ASSUME NEW q \in Point, CreateBreakpointFails(q) PROVE Settled(p)'
  <2>1. point'[p] = point[p]
    BY <1>2 DEF CreateBreakpointFails, RegistersAssumption
  <2>. QED BY <1>0, <1>2, <2>1, OtherSettled DEF CreateBreakpointFails, AtPrompt, wait
<1>3. ASSUME NEW q \in Point, Disable(q) PROVE Settled(p)'
  <2>1. UNCHANGED <<mem, data, prev, wrote, old, phase>> /\ phase = "prompt"
    BY <1>3 DEF Disable, AtPrompt, wait
  <2>2. p \in steady' => p \in steady /\ p # q
    BY <1>3 DEF Disable
  <2>3. p # q => point'[p] = point[p]
    BY <1>3 DEF Disable
  <2>. QED BY <1>0, <2>1, <2>2, <2>3 DEF Settled, Enabled, Present
<1>4. ASSUME NEW q \in Point, Delete(q) PROVE Settled(p)'
  <2>1. UNCHANGED <<mem, phase>> /\ phase = "prompt"
    BY <1>4 DEF Delete, Forgotten, wait
  <2>2. CASE p = q
    BY <1>4, <2>2 DEF Delete, Forgotten, Settled
  <2>3. CASE p # q
    <3>1. /\ point'[p] = point[p] /\ data'[p] = data[p] /\ prev'[p] = prev[p]
          /\ wrote'[p] = wrote[p] /\ old'[p] = old[p] /\ (p \in steady' <=> p \in steady)
      BY <1>4, <2>3 DEF Delete, Forgotten
    <3>. QED BY <1>0, <2>1, <3>1, OtherSettled
  <2>. QED BY <2>2, <2>3
<1>5. ASSUME NEW t \in Thread, SelectThread(t) PROVE Settled(p)'
  BY <1>0, <1>5, OtherSettled DEF SelectThread, AtPrompt, wait
<1>6. ASSUME NEW t \in Thread, BeginStep(t) PROVE Settled(p)'
  <2>1. UNCHANGED <<mem, data, prev, steady>>
    BY <1>6 DEF BeginStep
  <2>2. point'[p] = point[p]
    <3>1. \A q \in Exec : q # p
      BY <1>0
    <3>. QED BY <1>0, <1>6, <3>1 DEF BeginStep, TypeOK
  <2>3. \/ phase = "resuming" /\ UNCHANGED <<wrote, old>>
        \/ wrote'[p] = 0
    BY <1>6 DEF BeginStep, NewRun
  <2>. QED BY <1>0, <2>1, <2>2, <2>3 DEF Settled, Enabled, Present
<1>7. ASSUME Resume PROVE Settled(p)'
  <2>1. UNCHANGED <<point, mem, data, prev, steady>> /\ wrote'[p] = 0
    BY <1>7 DEF Resume, NewRun
  <2>. QED BY <1>0, <2>1 DEF Settled, Enabled, Present
<1>8. ASSUME EndStep PROVE Settled(p)'
  <2>1. UNCHANGED <<data, prev, old>> /\ phase = "stepping"
    BY <1>8 DEF EndStep
  <2>2. point'[p] = point[p]
    <3>1. held # None => held # p
      BY <1>0 DEF TypeOK
    <3>2. point \in [Point -> FieldsOf \cup {None}]
      BY DEF TypeOK
    <3>. QED BY <1>0, <1>8, <3>1, <3>2 DEF EndStep
  <2>3. CASE UNCHANGED <<mem, steady, wrote>>
    BY <1>0, <2>1, <2>2, <2>3, OtherSettled
  <2>4. ASSUME NEW q \in Watch, NEW v \in Value, StepWrites(q, v) PROVE Settled(p)'
    <3>1. CASE p = q
      <4>1. p \notin steady'
        BY <2>4, <3>1 DEF StepWrites
      <4>2. wrote'[p] # 1
        <5>1. CASE Present(p)
          BY <2>4, <3>1, <5>1 DEF StepWrites, TypeOK
        <5>2. CASE ~Present(p)
          BY <1>0, <2>1, <2>4, <3>1, <5>2 DEF StepWrites, Settled, Enabled
        <5>. QED BY <5>1, <5>2
      <4>. QED BY <4>1, <4>2 DEF Settled
    <3>2. CASE p # q
      <4>1. mem'[p] = mem[p] /\ wrote'[p] = wrote[p] /\ (p \in steady' <=> p \in steady)
        BY <2>4, <3>2 DEF StepWrites, TypeOK
      <4>. QED BY <1>0, <2>1, <2>2, <4>1, OtherSettled
    <3>. QED BY <3>1, <3>2
  <2>. QED BY <1>8, <2>3, <2>4 DEF EndStep
<1>9. ASSUME Continue \/ Return PROVE Settled(p)'
  BY <1>0, <1>9, OtherSettled DEF Continue, Return, history
<1>. QED BY <1>1, <1>2, <1>3, <1>4, <1>5, <1>6, <1>7, <1>8, <1>9 DEF Commands

(* Only a thread that has trapped for the watchpoint is taken for one that *)
(* has, and none that has is overlooked, as long as no thread is created   *)
(* late: it makes the watchpoint read memory and stops being pending.      *)
LEMMA ReportShows ==
  ASSUME TypeOK, SlotsOwned, IndexInv, ArmedEverywhere, ~late, HitInv,
         NEW t \in Thread, HandleSignal(t), phase \in {"running", "stopping"},
         UNCHANGED <<dr, dr7, point, mem, wrote, old>>, phase' # "prompt",
         NEW p \in Watch, Shown(p)
  PROVE  Shown(p)'
<1>1. hit'[t] = None /\ \A u \in Thread : u # t => hit'[u] = hit[u]
  BY DEF HandleSignal, TypeOK
<1>2. Pending(p)' = Pending(p) \ {t}
  BY <1>1 DEF Pending
<1>3. \A q \in Watch : AddrOf[q] = AddrOf[p] => q = p
  OBVIOUS
<1>4. \/ Trapped(t) = {} /\ UNCHANGED <<data, prev, steady>>
      \/ \E q \in Trapped(t) : UpdateData(q)
  BY DEF HandleSignal
<1>5. CASE t \in Pending(p)
  <2>1. t \in live /\ hit[t] \in Slot /\ dr[t][hit[t]] = AddrOf[p] /\ dr7[t][hit[t]] = "w"
    BY <1>5 DEF Pending, HitInv, TypeOK
  <2>2. AddrOf[p] # None /\ "w" # None
    BY EnabledFields DEF Point, Cond
  <2>3. PICK q \in Point : /\ Enabled(q) /\ point[q].idx = hit[t]
                           /\ AddrOf[q] = AddrOf[p] /\ CondOf(q) = "w"
    BY <2>1, <2>2 DEF SlotsOwned
  <2>4. q = p
    BY <1>3, <2>3 DEF CondOf, Point
  <2>5. Trapped(t) = {p}
    <3>1. p \in Found(t, hit[t]) /\ \A r \in Found(t, hit[t]) : r \in Watch /\ AddrOf[r] = AddrOf[p]
      BY <2>1, <2>3, <2>4 DEF Found, Enabled
    <3>. QED BY <1>3, <1>5, <3>1 DEF Trapped, Pending
  <2>6. UpdateData(p)
    BY <1>4, <2>5
  <2>7. data'[p] = mem[p] /\ prev'[p] = data[p] /\ steady' = steady \cup {p}
    BY <2>3, <2>4, <2>6 DEF UpdateData, Refreshed, TypeOK
  <2>8. Enabled(p)' /\ mem'[p] = mem[p] /\ wrote'[p] = wrote[p] /\ old'[p] = old[p]
    BY <2>3, <2>4 DEF Enabled, Present
  <2>9. wrote[p] = 1 => data[p] = old[p] /\ Pending(p) = {t}
    BY <1>5 DEF Shown
  <2>10. wrote[p] # 0
    BY <1>5 DEF Shown
  <2>11. wrote'[p] = 1 => prev'[p] = old'[p] /\ Pending(p)' = {}
    BY <1>2, <2>7, <2>8, <2>9
  <2>. QED BY <2>7, <2>8, <2>10, <2>11 DEF Shown
<1>6. CASE t \notin Pending(p)
  <2>1. Pending(p)' = Pending(p)
    BY <1>2, <1>6
  <2>2. CASE UNCHANGED <<data, prev, steady>>
    BY <2>1, <2>2 DEF Shown, Enabled, Present
  <2>3. ASSUME NEW q \in Trapped(t), UpdateData(q) PROVE Shown(p)'
    <3>1. q \in Watch /\ q \in Point /\ hit[t] # None /\ Present(q)
          /\ AddrOf[q] = dr[t][hit[t]] /\ point[q].idx = hit[t]
      BY DEF Trapped, Found, Point
    <3>2. CASE q = p
      <4>1. ~Enabled(p)
        <5> SUFFICES ASSUME Enabled(p) PROVE FALSE
          OBVIOUS
        <5>1. t \in live /\ CondOf(p) = "w" /\ p \in Point
          BY <3>1, <3>2 DEF HitInv, CondOf
        <5>2. dr7[t][hit[t]] = "w"
          BY <3>1, <3>2, <5>1 DEF ArmedEverywhere, Programmed
        <5>. QED BY <1>6, <3>1, <3>2, <5>2 DEF Pending
      <4>2. p \notin steady /\ wrote[p] # 1
        BY <4>1 DEF Shown
      <4>3. steady' = steady
        BY <2>3, <3>2, <4>1 DEF UpdateData, Refreshed
      <4>. QED BY <2>1, <4>2, <4>3 DEF Shown
    <3>3. CASE q # p
      <4>1. data'[p] = data[p] /\ prev'[p] = prev[p] /\ (p \in steady' <=> p \in steady)
        BY <2>3, <3>1, <3>3 DEF UpdateData, Refreshed, TypeOK
      <4>. QED BY <2>1, <4>1 DEF Shown, Enabled, Present
    <3>. QED BY <3>2, <3>3
  <2>. QED BY <1>4, <2>2, <2>3
<1>. QED BY <1>5, <1>6

(* A thread that writes stops for the watchpoint at that address, if one   *)
(* is enabled; the trap is then pending, with the value from before the    *)
(* write still in data if it is the first.                                 *)
LEMMA WriteShows ==
  ASSUME TypeOK, SlotsOwned, IndexInv, ArmedEverywhere, ~late, HitInv,
         NEW t \in Thread, NEW q \in Watch, NEW v \in Value, Write(t, q, v),
         NEW p \in Watch, Shown(p)
  PROVE  Shown(p)'
<1>1. /\ UNCHANGED <<phase, dr, dr7, point, data, prev, steady>>
      /\ phase # "prompt" /\ t \in live /\ hit[t] = None
  BY DEF Write, Executes, HitInv, TypeOK
<1>2. mem' = [mem EXCEPT ![q] = v]
  BY DEF Write
<1>3. AddrOf[q] # None /\ "w" # None /\ q \in Point /\ CondOf(q) = "w"
  BY EnabledFields DEF Point, Cond, CondOf
<1>4. CASE UNCHANGED <<hit, runs>> /\ \A i \in Slot : ~(dr[t][i] = AddrOf[q] /\ dr7[t][i] = "w")
  <2>1. Pending(p)' = Pending(p)
    BY <1>1, <1>4 DEF Pending
  <2>2. ~Enabled(q)
    BY <1>1, <1>3, <1>4 DEF ArmedEverywhere, IndexInv, Programmed
  <2>3. CASE p = q
    <3>1. p \notin steady /\ wrote[p] # 1
      BY <1>1, <2>2, <2>3 DEF Shown
    <3>2. wrote'[p] = wrote[p] \/ wrote'[p] = 2
      BY <2>3, <3>1 DEF Write, TypeOK
    <3>. QED BY <1>1, <2>1, <3>1, <3>2 DEF Shown
  <2>4. CASE p # q
    <3>1. mem'[p] = mem[p] /\ wrote'[p] = wrote[p] /\ old'[p] = old[p]
      BY <2>4 DEF Write, TypeOK
    <3>. QED BY <1>1, <2>1, <3>1 DEF Shown, Enabled, Present
  <2>. QED BY <2>3, <2>4
<1>5. ASSUME NEW i \in Slot, dr[t][i] = AddrOf[q], dr7[t][i] = "w", hit' = [hit EXCEPT ![t] = i]
      PROVE  Shown(p)'
  <2>1. hit'[t] = i /\ i # None /\ \A u \in Thread : u # t => hit'[u] = hit[u]
    BY <1>5 DEF TypeOK
  <2>2. Enabled(q)
    <3>1. PICK r \in Point : Enabled(r) /\ AddrOf[r] = AddrOf[q] /\ CondOf(r) = "w"
      BY <1>1, <1>3, <1>5 DEF SlotsOwned
    <3>. QED BY <1>3, <3>1, OnePoint
  <2>3. CASE p = q
    <3>1. Pending(p)' = Pending(p) \cup {t} /\ t \notin Pending(p)
      BY <1>1, <1>5, <2>1, <2>3 DEF Pending
    <3>2. /\ wrote'[p] = IF wrote[p] = 0 /\ p \in steady THEN 1 ELSE 2
          /\ wrote'[p] = 1 => old'[p] = mem[p]
      BY <2>2, <2>3 DEF Write, TypeOK, Enabled
    <3>3. Enabled(p)'
      BY <1>1, <2>2, <2>3 DEF Enabled, Present
    <3>4. wrote'[p] = 1 => /\ p \in steady' /\ data'[p] = old'[p] /\ Pending(p)' = {t}
      BY <1>1, <3>1, <3>2 DEF Shown
    <3>. QED BY <3>1, <3>2, <3>3, <3>4 DEF Shown
  <2>4. CASE p # q
    <3>1. AddrOf[p] # AddrOf[q]
      BY <2>4
    <3>2. Pending(p)' = Pending(p)
      BY <1>1, <1>5, <2>1, <3>1 DEF Pending
    <3>3. mem'[p] = mem[p] /\ wrote'[p] = wrote[p] /\ old'[p] = old[p]
      BY <2>4 DEF Write, TypeOK
    <3>. QED BY <1>1, <3>2, <3>3 DEF Shown, Enabled, Present
  <2>. QED BY <2>3, <2>4
<1>. QED BY <1>4, <1>5, AccessHits DEF Write

(* Every step keeps the watchpoints shown.                                 *)
LEMMA ShownStep ==
  ASSUME ~Rearm
  PROVE  TypeOK /\ HeldInv /\ SlotsOwned /\ IndexInv /\ ArmedEverywhere /\ HitInv /\ ShownInv
           /\ [Next]_vars => ShownInv'
<1> SUFFICES ASSUME TypeOK, HeldInv, SlotsOwned, IndexInv, ArmedEverywhere, HitInv, ShownInv,
                    [Next]_vars, ~late'
             PROVE  \A p \in Watch : Shown(p)'
  BY DEF ShownInv
<1> ~late
  BY LateStays
<1>0. \A p \in Watch : Shown(p)
  BY DEF ShownInv
<1>1. CASE Commands
  <2>1. \A p \in Watch : Pending(p) = {} /\ Pending(p)' = {}
    BY <1>1, CommandsHit DEF Pending
  <2>2. \A p \in Watch : Settled(p)
    BY <1>0, <2>1, ShownIsSettled
  <2>3. \A p \in Watch : Settled(p)'
    BY <1>1, <2>2, CommandsSettle
  <2>. QED BY <2>1, <2>3 DEF Shown, Settled
<1>2. ASSUME NEW t \in Thread, NewThread(t), NEW p \in Watch PROVE Shown(p)'
  <2>1. /\ UNCHANGED <<phase, hit, point, mem, data, prev, steady, wrote, old>>
        /\ ~Enabled(p) /\ hit[t] = None /\ phase = "running"
    BY <1>2 DEF NewThread, HitInv, Point
  <2>2. \A u \in Thread : u # t => dr'[u] = dr[u] /\ dr7'[u] = dr7[u]
    BY <1>2 DEF NewThread, TypeOK
  <2>3. Pending(p)' = Pending(p)
    BY <2>1, <2>2 DEF Pending
  <2>. QED BY <1>0, <2>1, <2>3 DEF Shown
<1>3. ASSUME NEW t \in Thread, NEW x \in Exec, Break(t, x), NEW p \in Watch PROVE Shown(p)'
  <2>1. /\ UNCHANGED <<phase, dr, dr7, point, mem, data, prev, steady, wrote, old>> /\ hit[t] = None
    BY <1>3 DEF Break, Executes, HitInv, history
  <2>2. Pending(p)' = Pending(p)
    <3>1. CASE UNCHANGED hit
      BY <2>1, <3>1 DEF Pending
    <3>2. ASSUME NEW i \in Slot, dr7[t][i] = "x", hit' = [hit EXCEPT ![t] = i]
          PROVE  Pending(p)' = Pending(p)
      <4>1. hit'[t] = i /\ \A u \in Thread : u # t => hit'[u] = hit[u]
        BY <3>2 DEF TypeOK
      <4>. QED BY <2>1, <3>2, <4>1 DEF Pending
    <3>. QED BY <1>3, <3>1, <3>2, AccessHits DEF Break
  <2>. QED BY <1>0, <2>1, <2>2 DEF Shown, Enabled, Present
<1>4. ASSUME NEW t \in Thread, NEW q \in Watch, NEW v \in Value, Write(t, q, v), NEW p \in Watch
      PROVE  Shown(p)'
  BY <1>0, <1>4, WriteShows
<1>5. ASSUME NEW t \in Thread, ReportStop(t) \/ CollectStop(t), NEW p \in Watch PROVE Shown(p)'
  <2>1. /\ HandleSignal(t) /\ UNCHANGED <<dr, dr7, point, mem, wrote, old>>
        /\ phase \in {"running", "stopping"} /\ phase' # "prompt"
    BY <1>5 DEF ReportStop, CollectStop
  <2>. QED BY <1>0, <2>1, ReportShows
<1>6. CASE UNCHANGED vars
  BY <1>0, <1>6 DEF vars, wait, history, Shown, Pending, Enabled, Present
<1>. QED BY <1>1, <1>2, <1>3, <1>4, <1>5, <1>6 DEF Next, Commands

(* Until a thread is created while a stoppoint is enabled, a stop shows    *)
(* the change a run has made (handleSignal, UpdateData), for any number of *)
(* registers, stoppoints, threads and writes, wherever the other threads   *)
(* are when memory is read again: Data is the value in memory, unless the  *)
(* watchpoint has been disabled or written to in a step since it was read, *)
(* and PreviousData the value from before the run's only write to it.      *)
THEOREM ChangeShown ==
  ASSUME ~Rearm
  PROVE  Spec => []ChangeIsShown
<1>1. Init => SlotsOwned /\ IndexInv /\ ArmedEverywhere /\ HitInv /\ ShownInv
  <2> SUFFICES ASSUME Init PROVE SlotsOwned /\ IndexInv /\ ArmedEverywhere /\ HitInv /\ ShownInv
    OBVIOUS
  <2>1. HitInv /\ \A p \in Watch : Pending(p) = {} /\ p \notin steady /\ wrote[p] = 0
    BY DEF Init, HitInv, Pending
  <2>. QED BY <2>1 DEF Init, SlotsOwned, IndexInv, ArmedEverywhere, ShownInv, Shown, Enabled, Present
<1>2. HitInv /\ ShownInv => ChangeIsShown
  <2> SUFFICES ASSUME HitInv, phase = "prompt", ~late, ShownInv, NEW p \in Watch
               PROVE  /\ p \in steady => data[p] = mem[p]
                      /\ wrote[p] = 1 => prev[p] = old[p]
    BY DEF ChangeIsShown
  <2>1. Pending(p) = {}
    BY NoneIsHit DEF Pending
  <2>. QED BY <2>1, ShownIsSettled DEF ShownInv, Settled
<1>. QED BY <1>1, <1>2, TypeCorrect, Holding, OwnedStep, IndexStep, ArmedStep, HitStep, ShownStep,
            PTL DEF Spec
=============================================================================
