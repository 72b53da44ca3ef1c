----------------------- MODULE BreakpointSites_proofs -----------------------
(* Proofs about the breakpoint sites, for any set of addresses and bytes.  *)
EXTENDS BreakpointSites, TLAPS

USE SitesAssumption, NoSiteAssumption

(* What the control state says about the collection: the site a step-over  *)
(* has disabled, the one the entry handler is about to remove and the one  *)
(* the running command holds are all in the collection, and the entry      *)
(* handler never runs on a site that a command holds.                      *)
HeldSites ==
  /\ phase = "stepover" => Present(pc)
  /\ phase \in {"resolve", "oneshot"} => Present(Entry) /\ site[Entry].onHit = "entry"
  /\ cmd \in {"until", "call"} => Present(at) /\ site[at].onHit = "none"
  /\ cmd = "call" => at = Entry
  /\ phase \in {"launch", "attach", "prompt"} => cmd = "none"

TypeInv == TypeOK /\ HeldSites

(* NewSite builds a site record.                                           *)
LEMMA NewSiteType ==
  ASSUME TypeOK, counter < MaxSites, NEW hw \in BOOLEAN, NEW in \in BOOLEAN, NEW h \in Handler
  PROVE  /\ NewSite(hw, in, h) \in SiteRec
         /\ NewSite(hw, in, h).onHit = h
         /\ NewSite(hw, in, h).hardware = hw
         /\ counter + 1 \in 0 .. MaxSites
  BY DEF TypeOK, NewSite, SiteRec, Handler

(* Enable and Disable keep a site a site, memory a memory, and leave the   *)
(* hit handler alone.                                                      *)
LEMMA EnableType ==
  ASSUME TypeOK, NEW s \in SiteRec, NEW a \in Addr
  PROVE  /\ EnabledSite(s, a) \in SiteRec /\ EnabledSite(s, a).onHit = s.onHit
         /\ DisabledSite(s) \in SiteRec /\ DisabledSite(s).onHit = s.onHit
         /\ MemEnabled(s, a) \in [Addr -> Byte]
         /\ MemDisabled(s, a) \in [Addr -> Byte]
  BY DEF TypeOK, EnabledSite, DisabledSite, MemEnabled, MemDisabled, SiteRec

(* Installing a hit handler keeps a site a site.                           *)
LEMMA HandlerType ==
  ASSUME NEW s \in SiteRec, NEW h \in Handler
  PROVE  [s EXCEPT !.onHit = h] \in SiteRec /\ [s EXCEPT !.onHit = h].onHit = h
  BY DEF SiteRec

(* Init establishes the invariant.                                         *)
LEMMA TypeInit == Init => TypeInv
<1> SUFFICES ASSUME Init PROVE TypeInv
  OBVIOUS
<1>1. phase \in {"launch", "attach", "prompt"}
  BY Zenon DEF Init
<1>2. NoCollection \in [Addr -> SiteRec \cup {NoSite}]
  BY DEF NoCollection
<1>3. 0 \in 0 .. MaxSites
  OBVIOUS
<1>4. TypeOK
  BY <1>1, <1>2, <1>3 DEF Init, TypeOK, Phase, Handler
<1>5. HeldSites
  BY <1>1 DEF Init, HeldSites
<1>. QED BY <1>4, <1>5 DEF TypeInv

(* Every step keeps it.                                                    *)
LEMMA TypeStep == TypeInv /\ [Next]_vars => TypeInv'
<1> SUFFICES ASSUME TypeInv, [Next]_vars PROVE TypeInv'
  OBVIOUS
<1> USE DEF TypeInv, TypeOK, HeldSites, Present, Phase
<1>1. ASSUME NEW a \in Addr, NEW hw \in BOOLEAN, SetBreakpoint(a, hw) PROVE TypeInv'
  <2> DEFINE s == NewSite(hw, FALSE, "none")
  <2>1. s \in SiteRec /\ counter + 1 \in 0 .. MaxSites
    BY <1>1, NewSiteType DEF SetBreakpoint, CreateEnabled, Handler
  <2>2. EnabledSite(s, a) \in SiteRec /\ MemEnabled(s, a) \in [Addr -> Byte]
    BY <2>1, EnableType
  <2>. QED BY <1>1, <2>1, <2>2 DEF SetBreakpoint, CreateEnabled, run
<1>2. ASSUME NEW a \in Addr, NEW hw \in BOOLEAN, SetAddressFails(a, hw) PROVE TypeInv'
  <2>1. NewSite(hw, FALSE, "none") \in SiteRec /\ counter + 1 \in 0 .. MaxSites
    BY <1>2, NewSiteType DEF SetAddressFails, Handler
  <2>. QED BY <1>2, <2>1 DEF SetAddressFails, run
<1>3. ASSUME NEW a \in Addr, NEW hw \in BOOLEAN, SetLocationFails(a, hw) PROVE TypeInv'
  BY <1>3 DEF SetLocationFails, run
<1>4. ASSUME NEW a \in Addr, NEW id \in Ids, EnableCommand(a, id) PROVE TypeInv'
  <2>1. site[a] \in SiteRec
    BY <1>4 DEF EnableCommand, FirstWithID
  <2>2. EnabledSite(site[a], a) \in SiteRec /\ MemEnabled(site[a], a) \in [Addr -> Byte]
    BY <2>1, EnableType
  <2>. QED BY <1>4, <2>2 DEF EnableCommand, EnableAt, run
<1>5. ASSUME NEW a \in Addr, NEW id \in Ids, DisableCommand(a, id) PROVE TypeInv'
  <2>1. site[a] \in SiteRec
    BY <1>5 DEF DisableCommand, FirstWithID
  <2>2. DisabledSite(site[a]) \in SiteRec /\ MemDisabled(site[a], a) \in [Addr -> Byte]
    BY <2>1, EnableType
  <2>. QED BY <1>5, <2>2 DEF DisableCommand, DisableAt, run
<1>6. ASSUME NEW a \in Addr, NEW id \in Ids, DeleteCommand(a, id) PROVE TypeInv'
  <2>1. site[a] \in SiteRec
    BY <1>6 DEF DeleteCommand, FirstWithID
  <2>2. MemDisabled(site[a], a) \in [Addr -> Byte]
    BY <2>1, EnableType
  <2>. QED BY <1>6, <2>2 DEF DeleteCommand, run
<1>7. ASSUME NEW a \in Addr, NEW v \in Patch, WriteMemory(a, v) PROVE TypeInv'
  BY <1>7 DEF WriteMemory, run
<1>8. ASSUME InstallEntryPointBreakpoint PROVE TypeInv'
  <2> DEFINE s == NewSite(FALSE, TRUE, "entry")
  <2>1. s \in SiteRec /\ counter + 1 \in 0 .. MaxSites
    BY <1>8, NewSiteType DEF InstallEntryPointBreakpoint, CreateEnabled, Handler
  <2>2. EnabledSite(s, Entry) \in SiteRec /\ MemEnabled(s, Entry) \in [Addr -> Byte]
    BY <2>1, EnableType
  <2>. QED BY <1>8, <2>1, <2>2 DEF InstallEntryPointBreakpoint, CreateEnabled, Begin, Handler
<1>9. ASSUME Continue PROVE TypeInv'
  BY <1>9 DEF Continue, Begin, Handler
<1>10. ASSUME NEW a \in Addr, RunUntilAddress(a) PROVE TypeInv'
  <2> DEFINE s == NewSite(FALSE, TRUE, "none")
  <2>1. s \in SiteRec /\ s.onHit = "none" /\ counter + 1 \in 0 .. MaxSites
    BY <1>10, NewSiteType DEF RunUntilAddress, CreateEnabled, Handler
  <2>2. EnabledSite(s, a) \in SiteRec /\ EnabledSite(s, a).onHit = "none"
        /\ MemEnabled(s, a) \in [Addr -> Byte]
    BY <2>1, EnableType
  <2>. QED BY <1>10, <2>1, <2>2 DEF RunUntilAddress, CreateEnabled, Begin, Handler
<1>11. ASSUME NEW a \in Addr, Stop(a) PROVE TypeInv'
  BY <1>11 DEF Stop, Goto, run
<1>12. ASSUME NEW a \in Addr, CleanUpTemporary(a) PROVE TypeInv'
  <2>1. site[at] \in SiteRec
    BY <1>12 DEF CleanUpTemporary
  <2>2. DisabledSite(site[at]) \in SiteRec /\ MemDisabled(site[at], at) \in [Addr -> Byte]
    BY <2>1, EnableType
  <2>. QED BY <1>12, <2>2 DEF CleanUpTemporary, End, NoCollection, Handler
<1>13. ASSUME NEW f \in Addr, CallWithOwnSite(f) PROVE TypeInv'
  <2> DEFINE s == NewSite(FALSE, TRUE, "none")
  <2>1. s \in SiteRec /\ s.onHit = "none" /\ counter + 1 \in 0 .. MaxSites
    BY <1>13, NewSiteType DEF CallWithOwnSite, CreateEnabled, Handler
  <2>2. EnabledSite(s, Entry) \in SiteRec /\ EnabledSite(s, Entry).onHit = "none"
        /\ MemEnabled(s, Entry) \in [Addr -> Byte]
    BY <2>1, EnableType
  <2>. QED BY <1>13, <2>1, <2>2 DEF CallWithOwnSite, CreateEnabled, Begin, Handler
<1>14. ASSUME NEW f \in Addr, CallWithBorrowedSite(f) PROVE TypeInv'
  <2>1. site[Entry] \in SiteRec
    BY <1>14 DEF CallWithBorrowedSite
  <2>2. /\ [site[Entry] EXCEPT !.onHit = "none"] \in SiteRec
        /\ [site[Entry] EXCEPT !.onHit = "none"].onHit = "none"
    BY <2>1, HandlerType DEF Handler
  <2>3. site[Entry].onHit \in Handler
    BY <2>1 DEF SiteRec
  <2>. QED BY <1>14, <2>2, <2>3 DEF CallWithBorrowedSite, Begin
<1>15. ASSUME ResumeStepsOver PROVE TypeInv'
  <2>1. site[pc] \in SiteRec
    BY <1>15 DEF ResumeStepsOver, EnabledAt
  <2>2. DisabledSite(site[pc]) \in SiteRec /\ DisabledSite(site[pc]).onHit = site[pc].onHit
        /\ MemDisabled(site[pc], pc) \in [Addr -> Byte]
    BY <2>1, EnableType
  <2>. QED BY <1>15, <2>2 DEF ResumeStepsOver, DisableAt, Goto, run
<1>16. ASSUME FinishStepOver PROVE TypeInv'
  <2>1. site[pc] \in SiteRec
    BY <1>16 DEF FinishStepOver
  <2>2. EnabledSite(site[pc], pc) \in SiteRec /\ EnabledSite(site[pc], pc).onHit = site[pc].onHit
        /\ MemEnabled(site[pc], pc) \in [Addr -> Byte]
    BY <2>1, EnableType
  <2>. QED BY <1>16, <2>2 DEF FinishStepOver, EnableAt, Goto, run
<1>17. ASSUME ResumeRuns PROVE TypeInv'
  BY <1>17 DEF ResumeRuns, Goto, run
<1>18. ASSUME HitEntry PROVE TypeInv'
  BY <1>18 DEF HitEntry, SoftwareAt, EnabledAt, Goto, run
<1>19. ASSUME ResolveRendezvous PROVE TypeInv'
  <2> DEFINE s == NewSite(FALSE, TRUE, "dl")
  <2>1. s \in SiteRec /\ counter + 1 \in 0 .. MaxSites
    BY <1>19, NewSiteType DEF ResolveRendezvous, CreateEnabled, Handler
  <2>2. EnabledSite(s, DlState) \in SiteRec /\ MemEnabled(s, DlState) \in [Addr -> Byte]
    BY <2>1, EnableType
  <2>. QED BY <1>19, <2>1, <2>2 DEF ResolveRendezvous, CreateEnabled, AfterResolve, Goto, run
<1>20. ASSUME NoRendezvous PROVE TypeInv'
  BY <1>20 DEF NoRendezvous, AfterResolve, Goto, run
<1>21. ASSUME RemoveEntryBreakpoint PROVE TypeInv'
  <2>1. site[Entry] \in SiteRec
    BY <1>21 DEF RemoveEntryBreakpoint
  <2>2. MemDisabled(site[Entry], Entry) \in [Addr -> Byte]
    BY <2>1, EnableType
  <2>. QED BY <1>21, <2>2 DEF RemoveEntryBreakpoint, DisableAndRemove, Goto, run
<1>22. ASSUME RestoreExprState PROVE TypeInv'
  <2>1. site[Entry] \in SiteRec
    BY <1>22 DEF RestoreExprState
  <2>2. MemDisabled(site[Entry], Entry) \in [Addr -> Byte]
    BY <2>1, EnableType
  <2>3. [site[Entry] EXCEPT !.onHit = old] \in SiteRec
    BY <2>1, HandlerType
  <2>. QED BY <1>22, <2>2, <2>3 DEF RestoreExprState, DisableAndRemove, End, NoCollection, Handler
<1>23. ASSUME ReturnFromContinue PROVE TypeInv'
  BY <1>23 DEF ReturnFromContinue, End, NoCollection, Handler
<1>24. ASSUME NEW a \in Addr, RunUntilAddressFails(a) PROVE TypeInv'
  BY <1>24 DEF RunUntilAddressFails, run
<1>25. ASSUME NEW a \in Addr, NEW b \in Addr, RunUntilAddressDrops(a, b) PROVE TypeInv'
  <2>1. NewSite(FALSE, TRUE, "none") \in SiteRec /\ counter + 1 \in 0 .. MaxSites
    BY <1>25, NewSiteType DEF RunUntilAddressDrops, Handler
  <2>. QED BY <1>25, <2>1 DEF RunUntilAddressDrops, run
<1>26. CASE UNCHANGED vars
  BY <1>26 DEF vars
<1>. QED
  BY <1>1, <1>2, <1>3, <1>4, <1>5, <1>6, <1>7, <1>8, <1>9, <1>10, <1>11, <1>12, <1>13,
     <1>14, <1>15, <1>16, <1>17, <1>18, <1>19, <1>20, <1>21, <1>22, <1>23, <1>24, <1>25,
     <1>26 DEF Next

(* The invariant holds throughout.                                         *)
THEOREM TypeInvariant == Spec => []TypeInv
  BY TypeInit, TypeStep, PTL DEF Spec

(* The collection, memory and the control state of the running command     *)
(* keep their types, whatever the program, the user and the bounds are.    *)
THEOREM TypeCorrect == Spec => []TypeOK
<1>1. TypeInv => TypeOK
  BY DEF TypeInv
<1>. QED BY <1>1, TypeInvariant, PTL

-----------------------------------------------------------------------------
(* What Enable and Disable do to the fields of a site and to memory.       *)
LEMMA EnableEffect ==
  ASSUME TypeOK, NEW s \in SiteRec, NEW a \in Addr
  PROVE  /\ EnabledSite(s, a).enabled
         /\ EnabledSite(s, a).hardware = s.hardware
         /\ ~s.hardware => EnabledSite(s, a).saved = mem[a] /\ MemEnabled(s, a)[a] = Int3
         /\ s.hardware => MemEnabled(s, a) = mem
         /\ \A b \in Addr : b # a => MemEnabled(s, a)[b] = mem[b]
  BY DEF TypeOK, EnabledSite, MemEnabled, SiteRec

(* Disable clears the flag and puts the saved byte back, nothing else.     *)
LEMMA DisableEffect ==
  ASSUME TypeOK, NEW s \in SiteRec, NEW a \in Addr
  PROVE  /\ ~DisabledSite(s).enabled
         /\ DisabledSite(s).hardware = s.hardware
         /\ ~s.hardware => MemDisabled(s, a)[a] = s.saved
         /\ s.hardware => MemDisabled(s, a) = mem
         /\ \A b \in Addr : b # a => MemDisabled(s, a)[b] = mem[b]
  BY DEF TypeOK, DisabledSite, MemDisabled, SiteRec

(* The fields that identify a site survive Enable, Disable and a change of *)
(* hit handler.                                                            *)
Identity(s) == <<s.id, s.ord, s.internal>>

(* Enable, Disable and a new handler keep the identity of a site.          *)
LEMMA IdentityKept ==
  ASSUME NEW s \in SiteRec, NEW a \in Addr, NEW h \in Handler
  PROVE  /\ Identity(EnabledSite(s, a)) = Identity(s)
         /\ Identity(DisabledSite(s)) = Identity(s)
         /\ Identity([s EXCEPT !.onHit = h]) = Identity(s)
  BY DEF Identity, EnabledSite, DisabledSite, SiteRec

(* Ids and creation numbers: an internal site has id -1, a user site the   *)
(* value the counter had when it was created, and no two sites were        *)
(* created with the same value.                                            *)
WellNumbered(s) ==
  /\ s.ord \in 1 .. counter
  /\ s.internal => s.id = -1
  /\ ~s.internal => s.id = s.ord

IdInv ==
  /\ \A a \in Addr : Present(a) => WellNumbered(site[a])
  /\ \A a, b \in Addr : Present(a) /\ Present(b) /\ site[a].ord = site[b].ord => a = b

(* The ways a step can change who is in the collection.                    *)
SameMembers ==
  /\ counter' >= counter /\ counter' \in Nat
  /\ \A a \in Addr : /\ Present(a)' => Present(a)
                     /\ Present(a)' => Identity(site'[a]) = Identity(site[a])

OneMore(a) ==
  /\ counter' = counter + 1
  /\ ~Present(a)
  /\ site'[a].ord = counter + 1
  /\ site'[a].internal => site'[a].id = -1
  /\ ~site'[a].internal => site'[a].id = counter + 1
  /\ \A b \in Addr : b # a /\ Present(b)' => site'[b] = site[b]

(* CreateBreakpointSite adds one site with a fresh creation number.        *)
LEMMA CreateIsOneMore ==
  ASSUME TypeInv, NEW a \in Addr, NEW hw \in BOOLEAN, NEW in \in BOOLEAN, NEW h \in Handler,
         CreateEnabled(a, NewSite(hw, in, h))
  PROVE  OneMore(a)
<1> DEFINE s == NewSite(hw, in, h)
<1>1. s \in SiteRec /\ s.ord = counter + 1 /\ (s.internal => s.id = -1)
      /\ (~s.internal => s.id = counter + 1)
  BY NewSiteType DEF CreateEnabled, NewSite, TypeInv
<1>2. Identity(EnabledSite(s, a)) = Identity(s)
  BY <1>1, IdentityKept DEF Handler
<1>3. site'[a] = EnabledSite(s, a)
  BY DEF CreateEnabled, TypeInv, TypeOK
<1>4. site'[a].ord = s.ord /\ site'[a].internal = s.internal /\ site'[a].id = s.id
  BY <1>2, <1>3 DEF Identity
<1>. QED BY <1>1, <1>4 DEF OneMore, CreateEnabled, TypeInv, TypeOK

(* Every step keeps the members, drops some, or creates one site (and may  *)
(* drop another).                                                          *)
LEMMA MemberSteps ==
  ASSUME TypeInv, [Next]_vars
  PROVE  SameMembers \/ \E a \in Addr : OneMore(a)
<1> USE DEF TypeInv, TypeOK, HeldSites
<1>0. counter \in Nat /\ "none" \in Handler /\ "entry" \in Handler /\ "dl" \in Handler
  BY DEF Handler
<1>1. ASSUME UNCHANGED <<site, counter>> PROVE SameMembers
  BY <1>0, <1>1 DEF SameMembers, Present
<1>2. ASSUME NEW a \in Addr, Present(a), NEW s \in SiteRec, Identity(s) = Identity(site[a]),
             site' = [site EXCEPT ![a] = s], counter' = counter
      PROVE  SameMembers
  BY <1>0, <1>2 DEF SameMembers, Present
<1>3. ASSUME NEW a \in Addr, site' = [site EXCEPT ![a] = NoSite], counter' = counter
      PROVE  SameMembers
  BY <1>0, <1>3 DEF SameMembers, Present
<1>4. ASSUME NEW a \in Addr, Present(a), EnableAt(a) \/ DisableAt(a), counter' = counter
      PROVE  SameMembers
  <2>1. site[a] \in SiteRec
    BY <1>4 DEF Present
  <2>2. /\ EnabledSite(site[a], a) \in SiteRec /\ DisabledSite(site[a]) \in SiteRec
        /\ Identity(EnabledSite(site[a], a)) = Identity(site[a])
        /\ Identity(DisabledSite(site[a])) = Identity(site[a])
    BY <2>1, <1>0, EnableType, IdentityKept
  <2>. QED BY <1>2, <1>4, <2>2 DEF EnableAt, DisableAt
<1>5. ASSUME NEW h \in Handler, Present(Entry), counter' = counter,
             site' = [site EXCEPT ![Entry] = [site[Entry] EXCEPT !.onHit = h]]
      PROVE  SameMembers
  <2>1. site[Entry] \in SiteRec
    BY <1>5 DEF Present
  <2>2. [site[Entry] EXCEPT !.onHit = h] \in SiteRec
        /\ Identity([site[Entry] EXCEPT !.onHit = h]) = Identity(site[Entry])
    BY <2>1, HandlerType, IdentityKept
  <2>. QED BY <1>2, <1>5, <2>2
<1>6. ASSUME NEW a \in Addr, NEW hw \in BOOLEAN, SetBreakpoint(a, hw) PROVE OneMore(a)
  BY <1>6, <1>0, CreateIsOneMore DEF SetBreakpoint
<1>7. ASSUME NEW a \in Addr, NEW hw \in BOOLEAN, SetAddressFails(a, hw) PROVE OneMore(a)
  <2>1. /\ NewSite(hw, FALSE, "none").ord = counter + 1
        /\ ~NewSite(hw, FALSE, "none").internal
        /\ NewSite(hw, FALSE, "none").id = counter + 1
    BY DEF NewSite
  <2>. QED BY <1>7, <2>1 DEF SetAddressFails, OneMore
<1>8. ASSUME NEW a \in Addr, NEW hw \in BOOLEAN, SetLocationFails(a, hw) PROVE SameMembers
  BY <1>8, <1>0 DEF SetLocationFails, SameMembers, Present
<1>9. ASSUME NEW a \in Addr, NEW id \in Ids,
             EnableCommand(a, id) \/ DisableCommand(a, id) \/ DeleteCommand(a, id)
      PROVE  SameMembers
  BY <1>9, <1>3, <1>4 DEF EnableCommand, DisableCommand, DeleteCommand, FirstWithID
<1>10. ASSUME InstallEntryPointBreakpoint PROVE OneMore(Entry)
  BY <1>10, <1>0, CreateIsOneMore DEF InstallEntryPointBreakpoint
<1>11. ASSUME NEW a \in Addr, RunUntilAddress(a) PROVE OneMore(a)
  BY <1>11, <1>0, CreateIsOneMore DEF RunUntilAddress
<1>12. ASSUME NEW a \in Addr, CleanUpTemporary(a) PROVE SameMembers
  <2>1. site[at] \in SiteRec /\ Present(at)
    BY <1>12 DEF Present, CleanUpTemporary
  <2>2. DisabledSite(site[at]) \in SiteRec /\ Identity(DisabledSite(site[at])) = Identity(site[at])
    BY <2>1, <1>0, EnableType, IdentityKept
  <2>. QED BY <1>12, <1>0, <2>1, <2>2 DEF CleanUpTemporary, SameMembers, Present
<1>13. ASSUME NEW f \in Addr, CallWithOwnSite(f) PROVE OneMore(Entry)
  BY <1>13, <1>0, CreateIsOneMore DEF CallWithOwnSite
<1>14. ASSUME NEW f \in Addr, CallWithBorrowedSite(f) PROVE SameMembers
  BY <1>14, <1>0, <1>5 DEF CallWithBorrowedSite
<1>15. ASSUME ResumeStepsOver \/ FinishStepOver PROVE SameMembers
  BY <1>15, <1>4 DEF ResumeStepsOver, FinishStepOver, EnabledAt
<1>16. ASSUME ResolveRendezvous PROVE OneMore(DlState)
  BY <1>16, <1>0, CreateIsOneMore DEF ResolveRendezvous
<1>17. ASSUME RemoveEntryBreakpoint PROVE SameMembers
  BY <1>17, <1>3 DEF RemoveEntryBreakpoint, DisableAndRemove
<1>18. ASSUME RestoreExprState PROVE SameMembers
  BY <1>18, <1>3, <1>5 DEF RestoreExprState, DisableAndRemove
<1>19. ASSUME \/ \E a \in Addr, v \in Patch : WriteMemory(a, v)
              \/ Continue \/ ResumeRuns \/ HitEntry \/ NoRendezvous \/ ReturnFromContinue
              \/ \E a \in Addr : Stop(a)
              \/ UNCHANGED vars
       PROVE  SameMembers
  BY <1>19, <1>1 DEF WriteMemory, Continue, ResumeRuns, HitEntry, NoRendezvous,
     ReturnFromContinue, Stop, vars
<1>20. ASSUME NEW a \in Addr, RunUntilAddressFails(a) PROVE SameMembers
  BY <1>20, <1>0 DEF RunUntilAddressFails, SameMembers, Present
<1>21. ASSUME NEW a \in Addr, NEW b \in Addr, RunUntilAddressDrops(a, b) PROVE OneMore(a)
  <2>1. /\ NewSite(FALSE, TRUE, "none").ord = counter + 1
        /\ NewSite(FALSE, TRUE, "none").internal
        /\ NewSite(FALSE, TRUE, "none").id = -1
    BY DEF NewSite
  <2>2. a # b
    BY <1>21 DEF RunUntilAddressDrops, FirstWithID
  <2>. QED BY <1>21, <2>1, <2>2 DEF RunUntilAddressDrops, OneMore, Present
<1>. QED
  BY <1>6, <1>7, <1>8, <1>9, <1>10, <1>11, <1>12, <1>13, <1>14, <1>15, <1>16, <1>17, <1>18,
     <1>19, <1>20, <1>21 DEF Next

(* Every step keeps the numbering of the sites.                            *)
LEMMA IdStep == TypeInv /\ IdInv /\ [Next]_vars => IdInv'
<1> SUFFICES ASSUME TypeInv, IdInv, [Next]_vars PROVE IdInv'
  OBVIOUS
<1>0. TypeInv'
  BY TypeStep
<1>1. CASE SameMembers
  <2>1. \A a \in Addr : Present(a)' =>
           /\ Present(a)
           /\ site'[a].ord = site[a].ord /\ site'[a].id = site[a].id
           /\ site'[a].internal = site[a].internal
    BY <1>1 DEF SameMembers, Identity
  <2>2. counter \in Nat /\ counter' \in Nat /\ counter' >= counter
    BY <1>1 DEF SameMembers, TypeInv, TypeOK
  <2>. QED BY <2>1, <2>2 DEF IdInv, WellNumbered
<1>2. ASSUME NEW a \in Addr, OneMore(a) PROVE IdInv'
  <2>1. \A b \in Addr : b # a /\ Present(b)' => Present(b) /\ site'[b] = site[b]
    BY <1>2 DEF OneMore, Present
  <2>2. counter \in Nat
    BY DEF TypeInv, TypeOK
  <2>. QED BY <1>2, <2>1, <2>2 DEF IdInv, WellNumbered, OneMore
<1>. QED BY <1>1, <1>2, MemberSteps

(* The id a user types names one site: no two user-visible sites share an  *)
(* id and none has the internal -1, for every program and every user.      *)
THEOREM UserIDs == Spec => []UserIDsUnique
<1>1. Init => IdInv
  BY DEF Init, IdInv, Present, NoCollection
<1>2. TypeInv /\ IdInv => UserIDsUnique
  BY DEF IdInv, WellNumbered, UserIDsUnique, UserSite, Present, TypeInv, TypeOK
<1>. QED BY <1>1, <1>2, IdStep, TypeInvariant, PTL DEF Spec
-----------------------------------------------------------------------------
(* How a step may touch one address: the flags, the saved byte and memory. *)
Untouched(a) == site'[a] = site[a] /\ mem'[a] = mem[a]
Dropped(a)   == site'[a] = NoSite
Armed(a)     == /\ site'[a] # NoSite /\ site'[a].enabled
                /\ ~site'[a].hardware => mem'[a] = Int3 /\ site'[a].saved = mem[a]
                /\ site'[a].hardware => mem'[a] = mem[a]
Disarmed(a)  == site'[a] # NoSite /\ ~site'[a].enabled
Rehandled(a) == /\ site'[a] # NoSite /\ site[a] # NoSite
                /\ site'[a].enabled = site[a].enabled
                /\ site'[a].hardware = site[a].hardware
                /\ site'[a].saved = site[a].saved
                /\ mem'[a] = mem[a]
Written(a)   == ~SoftwareAt(a) /\ site'[a] = site[a]

Touch(a) == Untouched(a) \/ Dropped(a) \/ Armed(a) \/ Disarmed(a) \/ Rehandled(a) \/ Written(a)

(* EnableAt on a site of the collection arms its address only.             *)
LEMMA EnableAtTouch ==
  ASSUME TypeInv, NEW a \in Addr, Present(a), EnableAt(a)
  PROVE  Armed(a) /\ \A b \in Addr : b # a => Untouched(b)
<1> USE DEF TypeInv, TypeOK
<1>1. site[a] \in SiteRec
  BY DEF Present
<1>2. EnabledSite(site[a], a) \in SiteRec
  BY <1>1, EnableType
<1>3. site'[a] = EnabledSite(site[a], a) /\ mem' = MemEnabled(site[a], a)
  BY DEF EnableAt
<1>4. EnabledSite(site[a], a) # NoSite
  BY <1>2
<1>5. Armed(a)
  BY <1>1, <1>3, <1>4, EnableEffect DEF Armed
<1>6. \A b \in Addr : b # a => Untouched(b)
  BY <1>1, <1>3, EnableEffect DEF EnableAt, Untouched
<1>. QED BY <1>5, <1>6

(* DisableAt on a site of the collection disarms its address only.         *)
LEMMA DisableAtTouch ==
  ASSUME TypeInv, NEW a \in Addr, Present(a), DisableAt(a)
  PROVE  Disarmed(a) /\ \A b \in Addr : b # a => Untouched(b)
<1> USE DEF TypeInv, TypeOK
<1>1. site[a] \in SiteRec
  BY DEF Present
<1>2. DisabledSite(site[a]) \in SiteRec
  BY <1>1, EnableType
<1>3. site'[a] = DisabledSite(site[a]) /\ mem' = MemDisabled(site[a], a)
  BY DEF DisableAt
<1>4. Disarmed(a)
  BY <1>1, <1>2, <1>3, DisableEffect DEF Disarmed
<1>5. \A b \in Addr : b # a => Untouched(b)
  BY <1>1, <1>3, DisableEffect DEF DisableAt, Untouched
<1>. QED BY <1>4, <1>5

(* CreateEnabled arms the address it creates a site at, and no other.      *)
LEMMA CreateTouch ==
  ASSUME TypeInv, NEW a \in Addr, NEW hw \in BOOLEAN, NEW in \in BOOLEAN, NEW h \in Handler,
         CreateEnabled(a, NewSite(hw, in, h))
  PROVE  Armed(a) /\ \A b \in Addr : b # a => Untouched(b)
<1> USE DEF TypeInv, TypeOK
<1> DEFINE s == NewSite(hw, in, h)
<1>1. s \in SiteRec
  BY NewSiteType DEF CreateEnabled
<1>2. EnabledSite(s, a) \in SiteRec
  BY <1>1, EnableType
<1>3. site'[a] = EnabledSite(s, a) /\ mem' = MemEnabled(s, a)
  BY DEF CreateEnabled
<1>4. EnabledSite(s, a) # NoSite
  BY <1>2
<1> HIDE DEF s
<1>5. Armed(a)
  BY <1>1, <1>3, <1>4, EnableEffect DEF Armed
<1>6. \A b \in Addr : b # a => Untouched(b)
  BY <1>1, <1>3, EnableEffect DEF CreateEnabled, Untouched, s
<1>. QED BY <1>5, <1>6

(* Every step touches every address in one of the ways above, unless the   *)
(* user may write memory under a trap.                                     *)
LEMMA EveryStepTouches ==
  ASSUME TypeInv, [Next]_vars, ~PatchTraps
  PROVE  \A b \in Addr : Touch(b)
<1> USE DEF TypeInv, TypeOK, HeldSites
<1>0. "none" \in Handler /\ "entry" \in Handler /\ "dl" \in Handler
  BY DEF Handler
<1>1. ASSUME NEW a \in Addr, Armed(a) \/ Disarmed(a) \/ Dropped(a),
             \A b \in Addr : b # a => Untouched(b)
      PROVE  \A b \in Addr : Touch(b)
  BY <1>1 DEF Touch
<1>2. ASSUME UNCHANGED <<mem, site>> PROVE \A b \in Addr : Touch(b)
  BY <1>2 DEF Touch, Untouched
<1>3. ASSUME NEW a \in Addr, Present(a), EnableAt(a) \/ DisableAt(a)
      PROVE  \A b \in Addr : Touch(b)
  BY <1>1, <1>3, EnableAtTouch, DisableAtTouch
<1>4. ASSUME NEW a \in Addr, Present(a), DisableAndRemove(a) PROVE \A b \in Addr : Touch(b)
  <2>1. site[a] \in SiteRec
    BY <1>4 DEF Present
  <2>2. \A b \in Addr : b # a => Untouched(b)
    BY <1>4, <2>1, DisableEffect DEF DisableAndRemove, Untouched
  <2>. QED BY <1>1, <1>4, <2>2 DEF Dropped, DisableAndRemove
<1>5. ASSUME NEW a \in Addr, NEW hw \in BOOLEAN, SetBreakpoint(a, hw) PROVE \A b \in Addr : Touch(b)
  BY <1>0, <1>1, <1>5, CreateTouch DEF SetBreakpoint
<1>6. ASSUME NEW a \in Addr, NEW hw \in BOOLEAN, SetAddressFails(a, hw)
      PROVE  \A b \in Addr : Touch(b)
  <2>1. NewSite(hw, FALSE, "none") \in SiteRec /\ ~NewSite(hw, FALSE, "none").enabled
    BY <1>6, <1>0, NewSiteType DEF SetAddressFails, NewSite
  <2>2. Disarmed(a) /\ \A b \in Addr : b # a => Untouched(b)
    BY <1>6, <2>1 DEF SetAddressFails, Disarmed, Untouched
  <2>. QED BY <1>1, <2>2
<1>7. ASSUME NEW a \in Addr, NEW id \in Ids, EnableCommand(a, id) \/ DisableCommand(a, id)
      PROVE  \A b \in Addr : Touch(b)
  BY <1>3, <1>7 DEF EnableCommand, DisableCommand, FirstWithID
<1>8. ASSUME NEW a \in Addr, NEW id \in Ids, DeleteCommand(a, id) PROVE \A b \in Addr : Touch(b)
  <2>1. site[a] \in SiteRec
    BY <1>8 DEF DeleteCommand, FirstWithID, Present
  <2>2. \A b \in Addr : b # a => Untouched(b)
    BY <1>8, <2>1, DisableEffect DEF DeleteCommand, Untouched
  <2>3. Dropped(a)
    BY <1>8 DEF DeleteCommand, Dropped
  <2>. QED BY <1>1, <2>2, <2>3
<1>9. ASSUME NEW a \in Addr, NEW v \in Patch, WriteMemory(a, v) PROVE \A b \in Addr : Touch(b)
  BY <1>9 DEF WriteMemory, Touch, Written, Untouched
<1>10. ASSUME InstallEntryPointBreakpoint \/ ResolveRendezvous
       PROVE  \A b \in Addr : Touch(b)
  BY <1>0, <1>1, <1>10, CreateTouch DEF InstallEntryPointBreakpoint, ResolveRendezvous
<1>11. ASSUME NEW a \in Addr, RunUntilAddress(a) \/ CallWithOwnSite(a)
       PROVE  \A b \in Addr : Touch(b)
  BY <1>0, <1>1, <1>11, CreateTouch DEF RunUntilAddress, CallWithOwnSite
<1>12. ASSUME NEW a \in Addr, CleanUpTemporary(a) PROVE \A b \in Addr : Touch(b)
  <2>1. site[at] \in SiteRec
    BY <1>12 DEF CleanUpTemporary, Present
  <2>2. DisabledSite(site[at]) \in SiteRec /\ ~DisabledSite(site[at]).enabled
    BY <2>1, EnableType, DisableEffect
  <2>3. Dropped(a)
    BY <1>12 DEF CleanUpTemporary, Dropped
  <2>4. a # at => Disarmed(at)
    BY <1>12, <2>2 DEF CleanUpTemporary, Disarmed
  <2>5. \A b \in Addr : b # a /\ b # at => Untouched(b)
    BY <1>12, <2>1, DisableEffect DEF CleanUpTemporary, Untouched
  <2>. QED BY <2>3, <2>4, <2>5 DEF Touch
<1>13. ASSUME NEW h \in Handler, Present(Entry), UNCHANGED mem,
              site' = [site EXCEPT ![Entry] = [site[Entry] EXCEPT !.onHit = h]]
       PROVE  \A b \in Addr : Touch(b)
  <2>1. site[Entry] \in SiteRec
    BY <1>13 DEF Present
  <2>2. [site[Entry] EXCEPT !.onHit = h] \in SiteRec
    BY <2>1, HandlerType
  <2>3. /\ [site[Entry] EXCEPT !.onHit = h].enabled = site[Entry].enabled
        /\ [site[Entry] EXCEPT !.onHit = h].hardware = site[Entry].hardware
        /\ [site[Entry] EXCEPT !.onHit = h].saved = site[Entry].saved
    BY <2>1 DEF SiteRec
  <2>4. Rehandled(Entry)
    BY <1>13, <2>2, <2>3 DEF Rehandled, Present
  <2>. QED BY <1>13, <2>4 DEF Touch, Untouched
<1>14. ASSUME NEW f \in Addr, CallWithBorrowedSite(f) PROVE \A b \in Addr : Touch(b)
  BY <1>0, <1>13, <1>14 DEF CallWithBorrowedSite
<1>15. ASSUME ResumeStepsOver \/ FinishStepOver PROVE \A b \in Addr : Touch(b)
  BY <1>3, <1>15 DEF ResumeStepsOver, FinishStepOver, EnabledAt
<1>16. ASSUME RemoveEntryBreakpoint PROVE \A b \in Addr : Touch(b)
  BY <1>4, <1>16 DEF RemoveEntryBreakpoint
<1>17. ASSUME RestoreExprState PROVE \A b \in Addr : Touch(b)
  BY <1>4, <1>13, <1>17 DEF RestoreExprState
<1>18. ASSUME \/ \E a \in Addr, hw \in BOOLEAN : SetLocationFails(a, hw)
              \/ Continue \/ ResumeRuns \/ HitEntry \/ NoRendezvous \/ ReturnFromContinue
              \/ \E a \in Addr : Stop(a)
              \/ UNCHANGED vars
       PROVE  \A b \in Addr : Touch(b)
  BY <1>18, <1>2 DEF SetLocationFails, Continue, ResumeRuns, HitEntry, NoRendezvous,
     ReturnFromContinue, Stop, vars
<1>19. ASSUME NEW a \in Addr, RunUntilAddressFails(a) PROVE \A b \in Addr : Touch(b)
  BY <1>19, <1>2 DEF RunUntilAddressFails
<1>20. ASSUME NEW a \in Addr, NEW c \in Addr, RunUntilAddressDrops(a, c)
       PROVE  \A b \in Addr : Touch(b)
  <2>1. NewSite(FALSE, TRUE, "none") \in SiteRec /\ ~NewSite(FALSE, TRUE, "none").enabled
    BY <1>20, <1>0, NewSiteType DEF RunUntilAddressDrops, NewSite
  <2>2. Dropped(c)
    BY <1>20 DEF RunUntilAddressDrops, Dropped
  <2>3. a # c => Disarmed(a)
    BY <1>20, <2>1 DEF RunUntilAddressDrops, Disarmed
  <2>4. \A b \in Addr : b # a /\ b # c => Untouched(b)
    BY <1>20 DEF RunUntilAddressDrops, Untouched
  <2>. QED BY <2>2, <2>3, <2>4 DEF Touch
<1>. QED
  BY <1>5, <1>6, <1>7, <1>8, <1>9, <1>10, <1>11, <1>12, <1>14, <1>15, <1>16, <1>17, <1>18,
     <1>19, <1>20 DEF Next

(* An enabled software site always has its int3 in memory, as long as the  *)
(* user does not write memory under one: double enables and disables,      *)
(* step-overs, hit handlers and temporary sites included.                  *)
THEOREM Traps == ASSUME ~PatchTraps PROVE Spec => []TrapInPlace
<1>1. Init => TrapInPlace
  BY DEF Init, TrapInPlace, SoftwareAt, EnabledAt, Present, NoCollection
<1>2. TypeInv /\ TrapInPlace /\ [Next]_vars => TrapInPlace'
  <2> SUFFICES ASSUME TypeInv, TrapInPlace, [Next]_vars, NEW b \in Addr, SoftwareAt(b)'
               PROVE  mem'[b] = Int3
    BY DEF TrapInPlace
  <2>1. Touch(b)
    BY EveryStepTouches
  <2>. QED BY <2>1 DEF Touch, Untouched, Dropped, Armed, Disarmed, Rehandled, Written,
          TrapInPlace, SoftwareAt, EnabledAt, Present
<1>. QED BY <1>1, <1>2, TypeInvariant, PTL DEF Spec
-----------------------------------------------------------------------------
(* A static program under a user who enables only disabled sites, disables *)
(* only enabled ones and writes no memory under a trap.  Then no site has  *)
(* a hit handler, the only internal site is the one the running command    *)
(* created, it is enabled unless a step-over has disabled it for the       *)
(* moment, and a step-over ends with a site that is not enabled.           *)
HeldByCommand(a) == cmd \in {"until", "call"} /\ own /\ a = at

StaticInv ==
  /\ phase \notin {"launch", "attach", "resolve", "oneshot"}
  /\ \A a \in Addr : Present(a) => site[a].onHit = "none"
  /\ \A a \in Addr : Present(a) /\ site[a].internal => HeldByCommand(a)
  /\ cmd = "until" => own
  /\ old = "none"
  /\ HeldByCommand(at) => /\ ~site[at].hardware
                          /\ site[at].enabled \/ (phase = "stepover" /\ pc = at)
  /\ phase = "stepover" => ~site[pc].enabled

Disciplined == ~Dynamic /\ ~Rearm /\ ~PatchTraps

(* The fields of a freshly created and enabled site.                       *)
LEMMA CreatedFields ==
  ASSUME TypeInv, NEW a \in Addr, NEW hw \in BOOLEAN, NEW in \in BOOLEAN, NEW h \in Handler,
         CreateEnabled(a, NewSite(hw, in, h))
  PROVE  /\ site'[a] \in SiteRec
         /\ site'[a].enabled /\ site'[a].hardware = hw
         /\ site'[a].internal = in /\ site'[a].onHit = h
         /\ \A b \in Addr : b # a => site'[b] = site[b]
<1> DEFINE s == NewSite(hw, in, h)
<1>1. s \in SiteRec /\ s.internal = in /\ s.onHit = h /\ s.hardware = hw
  BY NewSiteType DEF CreateEnabled, NewSite, TypeInv
<1>2. site'[a] = EnabledSite(s, a)
  BY DEF CreateEnabled, TypeInv, TypeOK
<1> HIDE DEF s
<1>3. /\ EnabledSite(s, a) \in SiteRec /\ EnabledSite(s, a).onHit = s.onHit
      /\ EnabledSite(s, a).enabled /\ EnabledSite(s, a).hardware = s.hardware
  BY <1>1, EnableType, EnableEffect DEF TypeInv
<1>4. EnabledSite(s, a).internal = s.internal
  BY <1>1 DEF EnabledSite, SiteRec
<1>5. \A b \in Addr : b # a => site'[b] = site[b]
  BY DEF CreateEnabled, TypeInv, TypeOK
<1>. QED BY <1>1, <1>2, <1>3, <1>4, <1>5

(* Enabling, disabling or rehandling a site keeps its other fields.        *)
LEMMA KeptFields ==
  ASSUME TypeOK, NEW s \in SiteRec, NEW a \in Addr
  PROVE  /\ EnabledSite(s, a) \in SiteRec /\ DisabledSite(s) \in SiteRec
         /\ EnabledSite(s, a).internal = s.internal /\ DisabledSite(s).internal = s.internal
         /\ EnabledSite(s, a).hardware = s.hardware /\ DisabledSite(s).hardware = s.hardware
         /\ EnabledSite(s, a).onHit = s.onHit /\ DisabledSite(s).onHit = s.onHit
         /\ EnabledSite(s, a).enabled /\ ~DisabledSite(s).enabled
  BY DEF TypeOK, EnabledSite, DisabledSite, SiteRec

(* At the prompt there is no internal site for a failed RunUntilAddress to *)
(* drop.                                                                   *)
LEMMA NoneToDrop ==
  ASSUME TypeInv, IdInv, StaticInv, NEW a \in Addr, NEW b \in Addr
  PROVE  ~RunUntilAddressDrops(a, b)
<1>1. ASSUME phase = "prompt", Present(b) PROVE site[b].id # -1
  <2>1. ~site[b].internal
    BY <1>1 DEF StaticInv, HeldByCommand, TypeInv, HeldSites
  <2>. QED BY <1>1, <2>1 DEF IdInv, WellNumbered, TypeInv, TypeOK
<1>. QED BY <1>1 DEF RunUntilAddressDrops, FirstWithID

(* Every step keeps the control part of the invariant.                     *)
LEMMA StaticStep ==
  ASSUME Disciplined, TypeInv, IdInv, StaticInv, [Next]_vars
  PROVE  StaticInv'
<1> USE DEF TypeInv, TypeOK, HeldSites, StaticInv, HeldByCommand, Present
<1>0. "none" \in Handler
  BY DEF Handler
<1>1. ASSUME NEW a \in Addr, NEW hw \in BOOLEAN, SetBreakpoint(a, hw) PROVE StaticInv'
  <2>1. CreateEnabled(a, NewSite(hw, FALSE, "none"))
    BY <1>1 DEF SetBreakpoint
  <2>2. /\ site'[a].enabled /\ site'[a].hardware = hw
        /\ site'[a].internal = FALSE /\ site'[a].onHit = "none"
        /\ \A b \in Addr : b # a => site'[b] = site[b]
    BY <1>0, <2>1, CreatedFields
  <2>. QED BY <1>1, <2>2 DEF SetBreakpoint, run
<1>2. ASSUME NEW a \in Addr, NEW hw \in BOOLEAN, SetAddressFails(a, hw) PROVE StaticInv'
  <2>1. ~NewSite(hw, FALSE, "none").internal /\ NewSite(hw, FALSE, "none").onHit = "none"
    BY DEF NewSite
  <2>. QED BY <1>2, <2>1 DEF SetAddressFails, run
<1>3. ASSUME NEW a \in Addr, NEW hw \in BOOLEAN, SetLocationFails(a, hw) PROVE StaticInv'
  BY <1>3 DEF SetLocationFails, run
<1>4. ASSUME NEW a \in Addr, NEW id \in Ids, EnableCommand(a, id) \/ DisableCommand(a, id)
      PROVE  StaticInv'
  <2>1. site[a] \in SiteRec
    BY <1>4 DEF EnableCommand, DisableCommand, FirstWithID
  <2>2. site' = [site EXCEPT ![a] = EnabledSite(site[a], a)]
        \/ site' = [site EXCEPT ![a] = DisabledSite(site[a])]
    BY <1>4 DEF EnableCommand, DisableCommand, EnableAt, DisableAt
  <2>3. phase = "prompt" /\ UNCHANGED <<phase, pc, run>>
    BY <1>4 DEF EnableCommand, DisableCommand
  <2>4. /\ site'[a].internal = site[a].internal
        /\ site'[a].onHit = site[a].onHit
        /\ \A b \in Addr : b # a => site'[b] = site[b]
    <3>1. CASE site' = [site EXCEPT ![a] = EnabledSite(site[a], a)]
      BY <2>1, <3>1, KeptFields
    <3>2. CASE site' = [site EXCEPT ![a] = DisabledSite(site[a])]
      BY <2>1, <3>2, KeptFields
    <3>. QED BY <2>2, <3>1, <3>2
  <2>. QED BY <2>1, <2>3, <2>4 DEF run
<1>5. ASSUME NEW a \in Addr, NEW id \in Ids, DeleteCommand(a, id) PROVE StaticInv'
  BY <1>5 DEF DeleteCommand, run
<1>6. ASSUME NEW a \in Addr, NEW v \in Patch, WriteMemory(a, v) PROVE StaticInv'
  BY <1>6 DEF WriteMemory, run
<1>7. ASSUME InstallEntryPointBreakpoint \/ ResolveRendezvous \/ NoRendezvous
             \/ RemoveEntryBreakpoint
      PROVE  StaticInv'
  BY <1>7 DEF InstallEntryPointBreakpoint, ResolveRendezvous, NoRendezvous, RemoveEntryBreakpoint
<1>8. ASSUME Continue PROVE StaticInv'
  BY <1>8 DEF Continue, Begin
<1>9. ASSUME NEW a \in Addr, RunUntilAddress(a) PROVE StaticInv'
  <2>1. CreateEnabled(a, NewSite(FALSE, TRUE, "none"))
    BY <1>9 DEF RunUntilAddress
  <2>2. /\ site'[a].enabled /\ site'[a].hardware = FALSE
        /\ site'[a].internal = TRUE /\ site'[a].onHit = "none"
        /\ \A b \in Addr : b # a => site'[b] = site[b]
    BY <1>0, <2>1, CreatedFields
  <2>. QED BY <1>9, <2>2 DEF RunUntilAddress, Begin
<1>10. ASSUME NEW f \in Addr, CallWithOwnSite(f) PROVE StaticInv'
  <2>1. CreateEnabled(Entry, NewSite(FALSE, TRUE, "none"))
    BY <1>10 DEF CallWithOwnSite
  <2>2. /\ site'[Entry].enabled /\ site'[Entry].hardware = FALSE
        /\ site'[Entry].internal = TRUE /\ site'[Entry].onHit = "none"
        /\ \A b \in Addr : b # Entry => site'[b] = site[b]
    BY <1>0, <2>1, CreatedFields
  <2>. QED BY <1>10, <2>2 DEF CallWithOwnSite, Begin
<1>11. ASSUME NEW f \in Addr, CallWithBorrowedSite(f) PROVE StaticInv'
  <2>1. site[Entry] \in SiteRec
    BY <1>11 DEF CallWithBorrowedSite
  <2>2. /\ [site[Entry] EXCEPT !.onHit = "none"].onHit = "none"
        /\ [site[Entry] EXCEPT !.onHit = "none"].internal = site[Entry].internal
    BY <2>1 DEF SiteRec
  <2>3. ~site[Entry].internal
    BY <1>11 DEF CallWithBorrowedSite
  <2>. QED BY <1>11, <2>2, <2>3 DEF CallWithBorrowedSite, Begin
<1>12. ASSUME ResumeStepsOver PROVE StaticInv'
  <2>1. site[pc] \in SiteRec
    BY <1>12 DEF ResumeStepsOver, EnabledAt
  <2>. QED BY <1>12, <2>1, KeptFields DEF ResumeStepsOver, DisableAt, Goto, run
<1>13. ASSUME FinishStepOver PROVE StaticInv'
  <2>1. site[pc] \in SiteRec
    BY <1>13 DEF FinishStepOver
  <2>2. /\ site'[pc].internal = site[pc].internal /\ site'[pc].enabled
        /\ site'[pc].onHit = site[pc].onHit /\ site'[pc].hardware = site[pc].hardware
        /\ \A b \in Addr : b # pc => site'[b] = site[b]
    BY <1>13, <2>1, KeptFields DEF FinishStepOver, EnableAt
  <2>. QED BY <1>13, <2>1, <2>2 DEF FinishStepOver, Goto, run
<1>14. ASSUME ResumeRuns \/ \E a \in Addr : Stop(a) PROVE StaticInv'
  BY <1>14 DEF ResumeRuns, Stop, Goto, run
<1>15. ASSUME HitEntry PROVE StaticInv'
  BY <1>15 DEF HitEntry, SoftwareAt, EnabledAt
<1>16. ASSUME NEW a \in Addr, CleanUpTemporary(a) PROVE StaticInv'
  <2>1. a = at
    BY <1>16 DEF CleanUpTemporary, FirstWithID, IdInv, WellNumbered
  <2>2. \A b \in Addr : b # at => site'[b] = site[b]
    BY <1>16, <2>1 DEF CleanUpTemporary
  <2>3. site'[at] = NoSite
    BY <1>16, <2>1 DEF CleanUpTemporary
  <2>. QED BY <1>16, <2>2, <2>3 DEF CleanUpTemporary, End
<1>17. ASSUME RestoreExprState PROVE StaticInv'
  <2>1. site[Entry] \in SiteRec
    BY <1>17 DEF RestoreExprState
  <2>2. CASE own
    BY <1>17, <2>2 DEF RestoreExprState, DisableAndRemove, End
  <2>3. CASE ~own
    <3>1. /\ [site[Entry] EXCEPT !.onHit = old].onHit = old
          /\ [site[Entry] EXCEPT !.onHit = old].internal = site[Entry].internal
      BY <2>1 DEF SiteRec
    <3>. QED BY <1>17, <2>3, <3>1 DEF RestoreExprState, End
  <2>. QED BY <2>2, <2>3
<1>18. ASSUME ReturnFromContinue \/ UNCHANGED vars PROVE StaticInv'
  BY <1>18 DEF ReturnFromContinue, End, vars, run
<1>19. ASSUME NEW a \in Addr, RunUntilAddressFails(a) PROVE StaticInv'
  BY <1>19 DEF RunUntilAddressFails, run
<1>20. ASSUME NEW a \in Addr, NEW b \in Addr PROVE ~RunUntilAddressDrops(a, b)
  BY NoneToDrop
<1>. QED
  BY <1>1, <1>2, <1>3, <1>4, <1>5, <1>6, <1>7, <1>8, <1>9, <1>10, <1>11, <1>12, <1>13, <1>14,
     <1>15, <1>16, <1>17, <1>18, <1>19, <1>20 DEF Next

(* The bytes ReadMemoryWithoutTraps shows are kept at a.                   *)
SameView(a) == View(a)' = View(a)

(* Enabling a site that is not enabled, and creating one, keep the view.   *)
LEMMA EnableView ==
  ASSUME TypeInv, NEW a \in Addr, NEW s \in SiteRec, ~SoftwareAt(a),
         site' = [site EXCEPT ![a] = EnabledSite(s, a)], mem' = MemEnabled(s, a)
  PROVE  \A b \in Addr : SameView(b)
<1> USE DEF TypeInv, TypeOK
<1>0. EnabledSite(s, a) # NoSite
  <2>1. EnabledSite(s, a) \in SiteRec
    BY EnableType
  <2>. QED BY <2>1
<1>1. /\ EnabledSite(s, a).enabled
      /\ EnabledSite(s, a).hardware = s.hardware
      /\ ~s.hardware => EnabledSite(s, a).saved = mem[a]
      /\ s.hardware => mem' = mem
      /\ \A b \in Addr : b # a => mem'[b] = mem[b]
  BY EnableEffect
<1>2. SameView(a)
  BY <1>0, <1>1 DEF SameView, View, SoftwareAt, EnabledAt, Present
<1>3. \A b \in Addr : b # a => SameView(b)
  BY <1>0, <1>1 DEF SameView, View, SoftwareAt, EnabledAt, Present
<1>. QED BY <1>2, <1>3

(* Disabling an enabled site keeps the view, whether the site then stays   *)
(* in the collection or goes.                                              *)
LEMMA DisableView ==
  ASSUME TypeInv, NEW a \in Addr, EnabledAt(a), mem' = MemDisabled(site[a], a),
         \/ site' = [site EXCEPT ![a] = DisabledSite(site[a])]
         \/ site' = [site EXCEPT ![a] = NoSite]
  PROVE  \A b \in Addr : SameView(b)
<1> USE DEF TypeInv, TypeOK
<1>0. site[a] \in SiteRec
  BY DEF EnabledAt, Present
<1>1. /\ ~DisabledSite(site[a]).enabled
      /\ ~site[a].hardware => mem'[a] = site[a].saved
      /\ site[a].hardware => mem' = mem
      /\ \A b \in Addr : b # a => mem'[b] = mem[b]
  BY <1>0, DisableEffect
<1>2. SameView(a)
  BY <1>1 DEF SameView, View, SoftwareAt, EnabledAt, Present
<1>3. \A b \in Addr : b # a => SameView(b)
  BY <1>1 DEF SameView, View, SoftwareAt, EnabledAt, Present
<1>. QED BY <1>2, <1>3

(* A disciplined step keeps the view everywhere, or is a memory write.     *)
LEMMA StepView ==
  ASSUME Disciplined, TypeInv, IdInv, StaticInv, [Next]_vars
  PROVE  \/ text' = text /\ \A b \in Addr : SameView(b)
         \/ \E a \in Addr, v \in Patch : WriteMemory(a, v)
<1> USE DEF TypeInv, TypeOK, HeldSites
<1>0. "none" \in Handler
  BY DEF Handler
<1>1. ASSUME UNCHANGED <<mem, site>> PROVE \A b \in Addr : SameView(b)
  BY <1>1 DEF SameView, View, SoftwareAt, EnabledAt, Present
<1>2. ASSUME NEW a \in Addr, NEW hw \in BOOLEAN, NEW in \in BOOLEAN,
             CreateEnabled(a, NewSite(hw, in, "none"))
      PROVE  \A b \in Addr : SameView(b)
  <2>1. NewSite(hw, in, "none") \in SiteRec
    BY <1>0, <1>2, NewSiteType DEF CreateEnabled
  <2>2. ~SoftwareAt(a)
    BY <1>2 DEF CreateEnabled, SoftwareAt, EnabledAt
  <2>. QED BY <1>2, <2>1, <2>2, EnableView DEF CreateEnabled
<1>3. ASSUME NEW a \in Addr, NEW hw \in BOOLEAN, SetBreakpoint(a, hw)
      PROVE  text' = text /\ \A b \in Addr : SameView(b)
  BY <1>2, <1>3 DEF SetBreakpoint
<1>4. ASSUME NEW a \in Addr, NEW hw \in BOOLEAN, SetAddressFails(a, hw)
      PROVE  text' = text /\ \A b \in Addr : SameView(b)
  <2>1. ~NewSite(hw, FALSE, "none").enabled
    BY DEF NewSite
  <2>. QED BY <1>4, <2>1 DEF SetAddressFails, SameView, View, SoftwareAt, EnabledAt, Present
<1>5. ASSUME NEW a \in Addr, NEW id \in Ids, EnableCommand(a, id)
      PROVE  text' = text /\ \A b \in Addr : SameView(b)
  <2>1. site[a] \in SiteRec /\ ~SoftwareAt(a)
    BY <1>5 DEF EnableCommand, FirstWithID, Present, Disciplined, SoftwareAt, EnabledAt
  <2>. QED BY <1>5, <2>1, EnableView DEF EnableCommand, EnableAt
<1>6. ASSUME NEW a \in Addr, NEW id \in Ids, DisableCommand(a, id)
      PROVE  text' = text /\ \A b \in Addr : SameView(b)
  <2>1. EnabledAt(a)
    BY <1>6 DEF DisableCommand, FirstWithID, Disciplined, EnabledAt
  <2>. QED BY <1>6, <2>1, DisableView DEF DisableCommand, DisableAt
<1>7. ASSUME NEW a \in Addr, NEW id \in Ids, DeleteCommand(a, id)
      PROVE  text' = text /\ \A b \in Addr : SameView(b)
  <2>1. CASE site[a].enabled
    <3>1. EnabledAt(a)
      BY <1>7, <2>1 DEF DeleteCommand, FirstWithID, EnabledAt
    <3>. QED BY <1>7, <2>1, <3>1, DisableView DEF DeleteCommand
  <2>2. CASE ~site[a].enabled
    BY <1>7, <2>2 DEF DeleteCommand, FirstWithID, SameView, View, SoftwareAt, EnabledAt, Present
  <2>. QED BY <2>1, <2>2
<1>8. ASSUME NEW a \in Addr, RunUntilAddress(a) \/ CallWithOwnSite(a)
      PROVE  text' = text /\ \A b \in Addr : SameView(b)
  BY <1>2, <1>8 DEF RunUntilAddress, CallWithOwnSite
<1>9. ASSUME NEW h \in Handler, Present(Entry), UNCHANGED mem,
             site' = [site EXCEPT ![Entry] = [site[Entry] EXCEPT !.onHit = h]]
      PROVE  \A b \in Addr : SameView(b)
  <2>1. site[Entry] \in SiteRec
    BY <1>9 DEF Present
  <2>2. [site[Entry] EXCEPT !.onHit = h] # NoSite
    BY <2>1, HandlerType
  <2>3. /\ [site[Entry] EXCEPT !.onHit = h].enabled = site[Entry].enabled
        /\ [site[Entry] EXCEPT !.onHit = h].hardware = site[Entry].hardware
        /\ [site[Entry] EXCEPT !.onHit = h].saved = site[Entry].saved
    BY <2>1 DEF SiteRec
  <2>. QED BY <1>9, <2>2, <2>3 DEF SameView, View, SoftwareAt, EnabledAt, Present
<1>10. ASSUME NEW f \in Addr, CallWithBorrowedSite(f)
       PROVE  text' = text /\ \A b \in Addr : SameView(b)
  BY <1>0, <1>9, <1>10 DEF CallWithBorrowedSite
<1>11. ASSUME ResumeStepsOver PROVE text' = text /\ \A b \in Addr : SameView(b)
  BY <1>11, DisableView DEF ResumeStepsOver, DisableAt
<1>12. ASSUME FinishStepOver PROVE text' = text /\ \A b \in Addr : SameView(b)
  <2>1. site[pc] \in SiteRec /\ ~SoftwareAt(pc)
    BY <1>12 DEF FinishStepOver, Present, StaticInv, SoftwareAt, EnabledAt
  <2>. QED BY <1>12, <2>1, EnableView DEF FinishStepOver, EnableAt
<1>13. ASSUME NEW a \in Addr, CleanUpTemporary(a)
       PROVE  text' = text /\ \A b \in Addr : SameView(b)
  <2>1. a = at
    BY <1>13 DEF CleanUpTemporary, FirstWithID, IdInv, WellNumbered, StaticInv, HeldByCommand
  <2>2. EnabledAt(at)
    BY <1>13 DEF CleanUpTemporary, StaticInv, HeldByCommand, EnabledAt
  <2>3. site' = [site EXCEPT ![at] = NoSite]
    BY <1>13, <2>1 DEF CleanUpTemporary
  <2>. QED BY <1>13, <2>2, <2>3, DisableView DEF CleanUpTemporary
<1>14. ASSUME RestoreExprState PROVE text' = text /\ \A b \in Addr : SameView(b)
  <2>1. CASE own
    <3>1. EnabledAt(Entry)
      BY <1>14, <2>1 DEF RestoreExprState, StaticInv, HeldByCommand, EnabledAt
    <3>. QED BY <1>14, <2>1, <3>1, DisableView DEF RestoreExprState, DisableAndRemove
  <2>2. CASE ~own
    BY <1>9, <1>14, <2>2 DEF RestoreExprState
  <2>. QED BY <2>1, <2>2
<1>15. ASSUME \/ \E a \in Addr, hw \in BOOLEAN : SetLocationFails(a, hw)
              \/ Continue \/ ResumeRuns \/ HitEntry \/ ReturnFromContinue
              \/ \E a \in Addr : Stop(a)
              \/ UNCHANGED vars
       PROVE  text' = text /\ \A b \in Addr : SameView(b)
  BY <1>15, <1>1 DEF SetLocationFails, Continue, ResumeRuns, HitEntry, ReturnFromContinue, Stop, vars
<1>16. ~(InstallEntryPointBreakpoint \/ ResolveRendezvous \/ NoRendezvous \/ RemoveEntryBreakpoint)
  BY DEF InstallEntryPointBreakpoint, ResolveRendezvous, NoRendezvous, RemoveEntryBreakpoint, StaticInv
<1>17. ASSUME NEW a \in Addr, RunUntilAddressFails(a)
       PROVE  text' = text /\ \A b \in Addr : SameView(b)
  BY <1>17, <1>1 DEF RunUntilAddressFails
<1>18. ASSUME NEW a \in Addr, NEW b \in Addr PROVE ~RunUntilAddressDrops(a, b)
  BY NoneToDrop
<1>. QED
  BY <1>3, <1>4, <1>5, <1>6, <1>7, <1>8, <1>10, <1>11, <1>12, <1>13, <1>14, <1>15, <1>16,
     <1>17, <1>18 DEF Next

(* Init satisfies the static invariant and shows the program's bytes.      *)
LEMMA StaticInit == ASSUME Disciplined PROVE Init => IdInv /\ StaticInv /\ ViewIsText
<1> SUFFICES ASSUME Init PROVE IdInv /\ StaticInv /\ ViewIsText
  OBVIOUS
<1>1. \A a \in Addr : ~Present(a)
  BY DEF Init, NoCollection, Present
<1>2. phase = "prompt"
  BY Zenon DEF Init, Disciplined
<1>3. IdInv
  BY <1>1 DEF IdInv
<1>4. StaticInv
  BY <1>1, <1>2 DEF StaticInv, HeldByCommand, Init
<1>5. ViewIsText
  BY <1>1 DEF ViewIsText, View, SoftwareAt, EnabledAt, Init
<1>. QED BY <1>3, <1>4, <1>5

(* The static invariant and the view hold together throughout.             *)
LEMMA StaticInvariant ==
  ASSUME Disciplined
  PROVE  Spec => [](TypeInv /\ StaticInv /\ ViewIsText)
<1>1. TypeInv /\ IdInv /\ StaticInv /\ ViewIsText /\ [Next]_vars => StaticInv' /\ ViewIsText'
  <2> SUFFICES ASSUME TypeInv, IdInv, StaticInv, ViewIsText, [Next]_vars
               PROVE  StaticInv' /\ ViewIsText'
    OBVIOUS
  <2>1. ASSUME text' = text, \A b \in Addr : SameView(b) PROVE ViewIsText'
    BY <2>1 DEF ViewIsText, SameView, View, SoftwareAt, EnabledAt, Present
  <2>2. ASSUME NEW a \in Addr, NEW v \in Patch, WriteMemory(a, v) PROVE ViewIsText'
    BY <2>2 DEF WriteMemory, Disciplined, ViewIsText, View, SoftwareAt, EnabledAt, Present,
       TypeInv, TypeOK
  <2>. QED BY <2>1, <2>2, StepView, StaticStep
<1>. QED BY <1>1, StaticInit, IdStep, TypeInvariant, PTL DEF Spec

(* Reading memory without traps shows the program's own bytes at every     *)
(* step, for every static program, whatever the order of breakpoint        *)
(* commands, runs, step-overs and calls, as long as the user enables only  *)
(* disabled sites, disables only enabled ones and writes under no trap.    *)
THEOREM StaticView == ASSUME Disciplined PROVE Spec => []ViewIsText
  BY StaticInvariant, PTL

(* In such a program RunUntilAddress and EvaluateExpression leave no       *)
(* temporary site behind: removing by the shared id -1 then always finds   *)
(* the command's own site.                                                 *)
THEOREM StaticTemporaries == ASSUME Disciplined PROVE Spec => []NoTemporaryLeft
<1>1. TypeInv /\ StaticInv => NoTemporaryLeft
  BY DEF TypeInv, HeldSites, StaticInv, HeldByCommand, NoTemporaryLeft
<1>. QED BY <1>1, StaticInvariant, PTL
=============================================================================
