------------------------ MODULE BoardLifecycleProofs ------------------------
(***************************************************************************)
(* Proofs about BoardLifecycle, for any number of boards, board numbers    *)
(* and open files, and for every combination of failing steps.             *)
(***************************************************************************)
EXTENDS BoardLifecycle, FiniteSetTheorems, TLAPS

-----------------------------------------------------------------------------
(* The inductive invariant. *)

\* What probe has been through before step k; the rungs of a ladder from k on.
Before(k) == {Steps[i] : i \in 1 .. k - 1}
Below(ladder, k) == {ladder[i] : i \in k .. Len(ladder)}

\* The dma step is passed over if the PROM lists no DMA areas.
PassedOver(d) == IF d \in withDma THEN {} ELSE {"dma"}

\* What the ladder of a failed probe does not give back.
Leftover == {"prom", "cdev", "nodes", "sysfs1"}

\* The resources a device holds at each point of its life.
Holds(d) ==
    /\ stage[d] = "unbound" => res[d] = {}
    /\ stage[d] = "probe" => /\ at[d] <= Len(Steps)
                             /\ res[d] = (Before(at[d]) \cap Resources) \ PassedOver(d)
    /\ stage[d] = "bound" => res[d] = Resources \ PassedOver(d)
    /\ stage[d] = "remove" =>
           res[d] = (Below(RemoveLadder, at[d]) \cap Resources) \ PassedOver(d)
    /\ stage[d] = "unwind" =>
           /\ at[d] <= Len(UnwindLadder)
           /\ Below(UnwindLadder, at[d]) \ PassedOver(d) \subseteq res[d]
           /\ res[d] \subseteq Below(UnwindLadder, at[d]) \cup Leftover

HoldsInv == \A d \in Devs : Holds(d)

\* The module's own resources come and go together; without the driver there
\* are no files, and without the class no boards.
ModuleInv ==
    /\ module \in {{}, {"chrdev", "class", "driver"},
                   {"chrdev", "class", "exiting"}}
    /\ "driver" \notin module => \A f \in Files : fpc[f] = "closed"
    /\ module = {} => \A d \in Devs : stage[d] = "unbound"

\* A file whose struct amc_pci was not freed has one, with a cdev that was
\* added to it.
FileInv ==
    \A f \in Files :
        /\ fpc[f] = "closed" <=> fdev[f] = None
        /\ f \in stale => fpc[f] # "closed"
        /\ fpc[f] # "closed" /\ f \notin stale =>
               /\ "priv" \in res[fdev[f]]
               /\ stage[fdev[f]] = "probe" => at[fdev[f]] > 11

\* The files that hold a reference to a board's struct amc_pci.
Users(d) == {f \in Files : fdev[f] = d /\ Counted(f) /\ f \notin stale}

\* wait_for_clients has given up the driver's own reference.
Dropped(d) == stage[d] = "remove" /\ at[d] > 3

\* The count is that of the users, plus one for the driver; the completion is
\* signalled when it falls to zero and consumed before the teardown goes on.
Counts(d) ==
    /\ IsFiniteSet(Users(d))
    /\ "priv" \in res[d] =>
           IF Dropped(d)
           THEN /\ refcount[d] = Cardinality(Users(d))
                /\ at[d] > 4 => refcount[d] = 0
                /\ completion[d] = IF refcount[d] = 0 /\ at[d] = 4 THEN 1 ELSE 0
           ELSE refcount[d] = Cardinality(Users(d)) + 1 /\ completion[d] = 0

CountInv == \A d \in Devs : Counts(d)

\* The handler runs only while its interrupt is registered.
IsrInv == \A d \in inIsr : "irq" \in res[d]

IInv ==
    /\ TypeOK /\ HoldsInv /\ ModuleInv /\ FileInv /\ CountInv /\ IsrInv
    /\ BoardsDistinct /\ HardwareReturned

-----------------------------------------------------------------------------
(* The order of probe's steps and of the two ladders. *)

\* When probe has passed each of its steps.
LEMMA StepOrder ==
    ASSUME NEW k \in Int
    PROVE
        /\ "board" \in Before(k) <=> k > 1
        /\ "priv" \in Before(k) <=> k > 2
        /\ "device" \in Before(k) <=> k > 3
        /\ "regions" \in Before(k) <=> k > 4
        /\ "msi" \in Before(k) <=> k > 5
        /\ "bar2" \in Before(k) <=> k > 6
        /\ "prom" \in Before(k) <=> k > 7
        /\ "minors" \in Before(k) <=> k > 8
        /\ "dma" \in Before(k) <=> k > 9
        /\ "irq" \in Before(k) <=> k > 10
        /\ "cdev" \in Before(k) <=> k > 11
        /\ "nodes" \in Before(k) <=> k > 12
        /\ "sysfs1" \in Before(k) <=> k > 13
        /\ "sysfs2" \in Before(k) <=> k > 14
BY DEF Before, Steps

\* Which rungs of amc_pci_remove are still to come.
LEMMA RemoveOrder ==
    ASSUME NEW k \in Nat \ {0}
    PROVE
        /\ "nodes" \in Below(RemoveLadder, k) <=> k <= 1
        /\ "cdev" \in Below(RemoveLadder, k) <=> k <= 2
        /\ "count" \in Below(RemoveLadder, k) <=> k <= 3
        /\ "clients" \in Below(RemoveLadder, k) <=> k <= 4
        /\ "irq" \in Below(RemoveLadder, k) <=> k <= 5
        /\ "dma" \in Below(RemoveLadder, k) <=> k <= 6
        /\ "prom" \in Below(RemoveLadder, k) <=> k <= 7
        /\ "bar2" \in Below(RemoveLadder, k) <=> k <= 8
        /\ "msi" \in Below(RemoveLadder, k) <=> k <= 9
        /\ "regions" \in Below(RemoveLadder, k) <=> k <= 10
        /\ "device" \in Below(RemoveLadder, k) <=> k <= 11
        /\ "board" \in Below(RemoveLadder, k) <=> k <= 12
        /\ "sysfs1" \in Below(RemoveLadder, k) <=> k <= 13
        /\ "sysfs2" \in Below(RemoveLadder, k) <=> k <= 14
        /\ "priv" \in Below(RemoveLadder, k) <=> k <= 15
BY DEF Below, RemoveLadder

\* Which rungs of probe's error exits are still to come.
LEMMA UnwindOrder ==
    ASSUME NEW k \in Nat \ {0}
    PROVE
        /\ "irq" \in Below(UnwindLadder, k) <=> k <= 1
        /\ "dma" \in Below(UnwindLadder, k) <=> k <= 2
        /\ "prom" \in Below(UnwindLadder, k) <=> k <= 3
        /\ "bar2" \in Below(UnwindLadder, k) <=> k <= 4
        /\ "msi" \in Below(UnwindLadder, k) <=> k <= 5
        /\ "regions" \in Below(UnwindLadder, k) <=> k <= 6
        /\ "device" \in Below(UnwindLadder, k) <=> k <= 7
        /\ "priv" \in Below(UnwindLadder, k) <=> k <= 8
        /\ "board" \in Below(UnwindLadder, k) <=> k <= 9
BY DEF Below, UnwindLadder

\* Every step of probe but the check of the minors acquires something.
LEMMA ResourceNames ==
    Resources = {"board", "priv", "device", "regions", "msi", "bar2", "prom",
                 "dma", "irq", "cdev", "nodes", "sysfs1", "sysfs2"}
BY DEF Resources, Steps

\* The place of each step of probe.
LEMMA StepPlace ==
    ASSUME NEW k \in 1 .. 14
    PROVE
        /\ Steps[k] = "board" <=> k = 1
        /\ Steps[k] = "priv" <=> k = 2
        /\ Steps[k] = "device" <=> k = 3
        /\ Steps[k] = "regions" <=> k = 4
        /\ Steps[k] = "msi" <=> k = 5
        /\ Steps[k] = "bar2" <=> k = 6
        /\ Steps[k] = "prom" <=> k = 7
        /\ Steps[k] = "minors" <=> k = 8
        /\ Steps[k] = "dma" <=> k = 9
        /\ Steps[k] = "irq" <=> k = 10
        /\ Steps[k] = "cdev" <=> k = 11
        /\ Steps[k] = "nodes" <=> k = 12
        /\ Steps[k] = "sysfs1" <=> k = 13
        /\ Steps[k] = "sysfs2" <=> k = 14
BY DEF Steps

\* The place of each rung of remove.
LEMMA RemovePlace ==
    ASSUME NEW k \in 1 .. 15
    PROVE
        /\ RemoveLadder[k] = "nodes" <=> k = 1
        /\ RemoveLadder[k] = "cdev" <=> k = 2
        /\ RemoveLadder[k] = "count" <=> k = 3
        /\ RemoveLadder[k] = "clients" <=> k = 4
        /\ RemoveLadder[k] = "irq" <=> k = 5
        /\ RemoveLadder[k] = "dma" <=> k = 6
        /\ RemoveLadder[k] = "prom" <=> k = 7
        /\ RemoveLadder[k] = "bar2" <=> k = 8
        /\ RemoveLadder[k] = "msi" <=> k = 9
        /\ RemoveLadder[k] = "regions" <=> k = 10
        /\ RemoveLadder[k] = "device" <=> k = 11
        /\ RemoveLadder[k] = "board" <=> k = 12
        /\ RemoveLadder[k] = "sysfs1" <=> k = 13
        /\ RemoveLadder[k] = "sysfs2" <=> k = 14
        /\ RemoveLadder[k] = "priv" <=> k = 15
BY DEF RemoveLadder

\* The place of each rung of probe's error exits.
LEMMA UnwindPlace ==
    ASSUME NEW k \in 1 .. 9
    PROVE
        /\ UnwindLadder[k] = "irq" <=> k = 1
        /\ UnwindLadder[k] = "dma" <=> k = 2
        /\ UnwindLadder[k] = "prom" <=> k = 3
        /\ UnwindLadder[k] = "bar2" <=> k = 4
        /\ UnwindLadder[k] = "msi" <=> k = 5
        /\ UnwindLadder[k] = "regions" <=> k = 6
        /\ UnwindLadder[k] = "device" <=> k = 7
        /\ UnwindLadder[k] = "priv" <=> k = 8
        /\ UnwindLadder[k] = "board" <=> k = 9
        /\ UnwindLadder[k] \in Resources
BY ResourceNames DEF UnwindLadder

\* The lengths.
LEMMA Lengths ==
    Len(Steps) = 14 /\ Len(RemoveLadder) = 15 /\ Len(UnwindLadder) = 9
BY DEF Steps, RemoveLadder, UnwindLadder

\* One step further.
LEMMA BeforeNext ==
    ASSUME NEW k \in 1 .. 14
    PROVE  Before(k + 1) = Before(k) \cup {Steps[k]}
BY DEF Before

\* Nothing is done at first, all in the end.
LEMMA BeforeEnds == Before(1) = {} /\ Before(15) \cap Resources = Resources
<1>1. Before(1) = {}
  BY DEF Before
<1>2. Resources \subseteq Before(15)
  <2>1. 15 \in Int
    OBVIOUS
  <2> QED
    BY <2>1, ResourceNames, StepOrder
<1> QED
  BY <1>1, <1>2

\* One rung down, each rung is passed for good.
LEMMA BelowNext ==
    /\ \A k \in 1 .. 15 :
         /\ Below(RemoveLadder, k + 1) = Below(RemoveLadder, k) \ {RemoveLadder[k]}
         /\ RemoveLadder[k] \in Below(RemoveLadder, k)
    /\ \A k \in 1 .. 9 :
         /\ Below(UnwindLadder, k + 1) = Below(UnwindLadder, k) \ {UnwindLadder[k]}
         /\ UnwindLadder[k] \in Below(UnwindLadder, k)
<1>1. \A i, j \in 1 .. 15 : RemoveLadder[i] = RemoveLadder[j] => i = j
  BY DEF RemoveLadder
<1>2. \A i, j \in 1 .. 9 : UnwindLadder[i] = UnwindLadder[j] => i = j
  BY DEF UnwindLadder
<1>3. ASSUME NEW k \in 1 .. 15
      PROVE  /\ Below(RemoveLadder, k + 1) = Below(RemoveLadder, k) \ {RemoveLadder[k]}
             /\ RemoveLadder[k] \in Below(RemoveLadder, k)
  BY <1>1, Lengths DEF Below
<1>4. ASSUME NEW k \in 1 .. 9
      PROVE  /\ Below(UnwindLadder, k + 1) = Below(UnwindLadder, k) \ {UnwindLadder[k]}
             /\ UnwindLadder[k] \in Below(UnwindLadder, k)
  BY <1>2, Lengths DEF Below
<1> QED
  BY <1>3, <1>4

\* All resources are on remove's ladder.
LEMMA BelowEnds ==
    /\ Below(RemoveLadder, 1) \cap Resources = Resources
    /\ Below(RemoveLadder, 16) = {} /\ Below(UnwindLadder, 10) = {}
<1>1. Below(RemoveLadder, 16) = {} /\ Below(UnwindLadder, 10) = {}
  BY Lengths DEF Below
<1>2. Resources \subseteq Below(RemoveLadder, 1)
  <2>1. 1 \in Nat \ {0}
    OBVIOUS
  <2> QED
    BY <2>1, ResourceNames, RemoveOrder
<1> QED
  BY <1>1, <1>2

\* The goto of each failing step of probe enters the ladder where it gives
\* back all that was acquired so far, but for what is left over.
LEMMA LabelFits ==
    ASSUME NEW k \in 2 .. 14
    PROVE  /\ Label(Steps[k]) \in 1 .. 9
           /\ Below(UnwindLadder, Label(Steps[k])) \subseteq Before(k)
           /\ Below(UnwindLadder, Label(Steps[k])) \subseteq Resources \ {"cdev", "nodes"}
           /\ Before(k) \cap Resources
                  \subseteq Below(UnwindLadder, Label(Steps[k])) \cup Leftover
<1>1. Label(Steps[k]) = CASE k = 2 -> 9 [] k = 3 -> 8 [] k = 4 -> 7 [] k = 5 -> 6
                          [] k = 6 -> 5 [] k \in {7, 9} -> 4 [] k = 8 -> 3
                          [] k = 10 -> 2 [] k > 10 -> 1
  BY StepPlace DEF Label
<1>2. Label(Steps[k]) \in 1 .. 9
  BY <1>1
<1>3. Below(UnwindLadder, Label(Steps[k])) \subseteq
        {"irq", "dma", "prom", "bar2", "msi", "regions", "device", "priv", "board"}
  BY <1>2 DEF Below, UnwindLadder
<1> QED
  BY <1>1, <1>2, <1>3, StepOrder, UnwindOrder, ResourceNames DEF Leftover

-----------------------------------------------------------------------------
(* What a device holds: one lemma for each way in which it may change. *)

\* The step of probe, or the rung of a ladder, that a device is at.
LEMMA Places ==
    ASSUME TypeOK, HoldsInv, NEW d \in Devs
    PROVE  /\ at[d] \in 1 .. 15
           /\ stage[d] = "probe" => at[d] \in 1 .. 14
           /\ stage[d] = "unwind" => at[d] \in 1 .. 9
BY Lengths DEF TypeOK, HoldsInv, Holds

\* A device that a step does not concern keeps what it holds.
LEMMA OtherHolds ==
    ASSUME HoldsInv, NEW e \in Devs, UNCHANGED <<stage[e], at[e], res[e]>>,
           e \in withDma' <=> e \in withDma
    PROVE  Holds(e)'
BY DEF HoldsInv, Holds, PassedOver

\* A step of probe succeeds.
LEMMA AcquireHolds ==
    ASSUME TypeOK, HoldsInv, NEW d \in Devs, stage[d] = "probe", Acquire(d),
           Steps[at[d]] = "dma" => d \in withDma,
           Steps[at[d]] # "prom" => (d \in withDma' <=> d \in withDma)
    PROVE  Holds(d)'
<1> DEFINE k == at[d]
<1>1. k \in 1 .. 14 /\ res[d] = (Before(k) \cap Resources) \ PassedOver(d)
  BY Places DEF HoldsInv, Holds
<1>2. res'[d] = res[d] \cup ({Steps[k]} \cap Resources)
  BY DEF Acquire, TypeOK
<1>3. res'[d] = (Before(k + 1) \cap Resources) \ PassedOver(d)'
  <2>1. Before(k + 1) = Before(k) \cup {Steps[k]}
    BY <1>1, BeforeNext
  <2>2. CASE Steps[k] = "prom"
    <3>1. "dma" \notin Before(k) /\ "dma" # Steps[k]
      BY <1>1, <2>2, StepPlace, StepOrder
    <3> QED
      BY <1>1, <1>2, <2>1, <3>1 DEF PassedOver
  <2>3. CASE Steps[k] # "prom"
    BY <1>1, <1>2, <2>1, <2>3 DEF PassedOver
  <2> QED
    BY <2>2, <2>3
<1>4. CASE k < 14
  <2>1. stage'[d] = "probe" /\ at'[d] = k + 1
    BY <1>1, <1>4, Lengths DEF Acquire, TypeOK
  <2> QED
    BY <1>1, <1>3, <1>4, <2>1, Lengths DEF Holds
<1>5. CASE k = 14
  <2>1. stage'[d] = "bound"
    BY <1>1, <1>5, Lengths DEF Acquire, TypeOK
  <2> QED
    BY <1>3, <1>5, <2>1, BeforeEnds DEF Holds
<1> QED
  BY <1>1, <1>4, <1>5

\* A step of probe fails, and enters the ladder at its label.
LEMMA FailHolds ==
    ASSUME TypeOK, HoldsInv, NEW d \in Devs, stage[d] = "probe", at[d] > 1,
           stage' = [stage EXCEPT ![d] = "unwind"],
           at' = [at EXCEPT ![d] = Label(Steps[at[d]])],
           res[d] \ {"cdev"} \subseteq res'[d],
           res'[d] \subseteq res[d] \cup {"nodes"},
           UNCHANGED withDma
    PROVE  Holds(d)'
<1> DEFINE k == at[d]
           l == Label(Steps[k])
<1>1. k \in 2 .. 14 /\ res[d] = (Before(k) \cap Resources) \ PassedOver(d)
  BY Places DEF HoldsInv, Holds
<1>2. stage'[d] = "unwind" /\ at'[d] = l
  BY DEF TypeOK
<1>3. /\ l \in 1 .. 9
      /\ Below(UnwindLadder, l) \subseteq Before(k)
      /\ Below(UnwindLadder, l) \subseteq Resources \ {"cdev", "nodes"}
      /\ Before(k) \cap Resources \subseteq Below(UnwindLadder, l) \cup Leftover
  BY <1>1, LabelFits
<1>4. PassedOver(d)' = PassedOver(d)
  BY DEF PassedOver
<1> HIDE DEF k, l
<1>5. Below(UnwindLadder, l) \ PassedOver(d) \subseteq res'[d]
  BY <1>1, <1>3
<1>6. res'[d] \subseteq Below(UnwindLadder, l) \cup Leftover
  BY <1>1, <1>3 DEF Leftover
<1> QED
  BY <1>2, <1>3, <1>4, <1>5, <1>6, Lengths DEF Holds

\* One rung down a ladder.
LEMMA DownFacts ==
    ASSUME TypeOK, HoldsInv, NEW d \in Devs, stage[d] \in {"unwind", "remove"},
           Down(d)
    PROVE  /\ at' = [at EXCEPT ![d] = at'[d]] /\ at'[d] \in 1 .. 15
           /\ stage' = [stage EXCEPT ![d] = stage'[d]]
           /\ LastRung(d) <=> at[d] = IF stage[d] = "unwind" THEN 9 ELSE 15
           /\ IF LastRung(d) THEN stage'[d] = "unbound"
              ELSE stage'[d] = stage[d] /\ at'[d] = at[d] + 1
<1>1. LastRung(d) <=> at[d] = IF stage[d] = "unwind" THEN 9 ELSE 15
  BY Lengths DEF LastRung
<1>2. at[d] \in 1 .. 15 /\ (stage[d] = "unwind" => at[d] \in 1 .. 9)
  BY Places
<1>3. CASE LastRung(d)
  BY <1>1, <1>3 DEF Down, TypeOK
<1>4. CASE ~ LastRung(d)
  <2>1. at' = [at EXCEPT ![d] = at[d] + 1] /\ UNCHANGED stage
    BY <1>4 DEF Down
  <2>2. at'[d] = at[d] + 1 /\ stage' = [stage EXCEPT ![d] = stage'[d]]
    BY <2>1 DEF TypeOK
  <2>3. at[d] + 1 \in 1 .. 15
    BY <1>1, <1>2, <1>4
  <2> QED
    BY <1>1, <1>4, <2>1, <2>2, <2>3
<1> QED
  BY <1>3, <1>4

\* A resource is given back.
LEMMA ReleaseHolds ==
    ASSUME TypeOK, HoldsInv, NEW d \in Devs, release_resource(d)
    PROVE  Holds(d)'
<1> DEFINE k == at[d]
<1>1. stage[d] \in {"unwind", "remove"} /\ Down(d) /\ UNCHANGED withDma
  BY DEF release_resource
<1>2. PassedOver(d)' = PassedOver(d)
  BY <1>1 DEF PassedOver
<1>3. CASE LastRung(d)
  <2>1. res'[d] = {} /\ stage'[d] = "unbound"
    <3>1. stage'[d] = "unbound"
      BY <1>1, <1>3, DownFacts
    <3>2. res' = [res EXCEPT ![d] = {}]
      BY <1>3 DEF release_resource
    <3> QED
      BY <3>1, <3>2 DEF TypeOK
  <2> QED
    BY <2>1 DEF Holds
<1>4. CASE ~ LastRung(d)
  <2>1. /\ res'[d] = res[d] \ {AtRung(d)} /\ at'[d] = k + 1
        /\ stage'[d] = stage[d]
    <3>1. at'[d] = k + 1 /\ stage'[d] = stage[d]
      BY <1>1, <1>4, DownFacts
    <3>2. res' = [res EXCEPT ![d] = res[d] \ {AtRung(d)}]
      BY <1>4 DEF release_resource
    <3>3. res'[d] = res[d] \ {AtRung(d)}
      BY <3>2 DEF TypeOK
    <3> QED
      BY <3>1, <3>3
  <2>2. CASE stage[d] = "unwind"
    <3>1. k \in 1 .. 8
      BY <1>1, <1>4, <2>2, DownFacts, Places
    <3>2. AtRung(d) = UnwindLadder[k]
      BY <2>2 DEF AtRung
    <3>3. Below(UnwindLadder, k + 1) = Below(UnwindLadder, k) \ {UnwindLadder[k]}
      BY <3>1, BelowNext
    <3>4. /\ Below(UnwindLadder, k) \ PassedOver(d) \subseteq res[d]
          /\ res[d] \subseteq Below(UnwindLadder, k) \cup Leftover
      BY <2>2 DEF HoldsInv, Holds
    <3> QED
      BY <1>2, <2>1, <2>2, <3>1, <3>2, <3>3, <3>4, Lengths DEF Holds
  <2>3. CASE stage[d] = "remove"
    <3>1. k \in 1 .. 15
      BY Places
    <3>2. AtRung(d) = RemoveLadder[k]
      BY <2>3 DEF AtRung
    <3>3. Below(RemoveLadder, k + 1) = Below(RemoveLadder, k) \ {RemoveLadder[k]}
      BY <3>1, BelowNext
    <3>4. res[d] = (Below(RemoveLadder, k) \cap Resources) \ PassedOver(d)
      BY <2>3 DEF HoldsInv, Holds
    <3> QED
      BY <1>2, <2>1, <2>3, <3>2, <3>3, <3>4 DEF Holds
  <2> QED
    BY <1>1, <2>2, <2>3
<1> QED
  BY <1>3, <1>4

\* The two steps of wait_for_clients give nothing back.
LEMMA WaitHolds ==
    ASSUME TypeOK, HoldsInv, NEW d \in Devs, wait_for_clients(d)
    PROVE  /\ Holds(d)' /\ stage'[d] = "remove" /\ at'[d] = at[d] + 1
           /\ at[d] = IF AtRung(d) = "count" THEN 3 ELSE 4
<1> DEFINE k == at[d]
<1>1. /\ stage[d] = "remove" /\ Down(d) /\ UNCHANGED <<withDma, res>>
      /\ k \in 1 .. 15 /\ AtRung(d) = RemoveLadder[k]
      /\ AtRung(d) \in {"count", "clients"}
  BY Places DEF wait_for_clients, AtRung
<1>2. k = IF AtRung(d) = "count" THEN 3 ELSE 4
  BY <1>1, RemovePlace
<1>3. at'[d] = k + 1 /\ stage'[d] = "remove"
  <2>1. ~ LastRung(d)
    BY <1>1, <1>2, Lengths DEF LastRung
  <2> QED
    BY <1>1, <2>1, DownFacts
<1>4. Below(RemoveLadder, k + 1) = Below(RemoveLadder, k) \ {RemoveLadder[k]}
  BY <1>1, BelowNext
<1>5. res[d] = (Below(RemoveLadder, k) \cap Resources) \ PassedOver(d)
  BY <1>1 DEF HoldsInv, Holds
<1>6. RemoveLadder[k] \notin Resources
  BY <1>1, ResourceNames
<1>7. res'[d] = (Below(RemoveLadder, k + 1) \cap Resources) \ PassedOver(d)'
  BY <1>1, <1>4, <1>5, <1>6 DEF PassedOver
<1> QED
  BY <1>2, <1>3, <1>7 DEF Holds

-----------------------------------------------------------------------------
(* What the steps of a device do. *)

\* A step of device d leaves the other devices alone.
Local(d) ==
    /\ stage' = [stage EXCEPT ![d] = stage'[d]]
    /\ at' = [at EXCEPT ![d] = at'[d]] /\ at'[d] \in 1 .. 15
    /\ res' = [res EXCEPT ![d] = res'[d]] /\ res'[d] \subseteq Resources
    /\ withDma' \in {withDma, withDma \cup {d}, withDma \ {d}}

\* What a step of probe may do to its device.
ProbeEffect(d) ==
    /\ stage[d] = "probe" /\ Local(d) /\ Holds(d)'
    /\ \/ stage'[d] \in {"probe", "bound", "unwind"}
       \/ stage'[d] = "unbound" /\ at[d] = 1
    /\ stage'[d] = "probe" => at'[d] >= at[d]
    /\ res[d] \ {"cdev"} \subseteq res'[d]
    /\ UNCHANGED <<orphans, stale>>

\* A step of probe that succeeds.
LEMMA AcquireEffect ==
    ASSUME TypeOK, HoldsInv, NEW d \in Devs, stage[d] = "probe", Acquire(d),
           Steps[at[d]] = "dma" => d \in withDma,
           \/ UNCHANGED withDma
           \/ /\ Steps[at[d]] = "prom"
              /\ withDma' \in {withDma \cup {d}, withDma \ {d}}
    PROVE  ProbeEffect(d)
<1>1. Holds(d)'
  BY AcquireHolds
<1>2. at[d] \in 1 .. 14
  BY Places
<1>3. /\ stage' = [stage EXCEPT ![d] = stage'[d]]
      /\ stage'[d] \in {"probe", "bound"}
      /\ stage'[d] = "probe" => at'[d] >= at[d]
      /\ at' = [at EXCEPT ![d] = at'[d]] /\ at'[d] \in 1 .. 15
  <2>1. CASE at[d] < 14
    BY <1>2, <2>1, Lengths DEF Acquire, TypeOK
  <2>2. CASE at[d] = 14
    BY <1>2, <2>2, Lengths DEF Acquire, TypeOK
  <2> QED
    BY <1>2, <2>1, <2>2
<1>4. /\ res' = [res EXCEPT ![d] = res'[d]] /\ res'[d] \subseteq Resources
      /\ res[d] \subseteq res'[d]
  BY DEF Acquire, TypeOK
<1> QED
  BY <1>1, <1>3, <1>4 DEF ProbeEffect, Acquire, Local

\* A step of probe that fails.
LEMMA FailEffect ==
    ASSUME TypeOK, HoldsInv, NEW d \in Devs, stage[d] = "probe", at[d] > 1,
           stage' = [stage EXCEPT ![d] = "unwind"],
           at' = [at EXCEPT ![d] = Label(Steps[at[d]])],
           res' = [res EXCEPT ![d] = res'[d]],
           res[d] \ {"cdev"} \subseteq res'[d],
           res'[d] \subseteq res[d] \cup {"nodes"},
           UNCHANGED <<withDma, orphans, stale>>
    PROVE  ProbeEffect(d)
<1>2. Holds(d)'
  BY FailHolds
<1>3. at[d] \in 2 .. 14
  BY Places
<1>4. Label(Steps[at[d]]) \in 1 .. 15
  BY <1>3, LabelFits
<1>5. /\ stage' = [stage EXCEPT ![d] = stage'[d]] /\ stage'[d] = "unwind"
      /\ at' = [at EXCEPT ![d] = at'[d]] /\ at'[d] \in 1 .. 15
  BY <1>4 DEF TypeOK
<1>6. res'[d] \subseteq Resources
  BY ResourceNames DEF TypeOK
<1> QED
  BY <1>2, <1>5, <1>6 DEF ProbeEffect, Local

\* A step whose error exit gives back nothing, or the cdev.
LEMMA FailSteps ==
    ASSUME TypeOK, HoldsInv, NEW d \in Devs, stage[d] = "probe", at[d] > 1,
           NEW released \in SUBSET {"cdev"}, Unwind(d, released), UNCHANGED withDma
    PROVE  ProbeEffect(d)
<1>1. res'[d] = res[d] \ released /\ res' = [res EXCEPT ![d] = res'[d]]
  BY DEF Unwind, TypeOK
<1>2. res[d] \ {"cdev"} \subseteq res'[d] /\ res'[d] \subseteq res[d] \cup {"nodes"}
  BY <1>1
<1>3. /\ stage' = [stage EXCEPT ![d] = "unwind"]
      /\ at' = [at EXCEPT ![d] = Label(Steps[at[d]])]
      /\ UNCHANGED <<orphans, stale>>
  BY DEF Unwind
<1> QED
  BY <1>1, <1>2, <1>3, FailEffect

\* Every step of probe.
LEMMA ProbeSteps ==
    ASSUME TypeOK, HoldsInv, NEW d \in Devs, ProbeStep(d)
    PROVE  ProbeEffect(d)
<1> USE DEF AtStep
<1>1. CASE get_free_board(d)
  <2>1. stage[d] = "probe" /\ at[d] = 1
    BY <1>1, Places, StepPlace DEF get_free_board
  <2>2. CASE Acquire(d)
    BY <1>1, <2>1, <2>2, StepPlace, AcquireEffect DEF get_free_board
  <2>3. CASE UNCHANGED <<stage, at, res, orphans, stale>>
    <3>1. Holds(d)'
      BY <1>1, <2>3, OtherHolds DEF get_free_board
    <3>2. Local(d)
      BY <1>1, <2>1, <2>3 DEF get_free_board, Local, TypeOK
    <3> QED
      BY <2>1, <2>3, <3>1, <3>2 DEF ProbeEffect
  <2>4. CASE stage' = [stage EXCEPT ![d] = "unbound"] /\ UNCHANGED <<at, res, orphans, stale>>
    <3>1. res[d] = {}
      BY <2>1, BeforeEnds DEF HoldsInv, Holds
    <3>2. stage'[d] = "unbound"
      BY <2>4 DEF TypeOK
    <3>3. Holds(d)'
      BY <2>4, <3>1, <3>2 DEF Holds
    <3>4. Local(d)
      BY <1>1, <2>1, <2>4 DEF get_free_board, Local, TypeOK
    <3> QED
      BY <2>1, <2>4, <3>1, <3>2, <3>3, <3>4 DEF ProbeEffect
  <2> QED
    BY <1>1, <2>2, <2>3, <2>4 DEF get_free_board
<1>2. CASE new_amc_pci(d)
  <2>1. stage[d] = "probe" /\ at[d] = 2
    BY <1>2, Places, StepPlace DEF new_amc_pci
  <2>2. CASE Acquire(d)
    BY <1>2, <2>1, <2>2, StepPlace, AcquireEffect DEF new_amc_pci
  <2>3. CASE Fail(d, {})
    BY <1>2, <2>1, <2>3, FailSteps DEF new_amc_pci, Fail
  <2> QED
    BY <1>2, <2>2, <2>3 DEF new_amc_pci
<1>3. CASE enable_board(d)
  <2>1. stage[d] = "probe" /\ at[d] \in 3 .. 5
    BY <1>3, Places, StepPlace DEF enable_board
  <2>2. CASE Acquire(d)
    BY <1>3, <2>1, <2>2, StepPlace, AcquireEffect DEF enable_board
  <2>3. CASE Fail(d, {})
    BY <1>3, <2>1, <2>3, FailSteps DEF enable_board, Fail
  <2> QED
    BY <1>3, <2>2, <2>3 DEF enable_board
<1>4. CASE initialise_board(d)
  <2>1. stage[d] = "probe" /\ at[d] \in 6 .. 10
    BY <1>4, Places, StepPlace DEF initialise_board
  <2>2. CASE Steps[at[d]] = "dma" /\ d \notin withDma
    <3>1. /\ at' = [at EXCEPT ![d] = @ + 1]
          /\ UNCHANGED <<stage, res, withDma, orphans, stale>>
      BY <1>4, <2>1, <2>2 DEF initialise_board
    <3>2. at[d] = 9 /\ at'[d] = 10
      <4>1. at[d] = 9
        BY <2>1, <2>2, StepPlace
      <4> QED
        BY <3>1, <4>1 DEF TypeOK
    <3>3. res'[d] = (Before(10) \cap Resources) \ PassedOver(d)'
      <4>1. Before(10) = Before(9) \cup {"dma"}
        BY <2>2, <3>2, BeforeNext
      <4>2. res[d] = (Before(9) \cap Resources) \ PassedOver(d)
        BY <2>1, <3>2 DEF HoldsInv, Holds
      <4> QED
        BY <2>2, <3>1, <4>1, <4>2 DEF PassedOver
    <3>4. Holds(d)'
      BY <2>1, <3>1, <3>2, <3>3, Lengths DEF Holds
    <3>5. Local(d)
      BY <2>1, <3>1, <3>2 DEF Local, TypeOK
    <3> QED
      BY <2>1, <3>1, <3>2, <3>4, <3>5 DEF ProbeEffect
  <2>3. CASE Acquire(d) /\ (Steps[at[d]] = "dma" => d \in withDma)
    BY <1>4, <2>1, <2>3, AcquireEffect DEF initialise_board
  <2>4. CASE Fail(d, {}) /\ UNCHANGED withDma
    BY <2>1, <2>4, FailSteps DEF Fail
  <2> QED
    BY <1>4, <2>1, <2>2, <2>3, <2>4 DEF initialise_board
<1>5. CASE create_device_nodes(d)
  <2>1. stage[d] = "probe" /\ at[d] \in 11 .. 12 /\ UNCHANGED withDma
    BY <1>5, Places, StepPlace DEF create_device_nodes
  <2>2. CASE Acquire(d)
    BY <2>1, <2>2, StepPlace, AcquireEffect
  <2>3. ASSUME NEW released \in {{}, {"cdev"}}, Fail(d, released)
        PROVE  ProbeEffect(d)
    BY <2>1, <2>3, FailSteps DEF Fail
  <2>4. CASE /\ Steps[at[d]] = "nodes"
             /\ stage' = [stage EXCEPT ![d] = "unwind"]
             /\ at' = [at EXCEPT ![d] = Label("nodes")]
             /\ res' = [res EXCEPT ![d] = (@ \ {"cdev"}) \cup {"nodes"}]
             /\ UNCHANGED <<orphans, stale>>
    <3>1. res'[d] = (res[d] \ {"cdev"}) \cup {"nodes"} /\ res' = [res EXCEPT ![d] = res'[d]]
      BY <2>4 DEF TypeOK
    <3>2. /\ res[d] \ {"cdev"} \subseteq res'[d]
          /\ res'[d] \subseteq res[d] \cup {"nodes"}
      BY <3>1
    <3>3. at' = [at EXCEPT ![d] = Label(Steps[at[d]])]
      BY <2>4
    <3>4. /\ stage[d] = "probe" /\ at[d] > 1 /\ UNCHANGED <<withDma, orphans, stale>>
          /\ stage' = [stage EXCEPT ![d] = "unwind"]
      BY <2>1, <2>4
    <3>5. res' = [res EXCEPT ![d] = res'[d]]
      BY <3>1
    <3> QED
      BY <3>2, <3>3, <3>4, <3>5, FailEffect
  <2> QED
    BY <1>5, <2>1, <2>2, <2>3, <2>4 DEF create_device_nodes
<1>6. CASE sysfs_create_bin_file(d)
  <2>1. stage[d] = "probe" /\ at[d] \in 13 .. 14
    BY <1>6, Places, StepPlace DEF sysfs_create_bin_file
  <2>2. CASE Acquire(d)
    BY <1>6, <2>1, <2>2, StepPlace, AcquireEffect DEF sysfs_create_bin_file
  <2>3. CASE Unwind(d, {})
    BY <1>6, <2>1, <2>3, FailSteps DEF sysfs_create_bin_file
  <2> QED
    BY <1>6, <2>2, <2>3 DEF sysfs_create_bin_file, Fail
<1> QED
  BY <1>1, <1>2, <1>3, <1>4, <1>5, <1>6 DEF ProbeStep

\* What probe has done before step k is held.
LEMMA ProbeHolds ==
    ASSUME TypeOK, HoldsInv, NEW d \in Devs, stage[d] = "probe"
    PROVE  /\ at[d] \in 1 .. 14
           /\ "board" \in res[d] <=> at[d] > 1
           /\ "priv" \in res[d] <=> at[d] > 2
<1>1. at[d] \in 1 .. 14 /\ res[d] = (Before(at[d]) \cap Resources) \ PassedOver(d)
  BY Places DEF HoldsInv, Holds
<1>2. /\ "board" \in Before(at[d]) <=> at[d] > 1
      /\ "priv" \in Before(at[d]) <=> at[d] > 2
  BY <1>1, StepOrder
<1> QED
  BY <1>1, <1>2, ResourceNames DEF PassedOver

\* The reference count is set up with struct amc_pci and then left alone;
\* neither the files nor the handlers are touched.
LEMMA ProbeCount ==
    ASSUME TypeOK, HoldsInv, NEW d \in Devs, ProbeStep(d)
    PROVE  /\ UNCHANGED <<module, fpc, fdev, actVars>>
           /\ refcount' \in [Devs -> Nat] /\ completion' \in [Devs -> Nat]
           /\ \A e \in Devs \ {d} : UNCHANGED <<refcount[e], completion[e]>>
           /\ "priv" \in res'[d] =>
                IF "priv" \in res[d] THEN UNCHANGED <<refcount[d], completion[d]>>
                ELSE refcount'[d] = 1 /\ completion'[d] = 0
<1> USE DEF AtStep, refVars
<1>1. UNCHANGED <<module, fpc, fdev, actVars>>
  BY DEF ProbeStep, get_free_board, new_amc_pci, enable_board, initialise_board,
         create_device_nodes, sysfs_create_bin_file
<1>2. stage[d] = "probe"
  BY ProbeSteps DEF ProbeEffect
<1>3. CASE new_amc_pci(d) /\ Acquire(d)
  <2>1. at[d] = 2
    BY <1>3, ProbeHolds, StepPlace DEF new_amc_pci
  <2>2. "priv" \notin res[d]
    BY <1>2, <2>1, ProbeHolds
  <2>3. \/ UNCHANGED refVars
        \/ /\ refcount' = [refcount EXCEPT ![d] = 1]
           /\ completion' = [completion EXCEPT ![d] = 0]
    BY <1>3 DEF new_amc_pci
  <2>4. ~ Fail(d, {})
    BY <1>2, <1>3, <2>1, Lengths DEF Acquire, Fail, Unwind, TypeOK
  <2>5. /\ refcount' = [refcount EXCEPT ![d] = 1]
        /\ completion' = [completion EXCEPT ![d] = 0]
    BY <1>3, <2>4 DEF new_amc_pci
  <2> QED
    BY <1>1, <2>2, <2>5 DEF TypeOK
<1>4. CASE UNCHANGED refVars /\ ("priv" \in res'[d] => "priv" \in res[d])
  BY <1>1, <1>4 DEF TypeOK
<1>5. CASE new_amc_pci(d) /\ Fail(d, {}) /\ UNCHANGED refVars
  BY <1>1, <1>4, <1>5 DEF Fail, Unwind, TypeOK
<1>6. CASE get_free_board(d)
  <2>1. at[d] = 1
    BY <1>6, ProbeHolds, StepPlace DEF get_free_board
  <2>2. res'[d] \subseteq res[d] \cup {"board"}
    <3>1. Steps[at[d]] = "board"
      BY <2>1, StepPlace
    <3>2. CASE Acquire(d)
      BY <3>1, <3>2 DEF Acquire, TypeOK
    <3>3. CASE UNCHANGED res
      BY <3>3
    <3> QED
      BY <1>6, <3>2, <3>3 DEF get_free_board
  <2> QED
    BY <1>4, <1>6, <2>2 DEF get_free_board
<1>7. CASE \/ enable_board(d) \/ initialise_board(d)
           \/ create_device_nodes(d) \/ sysfs_create_bin_file(d)
  <2>1. UNCHANGED refVars
    BY <1>7
    DEF enable_board, initialise_board, create_device_nodes, sysfs_create_bin_file
  <2>2. Steps[at[d]] \notin {"board", "priv"}
    BY <1>7
    DEF enable_board, initialise_board, create_device_nodes, sysfs_create_bin_file
  <2>3. at[d] > 2
    BY <1>2, <2>2, ProbeHolds, StepPlace
  <2> QED
    BY <1>2, <1>4, <2>1, <2>3, ProbeHolds
<1> QED
  BY <1>3, <1>5, <1>6, <1>7 DEF ProbeStep, new_amc_pci

\* The board number: taken in the first step, and then left alone.
LEMMA ProbeBoard ==
    ASSUME TypeOK, HoldsInv, NEW d \in Devs, ProbeStep(d)
    PROVE  /\ \A e \in Devs \ {d} : UNCHANGED board[e]
           /\ board' \in [Devs -> 0 .. MAX_BOARDS - 1]
           /\ \/ /\ UNCHANGED device_boards
                 /\ "board" \in res'[d] <=> "board" \in res[d]
                 /\ "board" \in res[d] => UNCHANGED board[d]
              \/ /\ "board" \notin res[d] /\ "board" \in res'[d]
                 /\ UNCHANGED board[d] /\ board[d] \notin device_boards
                 /\ device_boards' = device_boards \cup {board[d]}
<1> USE DEF AtStep
<1>2. stage[d] = "probe" /\ res[d] \ {"cdev"} \subseteq res'[d]
  BY ProbeSteps DEF ProbeEffect
<1>3. CASE get_free_board(d)
  <2>1. at[d] = 1 /\ Steps[at[d]] = "board" /\ "board" \notin res[d]
    BY <1>3, ProbeHolds, StepPlace DEF get_free_board
  <2>2. CASE /\ board[d] \notin device_boards
             /\ device_boards' = device_boards \cup {board[d]}
             /\ Acquire(d)
             /\ UNCHANGED board
    <3>1. "board" \in res'[d]
      BY <2>1, <2>2, ResourceNames DEF Acquire, TypeOK
    <3> QED
      BY <2>1, <2>2, <3>1 DEF TypeOK
  <2>3. CASE /\ board[d] + 1 < MAX_BOARDS
             /\ board' = [board EXCEPT ![d] = @ + 1]
             /\ UNCHANGED <<device_boards, stage, at, res, orphans, stale>>
    BY <2>1, <2>3, LifecycleAssumption DEF TypeOK
  <2>4. CASE UNCHANGED <<device_boards, board, at, res, orphans, stale>>
    BY <2>1, <2>4 DEF TypeOK
  <2> QED
    BY <1>3, <2>2, <2>3, <2>4 DEF get_free_board
<1>4. CASE ~ get_free_board(d)
  <2>1. at[d] > 1 /\ UNCHANGED <<device_boards, board>>
    BY <1>2, <1>4, ProbeHolds, StepPlace
    DEF ProbeStep, new_amc_pci, enable_board, initialise_board,
        create_device_nodes, sysfs_create_bin_file
  <2>2. "board" \in res[d]
    BY <1>2, <2>1, ProbeHolds
  <2> QED
    BY <1>2, <2>1, <2>2 DEF TypeOK
<1> QED
  BY <1>3, <1>4

\* What is still held at the rung of a ladder, and on the last rung.
LEMMA RungHolds ==
    ASSUME TypeOK, HoldsInv, NEW d \in Devs, stage[d] \in {"unwind", "remove"}
    PROVE  /\ AtRung(d) = "priv" => "priv" \in res[d]
           /\ AtRung(d) = "board" => "board" \in res[d]
           /\ LastRung(d) => /\ res[d] \ {AtRung(d)} \subseteq Leftover
                             /\ AtRung(d) \in {"priv", "board"}
           /\ AtRung(d) \in {"count", "clients"} <=> stage[d] = "remove" /\ at[d] \in {3, 4}
<1> DEFINE k == at[d]
<1>1. CASE stage[d] = "unwind"
  <2>1. /\ k \in 1 .. 9 /\ AtRung(d) = UnwindLadder[k]
        /\ Below(UnwindLadder, k) \ PassedOver(d) \subseteq res[d]
        /\ res[d] \subseteq Below(UnwindLadder, k) \cup Leftover
    BY <1>1, Places DEF AtRung, HoldsInv, Holds
  <2>2. AtRung(d) = "priv" => "priv" \in res[d]
    BY <2>1, BelowNext DEF PassedOver
  <2>3. AtRung(d) = "board" => "board" \in res[d]
    BY <2>1, BelowNext DEF PassedOver
  <2>4. ASSUME LastRung(d)
        PROVE  res[d] \ {AtRung(d)} \subseteq Leftover /\ AtRung(d) = "board"
    <3>1. k = 9
      BY <1>1, <2>4, Lengths DEF LastRung
    <3>2. Below(UnwindLadder, 9) = {"board"}
      BY DEF Below, UnwindLadder
    <3>3. AtRung(d) = "board"
      BY <2>1, <3>1, UnwindPlace
    <3> QED
      BY <2>1, <3>1, <3>2, <3>3
  <2>5. AtRung(d) \notin {"count", "clients"}
    BY <2>1, UnwindPlace, ResourceNames
  <2> QED
    BY <1>1, <2>2, <2>3, <2>4, <2>5
<1>2. CASE stage[d] = "remove"
  <2>1. /\ k \in 1 .. 15 /\ AtRung(d) = RemoveLadder[k]
        /\ res[d] = (Below(RemoveLadder, k) \cap Resources) \ PassedOver(d)
    BY <1>2, Places DEF AtRung, HoldsInv, Holds
  <2>2. AtRung(d) = "priv" => "priv" \in res[d]
    BY <2>1, BelowNext, ResourceNames DEF PassedOver
  <2>3. AtRung(d) = "board" => "board" \in res[d]
    BY <2>1, BelowNext, ResourceNames DEF PassedOver
  <2>4. ASSUME LastRung(d)
        PROVE  res[d] \ {AtRung(d)} \subseteq Leftover /\ AtRung(d) = "priv"
    <3>1. k = 15
      BY <1>2, <2>4, Lengths DEF LastRung
    <3>2. Below(RemoveLadder, 15) = {"priv"}
      BY DEF Below, RemoveLadder
    <3>3. AtRung(d) = "priv"
      BY <2>1, <3>1, RemovePlace
    <3> QED
      BY <2>1, <3>1, <3>2, <3>3
  <2>5. AtRung(d) \in {"count", "clients"} <=> k \in {3, 4}
    BY <2>1, RemovePlace
  <2> QED
    BY <1>2, <2>2, <2>3, <2>4, <2>5
<1> QED
  BY <1>1, <1>2

\* What giving back a resource does.
LEMMA ReleaseSteps ==
    ASSUME TypeOK, HoldsInv, NEW d \in Devs, release_resource(d)
    PROVE  /\ stage[d] \in {"unwind", "remove"} /\ Local(d) /\ Holds(d)'
           /\ stage'[d] \in {"unbound", stage[d]}
           /\ stage'[d] # "unbound" => at'[d] = at[d] + 1
           /\ ~ (stage[d] = "remove" /\ at[d] \in {3, 4})
           /\ \A r \in Resources \ Leftover :
                r \in res'[d] <=> r \in res[d] /\ r # AtRung(d)
           /\ orphans' \in [Devs -> SUBSET Resources]
           /\ \A e \in Devs : orphans'[e] \subseteq orphans[e] \cup Leftover
<1>1. /\ stage[d] \in {"unwind", "remove"} /\ Down(d) /\ UNCHANGED withDma
      /\ AtRung(d) \in Resources
  BY DEF release_resource
<1>2. Holds(d)'
  BY ReleaseHolds
<1>3. /\ at' = [at EXCEPT ![d] = at'[d]] /\ at'[d] \in 1 .. 15
      /\ stage' = [stage EXCEPT ![d] = stage'[d]]
      /\ IF LastRung(d) THEN stage'[d] = "unbound"
         ELSE stage'[d] = stage[d] /\ at'[d] = at[d] + 1
  BY <1>1, DownFacts
<1>4. ~ (stage[d] = "remove" /\ at[d] \in {3, 4})
  <2>1. AtRung(d) \notin {"count", "clients"}
    BY <1>1, ResourceNames
  <2> QED
    BY <1>1, <2>1, RungHolds
<1>5. CASE LastRung(d)
  <2>1. /\ res' = [res EXCEPT ![d] = {}]
        /\ orphans' = [orphans EXCEPT ![d] = @ \cup (res[d] \ {AtRung(d)})]
    BY <1>5 DEF release_resource
  <2>2. res[d] \ {AtRung(d)} \subseteq Leftover /\ res[d] \subseteq Resources
    BY <1>1, <1>5, RungHolds DEF TypeOK
  <2>3. res' = [res EXCEPT ![d] = res'[d]] /\ res'[d] = {}
    BY <2>1 DEF TypeOK
  <2>4. /\ orphans' \in [Devs -> SUBSET Resources]
        /\ \A e \in Devs : orphans'[e] \subseteq orphans[e] \cup Leftover
    BY <2>1, <2>2 DEF TypeOK
  <2> QED
    BY <1>1, <1>2, <1>3, <1>4, <1>5, <2>2, <2>3, <2>4 DEF Local
<1>6. CASE ~ LastRung(d)
  <2>1. res' = [res EXCEPT ![d] = res[d] \ {AtRung(d)}] /\ UNCHANGED orphans
    BY <1>6 DEF release_resource
  <2>2. /\ res' = [res EXCEPT ![d] = res'[d]] /\ res'[d] = res[d] \ {AtRung(d)}
        /\ res'[d] \subseteq Resources
    BY <2>1 DEF TypeOK
  <2>3. /\ orphans' \in [Devs -> SUBSET Resources]
        /\ \A e \in Devs : orphans'[e] \subseteq orphans[e] \cup Leftover
    BY <2>1 DEF TypeOK
  <2> QED
    BY <1>1, <1>2, <1>3, <1>4, <1>6, <2>2, <2>3 DEF Local
<1> QED
  BY <1>5, <1>6

-----------------------------------------------------------------------------
(* What keeps the parts of the invariant. *)

\* A step of one device keeps what all of them hold.
LEMMA LocalHolds ==
    ASSUME TypeOK, HoldsInv, NEW d \in Devs, Local(d), Holds(d)'
    PROVE  HoldsInv'
<1> SUFFICES ASSUME NEW e \in Devs, e # d PROVE Holds(e)'
  BY DEF HoldsInv
<1>1. UNCHANGED <<stage[e], at[e], res[e]>>
  BY DEF Local, TypeOK
<1>2. e \in withDma' <=> e \in withDma
  BY DEF Local
<1> QED
  BY <1>1, <1>2, OtherHolds

\* The count of a device whose users, references and place stay the same.
LEMMA CountsKept ==
    ASSUME NEW e \in Devs, Counts(e), Users(e)' = Users(e),
           UNCHANGED <<refcount[e], completion[e], stage[e], at[e], res[e]>>
    PROVE  Counts(e)'
BY DEF Counts, Dropped

\* The board numbers, when no device takes or gives back one.
LEMMA BoardsKept ==
    ASSUME BoardsDistinct, UNCHANGED device_boards,
           \A e \in Devs : /\ "board" \in res'[e] <=> "board" \in res[e]
                           /\ "board" \in res[e] => UNCHANGED board[e]
    PROVE  BoardsDistinct'
BY DEF BoardsDistinct

\* When device d takes a free one.
LEMMA BoardsTaken ==
    ASSUME BoardsDistinct, NEW d \in Devs, UNCHANGED board[d],
           "board" \notin res[d], "board" \in res'[d],
           board[d] \notin device_boards,
           device_boards' = device_boards \cup {board[d]},
           \A e \in Devs \ {d} : UNCHANGED <<res[e], board[e]>>
    PROVE  BoardsDistinct'
BY DEF BoardsDistinct

\* When device d gives back its own.
LEMMA BoardsReturned ==
    ASSUME BoardsDistinct, NEW d \in Devs, UNCHANGED board,
           "board" \in res[d], "board" \notin res'[d],
           device_boards' = device_boards \ {board[d]},
           \A e \in Devs \ {d} : UNCHANGED res[e]
    PROVE  BoardsDistinct'
BY DEF BoardsDistinct

\* A board without a struct amc_pci has no users.
LEMMA NoUsers ==
    ASSUME FileInv, NEW d \in Devs, "priv" \notin res[d]
    PROVE  Users(d) = {}
BY DEF FileInv, Users, Counted

\* A step of probe keeps the invariant.
LEMMA ProbeKeeps ==
    ASSUME IInv, NEW d \in Devs, ProbeStep(d)
    PROVE  IInv'
<1> USE DEF IInv
<1>1. ProbeEffect(d)
  BY ProbeSteps
<1>2. /\ UNCHANGED <<module, fpc, fdev, actVars>>
      /\ refcount' \in [Devs -> Nat] /\ completion' \in [Devs -> Nat]
      /\ \A e \in Devs \ {d} : UNCHANGED <<refcount[e], completion[e]>>
      /\ "priv" \in res'[d] =>
           IF "priv" \in res[d] THEN UNCHANGED <<refcount[d], completion[d]>>
           ELSE refcount'[d] = 1 /\ completion'[d] = 0
  BY ProbeCount
<1>3. /\ \A e \in Devs \ {d} : UNCHANGED board[e]
      /\ board' \in [Devs -> 0 .. MAX_BOARDS - 1]
      /\ \/ /\ UNCHANGED device_boards
            /\ "board" \in res'[d] <=> "board" \in res[d]
            /\ "board" \in res[d] => UNCHANGED board[d]
         \/ /\ "board" \notin res[d] /\ "board" \in res'[d]
            /\ UNCHANGED board[d] /\ board[d] \notin device_boards
            /\ device_boards' = device_boards \cup {board[d]}
  BY ProbeBoard
<1>4. /\ stage[d] = "probe" /\ UNCHANGED <<orphans, stale>>
      /\ \A e \in Devs \ {d} : UNCHANGED <<stage[e], at[e], res[e]>>
  BY <1>1 DEF ProbeEffect, Local, TypeOK
<1>5. TypeOK'
  <2>1. stage' \in [Devs -> {"unbound", "probe", "bound", "remove", "unwind"}]
    BY <1>1 DEF ProbeEffect, Local, TypeOK
  <2>2. at' \in [Devs -> 1 .. Len(RemoveLadder)]
    BY <1>1, Lengths DEF ProbeEffect, Local, TypeOK
  <2>3. res' \in [Devs -> SUBSET Resources] /\ withDma' \subseteq Devs
    <3>1. res' \in [Devs -> SUBSET Resources]
      BY <1>1 DEF ProbeEffect, Local, TypeOK
    <3>2. withDma' \subseteq Devs
      BY <1>1 DEF ProbeEffect, Local, TypeOK
    <3> QED
      BY <3>1, <3>2
  <2>4. device_boards' \subseteq 0 .. MAX_BOARDS - 1
    <3>1. device_boards' \subseteq device_boards \cup {board[d]}
      BY <1>3
    <3>2. device_boards \cup {board[d]} \subseteq 0 .. MAX_BOARDS - 1
      BY DEF TypeOK
    <3> QED
      BY <3>1, <3>2
  <2> QED
    BY <1>2, <1>3, <1>4, <2>1, <2>2, <2>3, <2>4 DEF TypeOK, actVars
<1>6. HoldsInv'
  BY <1>1, LocalHolds DEF ProbeEffect
<1>7. ModuleInv'
  <2>1. module # {}
    BY <1>4 DEF ModuleInv
  <2> QED
    BY <1>2, <2>1 DEF ModuleInv
<1>8. FileInv'
  <2> SUFFICES ASSUME NEW f \in Files, fpc[f] # "closed", f \notin stale, fdev[f] = d
               PROVE  /\ "priv" \in res'[d]
                      /\ stage'[d] = "probe" => at'[d] > 11
    <3>1. \A f \in Files : fdev[f] \in Devs \cup {None}
      BY DEF TypeOK
    <3> QED
      BY <1>2, <1>4, <3>1 DEF FileInv
  <2>1. "priv" \in res[d] /\ at[d] > 11
    BY <1>4 DEF FileInv
  <2>2. at[d] \in Nat /\ at'[d] \in Nat
    BY <1>1, Places DEF ProbeEffect, Local
  <2> QED
    BY <1>1, <2>1, <2>2 DEF ProbeEffect
<1>9. CountInv'
  <2>1. \A e \in Devs : Users(e)' = Users(e)
    BY <1>2, <1>4 DEF Users, Counted
  <2>2. ASSUME NEW e \in Devs, e # d
        PROVE  Counts(e)'
    BY <1>2, <1>4, <2>1, <2>2, CountsKept DEF CountInv
  <2>3. Counts(d)'
    <3>1. stage'[d] # "remove" /\ stage[d] # "remove"
      BY <1>1, <1>4 DEF ProbeEffect
    <3>2. CASE "priv" \in res[d]
      BY <1>2, <2>1, <3>1, <3>2 DEF CountInv, Counts, Dropped
    <3>3. CASE "priv" \notin res[d]
      <4>1. Users(d) = {} /\ IsFiniteSet(Users(d))
        BY <3>3, NoUsers, FS_EmptySet
      <4>2. Cardinality(Users(d)) = 0
        BY <4>1, FS_EmptySet
      <4> QED
        <5>1. IsFiniteSet(Users(d)') /\ Cardinality(Users(d)') = 0
          BY <2>1, <4>1, <4>2
        <5>2. "priv" \in res'[d] =>
                refcount'[d] = Cardinality(Users(d)') + 1 /\ completion'[d] = 0
          BY <1>2, <3>3, <5>1
        <5>3. ~ Dropped(d)'
          BY <3>1 DEF Dropped
        <5> QED
          BY <5>1, <5>2, <5>3 DEF Counts
    <3> QED
      BY <3>2, <3>3
  <2> QED
    BY <2>2, <2>3 DEF CountInv
<1>10. IsrInv'
  BY <1>1, <1>2, <1>4 DEF IsrInv, ProbeEffect, TypeOK, actVars
<1>11. BoardsDistinct'
  BY <1>3, <1>4, BoardsKept, BoardsTaken
<1>12. HardwareReturned'
  BY <1>4 DEF HardwareReturned
<1> QED
  BY <1>5, <1>6, <1>7, <1>8, <1>9, <1>10, <1>11, <1>12

\* Giving back a resource keeps the invariant.
LEMMA ReleaseKeeps ==
    ASSUME IInv, NEW d \in Devs, release_resource(d)
    PROVE  IInv'
<1> USE DEF IInv
<1>1. /\ stage[d] \in {"unwind", "remove"} /\ Local(d) /\ Holds(d)'
      /\ stage'[d] \in {"unbound", stage[d]}
      /\ stage'[d] # "unbound" => at'[d] = at[d] + 1
      /\ ~ (stage[d] = "remove" /\ at[d] \in {3, 4})
      /\ orphans' \in [Devs -> SUBSET Resources]
      /\ \A e \in Devs : orphans'[e] \subseteq orphans[e] \cup Leftover
  BY ReleaseSteps
<1>2. \A r \in {"priv", "irq", "board"} : r \in res'[d] <=> r \in res[d] /\ r # AtRung(d)
  <2>1. {"priv", "irq", "board"} \subseteq Resources \ Leftover
    BY ResourceNames DEF Leftover
  <2> QED
    BY <2>1, ReleaseSteps
<1>3. /\ UNCHANGED <<module, board, refcount, completion, fpc, fdev, running,
                     inIsr, reading>>
      /\ AtRung(d) = "irq" => d \notin inIsr
      /\ device_boards' = IF AtRung(d) = "board" THEN device_boards \ {board[d]}
                          ELSE device_boards
      /\ stale' = IF AtRung(d) = "priv"
                  THEN stale \cup {f \in Files : fdev[f] = d} ELSE stale
  BY DEF release_resource, refVars, actVars
<1>4. \A e \in Devs \ {d} : UNCHANGED <<stage[e], at[e], res[e]>>
  BY <1>1 DEF Local, TypeOK
<1>5. TypeOK'
  <2>1. stage' \in [Devs -> {"unbound", "probe", "bound", "remove", "unwind"}]
    BY <1>1 DEF Local, TypeOK
  <2>2. at' \in [Devs -> 1 .. Len(RemoveLadder)]
    BY <1>1, Lengths DEF Local, TypeOK
  <2>3. res' \in [Devs -> SUBSET Resources] /\ withDma' \subseteq Devs
    <3>1. res' \in [Devs -> SUBSET Resources]
      BY <1>1 DEF Local, TypeOK
    <3>2. withDma' \subseteq Devs
      BY <1>1 DEF Local, TypeOK
    <3> QED
      BY <3>1, <3>2
  <2>4. device_boards' \subseteq 0 .. MAX_BOARDS - 1 /\ stale' \subseteq Files
    BY <1>3 DEF TypeOK
  <2> QED
    BY <1>1, <1>3, <2>1, <2>2, <2>3, <2>4 DEF TypeOK
<1>6. HoldsInv'
  BY <1>1, LocalHolds
<1>7. ModuleInv'
  <2>1. module # {}
    BY <1>1 DEF ModuleInv
  <2> QED
    BY <1>3, <2>1 DEF ModuleInv
<1>8. FileInv'
  <2> SUFFICES ASSUME NEW f \in Files
               PROVE  /\ fpc[f] = "closed" <=> fdev[f] = None
                      /\ f \in stale' => fpc[f] # "closed"
                      /\ fpc[f] # "closed" /\ f \notin stale' =>
                             /\ "priv" \in res'[fdev[f]]
                             /\ stage'[fdev[f]] = "probe" => at'[fdev[f]] > 11
    BY <1>3 DEF FileInv
  <2>1. /\ fpc[f] = "closed" <=> fdev[f] = None
        /\ f \in stale => fpc[f] # "closed"
    BY DEF FileInv
  <2>2. f \in stale' => fpc[f] # "closed"
    <3>1. fdev[f] = d => fpc[f] # "closed"
      BY <2>1, LifecycleAssumption
    <3> QED
      BY <1>3, <2>1, <3>1
  <2>3. ASSUME fpc[f] # "closed", f \notin stale'
        PROVE  /\ "priv" \in res'[fdev[f]]
               /\ stage'[fdev[f]] = "probe" => at'[fdev[f]] > 11
    <3>1. fdev[f] \in Devs
      BY <2>1, <2>3 DEF TypeOK
    <3>2. f \notin stale /\ (AtRung(d) = "priv" => fdev[f] # d)
      BY <1>3, <2>3
    <3>3. /\ "priv" \in res[fdev[f]]
          /\ stage[fdev[f]] = "probe" => at[fdev[f]] > 11
      BY <2>3, <3>2 DEF FileInv
    <3>4. CASE fdev[f] = d
      BY <1>1, <1>2, <3>2, <3>3, <3>4
    <3>5. CASE fdev[f] # d
      BY <1>4, <3>1, <3>3, <3>5
    <3> QED
      BY <3>4, <3>5
  <2> QED
    BY <2>1, <2>2, <2>3
<1>9. CountInv'
  <2>1. ASSUME NEW e \in Devs, e # d
        PROVE  Counts(e)'
    <3>1. Users(e)' = Users(e)
      BY <1>3, <2>1 DEF Users, Counted
    <3> QED
      BY <1>3, <1>4, <2>1, <3>1, CountsKept DEF CountInv
  <2>2. CASE AtRung(d) = "priv"
    <3>1. Users(d)' = {}
      BY <1>3, <2>2 DEF Users, Counted
    <3>2. "priv" \notin res'[d]
      BY <1>2, <2>2
    <3>3. Counts(d)'
      BY <3>1, <3>2, FS_EmptySet DEF Counts
    <3> QED
      BY <2>1, <3>3 DEF CountInv
  <2>3. CASE AtRung(d) # "priv"
    <3>1. Users(d)' = Users(d)
      BY <1>3, <2>3 DEF Users, Counted
    <3>2. Counts(d)
      BY DEF CountInv
    <3>3. IsFiniteSet(Users(d)')
      BY <3>1, <3>2 DEF Counts
    <3>4. ASSUME "priv" \in res'[d] PROVE Counts(d)'
      <4>1. "priv" \in res[d]
        BY <1>2, <3>4
      <4>2. /\ stage'[d] = stage[d] /\ at'[d] = at[d] + 1 /\ at[d] \in Nat
        <5>1. stage'[d] # "unbound"
          BY <1>6, <3>4 DEF HoldsInv, Holds
        <5> QED
          BY <1>1, <5>1, Places
      <4>3. /\ Dropped(d)' <=> Dropped(d)
            /\ stage[d] = "remove" => at'[d] # 4 /\ at[d] # 4
            /\ stage[d] = "remove" /\ at'[d] > 4 => at[d] > 4
        BY <1>1, <4>2 DEF Dropped
      <4>4. CASE Dropped(d)
        <5>1. /\ refcount'[d] = Cardinality(Users(d)')
              /\ at'[d] > 4 => refcount'[d] = 0
              /\ completion'[d] = 0 /\ at'[d] # 4
          BY <1>3, <3>1, <3>2, <4>1, <4>3, <4>4 DEF Counts, Dropped
        <5> QED
          BY <3>3, <4>3, <4>4, <5>1 DEF Counts
      <4>5. CASE ~ Dropped(d)
        <5>1. refcount'[d] = Cardinality(Users(d)') + 1 /\ completion'[d] = 0
          BY <1>3, <3>1, <3>2, <4>1, <4>5 DEF Counts
        <5> QED
          BY <3>3, <4>3, <4>5, <5>1 DEF Counts
      <4> QED
        BY <4>4, <4>5
    <3>5. ASSUME "priv" \notin res'[d] PROVE Counts(d)'
      BY <3>3, <3>5 DEF Counts
    <3> QED
      BY <2>1, <3>4, <3>5 DEF CountInv
  <2> QED
    BY <2>2, <2>3
<1>10. IsrInv'
  <2> SUFFICES ASSUME NEW e \in inIsr PROVE "irq" \in res'[e]
    BY <1>3 DEF IsrInv
  <2>1. e \in Devs /\ "irq" \in res[e]
    BY DEF IsrInv, TypeOK
  <2> QED
    BY <1>2, <1>3, <1>4, <2>1
<1>11. BoardsDistinct'
  <2>1. CASE AtRung(d) = "board"
    <3>1. "board" \in res[d] /\ "board" \notin res'[d]
      BY <1>1, <1>2, <2>1, RungHolds
    <3> QED
      BY <1>3, <1>4, <2>1, <3>1, BoardsReturned
  <2>2. CASE AtRung(d) # "board"
    BY <1>2, <1>3, <1>4, <2>2, BoardsKept
  <2> QED
    BY <2>1, <2>2
<1>12. HardwareReturned'
  BY <1>1 DEF HardwareReturned, Leftover
<1> QED
  BY <1>5, <1>6, <1>7, <1>8, <1>9, <1>10, <1>11, <1>12

\* The two steps of wait_for_clients keep the invariant.
LEMMA WaitKeeps ==
    ASSUME IInv, NEW d \in Devs, wait_for_clients(d)
    PROVE  IInv'
<1> USE DEF IInv
<1>1. /\ Holds(d)' /\ stage'[d] = "remove" /\ at'[d] = at[d] + 1
      /\ at[d] = IF AtRung(d) = "count" THEN 3 ELSE 4
  BY WaitHolds
<1>2. /\ stage[d] = "remove" /\ Down(d) /\ AtRung(d) \in {"count", "clients"}
      /\ UNCHANGED <<module, device_boards, board, res, withDma, orphans, fpc,
                     fdev, stale, running, inIsr, reading>>
  BY DEF wait_for_clients, fileVars, actVars
<1>3. /\ stage' = [stage EXCEPT ![d] = "remove"]
      /\ at' = [at EXCEPT ![d] = at'[d]] /\ at'[d] \in 1 .. 15
  BY <1>1, <1>2, DownFacts
<1>4. \A e \in Devs \ {d} : UNCHANGED <<stage[e], at[e]>>
  BY <1>3 DEF TypeOK
<1>5. Counts(d) /\ "priv" \in res[d] /\ refcount[d] \in Nat /\ completion[d] \in Nat
  <2>1. Counts(d) /\ refcount[d] \in Nat /\ completion[d] \in Nat
    BY DEF CountInv, TypeOK
  <2>2. at[d] \in Nat \ {0} /\ at[d] <= 15
    BY <1>1
  <2>3. "priv" \in Below(RemoveLadder, at[d])
    BY <2>2, RemoveOrder
  <2> QED
    BY <1>2, <2>1, <2>3, ResourceNames DEF HoldsInv, Holds, PassedOver
<1>6. Cardinality(Users(d)) \in Nat
  BY <1>5, FS_CardinalityType DEF Counts
<1>7. \A e \in Devs : Users(e)' = Users(e)
  BY <1>2 DEF Users, Counted
<1>8. /\ refcount' = [refcount EXCEPT ![d] = refcount'[d]]
      /\ completion' = [completion EXCEPT ![d] = completion'[d]]
      /\ refcount'[d] \in Nat /\ completion'[d] \in Nat
      /\ Counts(d)'
  <2>1. CASE AtRung(d) = "count"
    <3>1. at[d] = 3 /\ at'[d] = 4 /\ DropReference(d)
      BY <1>1, <2>1 DEF wait_for_clients
    <3>2. refcount[d] = Cardinality(Users(d)) + 1 /\ completion[d] = 0
      BY <1>5, <3>1 DEF Counts, Dropped
    <3>3. /\ refcount' = [refcount EXCEPT ![d] = refcount'[d]]
          /\ completion' = [completion EXCEPT ![d] = completion'[d]]
          /\ refcount'[d] = Cardinality(Users(d))
          /\ completion'[d] = IF refcount'[d] = 0 THEN 1 ELSE 0
      BY <1>6, <3>1, <3>2 DEF DropReference, TypeOK
    <3>4. Dropped(d)'
      BY <1>1, <3>1 DEF Dropped
    <3> QED
      BY <1>5, <1>6, <1>7, <3>1, <3>3, <3>4 DEF Counts
  <2>2. CASE AtRung(d) = "clients"
    <3>1. /\ at[d] = 4 /\ at'[d] = 5 /\ UNCHANGED refcount
          /\ completion' = [completion EXCEPT ![d] = @ - 1]
          /\ completion[d] > 0
      BY <1>1, <2>2 DEF wait_for_clients
    <3>2. refcount[d] = Cardinality(Users(d)) /\ refcount[d] = 0 /\ completion[d] = 1
      BY <1>2, <1>5, <3>1 DEF Counts, Dropped
    <3>3. /\ refcount' = [refcount EXCEPT ![d] = refcount'[d]]
          /\ completion' = [completion EXCEPT ![d] = completion'[d]]
          /\ refcount'[d] = 0 /\ completion'[d] = 0
      BY <3>1, <3>2 DEF TypeOK
    <3>4. Dropped(d)'
      BY <1>1, <3>1 DEF Dropped
    <3>5. IsFiniteSet(Users(d)') /\ Cardinality(Users(d)') = 0
      BY <1>5, <1>7, <3>2 DEF Counts
    <3> QED
      BY <3>1, <3>3, <3>4, <3>5 DEF Counts
  <2> QED
    BY <1>2, <2>1, <2>2
<1>9. TypeOK'
  BY <1>2, <1>3, <1>8, Lengths DEF TypeOK
<1>10. HoldsInv'
  <2>1. ASSUME NEW e \in Devs, e # d PROVE Holds(e)'
    BY <1>2, <1>4, <2>1, OtherHolds
  <2> QED
    BY <1>1, <2>1 DEF HoldsInv
<1>11. ModuleInv'
  <2>1. module # {}
    BY <1>2 DEF ModuleInv
  <2> QED
    BY <1>2, <2>1 DEF ModuleInv
<1>12. FileInv'
  <2>1. \A e \in Devs : stage'[e] = "probe" => stage[e] = "probe" /\ at'[e] = at[e]
    BY <1>1, <1>4
  <2>2. \A f \in Files : fpc[f] # "closed" => fdev[f] \in Devs
    BY DEF FileInv, TypeOK
  <2> QED
    BY <1>2, <2>1, <2>2 DEF FileInv
<1>13. CountInv'
  <2>1. ASSUME NEW e \in Devs, e # d PROVE Counts(e)'
    <3>1. UNCHANGED <<refcount[e], completion[e]>>
      BY <1>8, <2>1 DEF TypeOK
    <3> QED
      BY <1>2, <1>4, <1>7, <2>1, <3>1, CountsKept DEF CountInv
  <2> QED
    BY <1>8, <2>1 DEF CountInv
<1>14. IsrInv' /\ HardwareReturned'
  BY <1>2 DEF IsrInv, HardwareReturned
<1>15. BoardsDistinct'
  BY <1>2, BoardsKept
<1> QED
  BY <1>9, <1>10, <1>11, <1>12, <1>13, <1>14, <1>15

\* A device enters probe or remove: no file, handler or resource is concerned.
LEMMA EntryKeeps ==
    ASSUME IInv, NEW d \in Devs, amc_pci_probe(d) \/ amc_pci_remove(d)
    PROVE  IInv'
<1> USE DEF IInv
<1>1. /\ UNCHANGED <<module, device_boards, res, withDma, orphans, refcount,
                     completion, fpc, fdev, stale, running, inIsr, reading>>
      /\ \/ stage[d] = "unbound" /\ stage' = [stage EXCEPT ![d] = "probe"]
                                 /\ board' = [board EXCEPT ![d] = 0]
                                 /\ module # {}
         \/ stage[d] = "bound" /\ stage' = [stage EXCEPT ![d] = "remove"]
                               /\ UNCHANGED board
      /\ at' = [at EXCEPT ![d] = 1]
  BY DEF amc_pci_probe, amc_pci_remove, refVars, fileVars, actVars
<1>2. at'[d] = 1 /\ \A e \in Devs \ {d} : UNCHANGED <<stage[e], at[e], board[e]>>
  BY <1>1 DEF TypeOK
<1>3. \/ stage[d] = "unbound" /\ stage'[d] = "probe" /\ res[d] = {}
      \/ stage[d] = "bound" /\ stage'[d] = "remove" /\ UNCHANGED board
  BY <1>1 DEF HoldsInv, Holds, TypeOK
<1>4. TypeOK'
  BY <1>1, Lengths, LifecycleAssumption DEF TypeOK
<1>5. HoldsInv'
  <2>1. ASSUME NEW e \in Devs, e # d PROVE Holds(e)'
    BY <1>1, <1>2, <2>1, OtherHolds
  <2>2. Holds(d)'
    <3>1. CASE stage[d] = "unbound"
      BY <1>1, <1>2, <1>3, <3>1, BeforeEnds, Lengths DEF Holds
    <3>2. CASE stage[d] = "bound"
      BY <1>1, <1>2, <1>3, <3>2, BelowEnds DEF HoldsInv, Holds, PassedOver
    <3> QED
      BY <1>3, <3>1, <3>2
  <2> QED
    BY <2>1, <2>2 DEF HoldsInv
<1>6. ModuleInv'
  <2>1. module # {}
    BY <1>1, <1>3 DEF ModuleInv
  <2> QED
    BY <1>1, <2>1 DEF ModuleInv
<1>7. FileInv'
  <2>1. ASSUME NEW f \in Files, fpc[f] # "closed", f \notin stale
        PROVE  stage'[fdev[f]] = "probe" => at'[fdev[f]] > 11
    <3>1. /\ fdev[f] \in Devs /\ "priv" \in res[fdev[f]]
          /\ stage[fdev[f]] = "probe" => at[fdev[f]] > 11
      BY <2>1 DEF FileInv, TypeOK
    <3> QED
      BY <1>2, <1>3, <3>1
  <2> QED
    BY <1>1, <2>1 DEF FileInv
<1>8. CountInv'
  <2>1. \A e \in Devs : Users(e)' = Users(e)
    BY <1>1 DEF Users, Counted
  <2>2. ASSUME NEW e \in Devs, e # d PROVE Counts(e)'
    BY <1>1, <1>2, <2>1, <2>2, CountsKept DEF CountInv
  <2>3. Counts(d)'
    <3>1. ~ Dropped(d) /\ ~ Dropped(d)'
      BY <1>2, <1>3 DEF Dropped
    <3>2. /\ IsFiniteSet(Users(d)')
          /\ "priv" \in res'[d] =>
               refcount'[d] = Cardinality(Users(d)') + 1 /\ completion'[d] = 0
      BY <1>1, <2>1, <3>1 DEF CountInv, Counts
    <3> QED
      BY <3>1, <3>2 DEF Counts
  <2> QED
    BY <2>2, <2>3 DEF CountInv
<1>9. IsrInv' /\ HardwareReturned'
  BY <1>1 DEF IsrInv, HardwareReturned
<1>10. BoardsDistinct'
  BY <1>1, <1>2, <1>3, BoardsKept
<1> QED
  BY <1>4, <1>5, <1>6, <1>7, <1>8, <1>9, <1>10

\* As long as no device moves, what it holds and its board number stay.
LEMMA Standing ==
    ASSUME IInv, UNCHANGED <<devVars>>
    PROVE  HoldsInv' /\ BoardsDistinct' /\ HardwareReturned'
<1> USE DEF IInv, devVars
<1>1. HoldsInv'
  BY OtherHolds DEF HoldsInv
<1>2. BoardsDistinct'
  BY BoardsKept
<1> QED
  BY <1>1, <1>2 DEF HardwareReturned

\* The module, the handlers and the sysfs readers.
LEMMA RestKeeps ==
    ASSUME IInv,
           \/ amc_pci_init \/ amc_pci_exit \/ amc_pci_exit_done
           \/ \E d \in Devs : \/ Activity(d) \/ isr_enter(d)
                              \/ \E s \in {"sysfs1", "sysfs2"} : prom_read(d, s)
    PROVE  IInv'
<1> USE DEF IInv
<1>1. UNCHANGED <<devVars, refVars, fileVars>>
  BY DEF amc_pci_init, amc_pci_exit, amc_pci_exit_done, Activity, engine_done,
         isr_enter, isr_exit, prom_read, prom_read_done
<1>2. HoldsInv' /\ BoardsDistinct' /\ HardwareReturned'
  BY <1>1, Standing
<1>3. FileInv'
  BY <1>1 DEF FileInv, devVars, fileVars
<1>4. CountInv'
  <2>1. \A e \in Devs : Users(e)' = Users(e)
    BY <1>1 DEF Users, Counted, fileVars
  <2> QED
    BY <1>1, <2>1, CountsKept DEF CountInv, devVars, refVars
<1>5. ModuleInv' /\ module' \subseteq {"chrdev", "class", "driver", "exiting"}
  <2>1. CASE UNCHANGED module
    BY <1>1, <2>1 DEF ModuleInv, TypeOK, devVars, fileVars
  <2>2. CASE amc_pci_init
    BY <1>1, <2>1, <2>2 DEF amc_pci_init, ModuleInv, devVars, fileVars
  <2>3. CASE amc_pci_exit
    <3>1. module = {"chrdev", "class", "driver"}
      BY <2>3 DEF amc_pci_exit, ModuleInv
    <3>2. module' = {"chrdev", "class", "exiting"}
      BY <2>3, <3>1 DEF amc_pci_exit
    <3> QED
      BY <1>1, <2>3, <3>2 DEF amc_pci_exit, ModuleInv, devVars, fileVars
  <2>4. CASE amc_pci_exit_done
    <3>1. "driver" \notin module
      BY <2>4 DEF amc_pci_exit_done, ModuleInv
    <3> QED
      BY <1>1, <2>4, <3>1 DEF amc_pci_exit_done, ModuleInv, devVars, fileVars
  <2> QED
    BY <2>1, <2>2, <2>3, <2>4
    DEF Activity, engine_done, isr_enter, isr_exit, prom_read, prom_read_done
<1>6. running' \subseteq Devs /\ reading' \subseteq Devs \X {"sysfs1", "sysfs2"}
  <2>1. running' \subseteq running
    BY DEF amc_pci_init, amc_pci_exit, amc_pci_exit_done, Activity, engine_done,
           isr_enter, isr_exit, prom_read, prom_read_done, actVars
  <2>2. ASSUME NEW r \in reading'
        PROVE  r \in reading \/ r \in Devs \X {"sysfs1", "sysfs2"}
    <3>1. CASE reading' \subseteq reading
      BY <2>2, <3>1
    <3>2. ASSUME NEW d \in Devs, NEW s \in {"sysfs1", "sysfs2"}, prom_read(d, s)
          PROVE  r \in reading \/ r \in Devs \X {"sysfs1", "sysfs2"}
      BY <2>2, <3>2 DEF prom_read
    <3> QED
      BY <3>1, <3>2
      DEF amc_pci_init, amc_pci_exit, amc_pci_exit_done, Activity, engine_done,
          isr_enter, isr_exit, prom_read_done, actVars
  <2> QED
    BY <2>1, <2>2 DEF TypeOK
<1>7. inIsr' \subseteq Devs /\ IsrInv'
  <2>1. ASSUME NEW e \in inIsr'
        PROVE  e \in inIsr \/ (e \in Devs /\ "irq" \in res[e])
    BY <2>1 DEF amc_pci_init, amc_pci_exit, amc_pci_exit_done, Activity,
           engine_done, isr_enter, isr_exit, prom_read, prom_read_done, actVars
  <2>2. UNCHANGED res
    BY <1>1 DEF devVars
  <2> QED
    BY <2>1, <2>2 DEF TypeOK, IsrInv
<1>8. TypeOK'
  BY <1>1, <1>5, <1>6, <1>7 DEF TypeOK, devVars, refVars, fileVars
<1> QED
  BY <1>2, <1>3, <1>4, <1>5, <1>7, <1>8

-----------------------------------------------------------------------------
(* Files. *)

\* A step of a file that is open, or is about to be, finds the driver loaded;
\* the devices stay as they are.
LEMMA FileFrame ==
    ASSUME IInv, TypeOK', FileInv', CountInv', UNCHANGED <<module, devVars, inIsr>>,
           NEW f \in Files, fpc[f] # "closed" \/ "driver" \in module
    PROVE  IInv'
<1> USE DEF IInv
<1>1. HoldsInv' /\ BoardsDistinct' /\ HardwareReturned'
  BY Standing
<1>2. ModuleInv'
  BY DEF ModuleInv
<1>3. IsrInv'
  BY DEF IsrInv, devVars
<1> QED
  BY <1>1, <1>2, <1>3

\* A file that stays with its device and keeps or lacks its reference.
LEMMA PlaceKeeps ==
    ASSUME IInv, NEW f \in Files, node_open(f) \/ dma_start(f) \/ dma_finish(f) \/ dma_killed(f)
    PROVE  IInv'
<1> USE DEF IInv
<1>1. /\ UNCHANGED <<module, devVars, refVars, fdev, stale, inIsr, reading>>
      /\ Counted(f) /\ fpc[f] # "closed"
  BY DEF node_open, dma_start, dma_finish, dma_killed, Counted, actVars
<1>2. \E p \in {"reg", "dma", "transfer"} : fpc' = [fpc EXCEPT ![f] = p]
  BY DEF node_open, dma_start, dma_finish, dma_killed
<1>3. /\ \A g \in Files : Counted(g)' <=> Counted(g)
      /\ \A g \in Files : fpc'[g] = "closed" <=> fpc[g] = "closed"
      /\ fpc' \in [Files -> {"closed", "entering", "opening", "reg", "dma", "transfer"}]
  BY <1>1, <1>2 DEF Counted, TypeOK
<1>4. TypeOK'
  <2>1. running' \subseteq Devs
    <3>1. fdev[f] \in Devs
      BY <1>1 DEF FileInv, TypeOK
    <3> QED
      BY <3>1 DEF node_open, dma_start, dma_finish, dma_killed, TypeOK, actVars
  <2> QED
    BY <1>1, <1>3, <2>1 DEF TypeOK, devVars, refVars
<1>5. FileInv'
  BY <1>1, <1>3 DEF FileInv, devVars
<1>6. CountInv'
  <2>1. \A e \in Devs : Users(e)' = Users(e)
    BY <1>1, <1>3 DEF Users
  <2> QED
    BY <1>1, <2>1, CountsKept DEF CountInv, devVars, refVars
<1> QED
  BY <1>1, <1>4, <1>5, <1>6, FileFrame

\* The kernel finds the cdev: the file has no reference yet.
LEMMA EnterKeeps ==
    ASSUME IInv, NEW f \in Files, NEW d \in Devs, chrdev_open(f, d)
    PROVE  IInv'
<1> USE DEF IInv
<1>1. /\ UNCHANGED <<module, devVars, refVars, actVars>>
      /\ fpc[f] = "closed" /\ "driver" \in module
      /\ fpc' = [fpc EXCEPT ![f] = "entering"]
      /\ fdev' = [fdev EXCEPT ![f] = d]
      /\ \/ {"cdev", "priv"} \subseteq res[d] /\ UNCHANGED stale
         \/ stale' = stale \cup {f}
  BY DEF chrdev_open
<1>2. TypeOK'
  BY <1>1 DEF TypeOK, devVars, refVars, actVars
<1>3. /\ fpc'[f] = "entering" /\ fdev'[f] = d
      /\ \A g \in Files \ {f} : /\ UNCHANGED <<fpc[g], fdev[g]>>
                                /\ g \in stale' <=> g \in stale
  BY <1>1 DEF TypeOK
<1>4. FileInv'
  <2>1. d # None
    BY LifecycleAssumption
  <2>2. f \notin stale' => {"cdev", "priv"} \subseteq res[d]
    BY <1>1
  <2>3. "cdev" \in res[d] /\ stage[d] = "probe" => at[d] > 11
    <3>1. at[d] \in 1 .. 15
      BY Places
    <3> QED
      BY <3>1, StepOrder DEF HoldsInv, Holds
  <2>4. UNCHANGED <<res, stage, at>>
    BY <1>1 DEF devVars
  <2>5. ASSUME NEW g \in Files, g # f
        PROVE  /\ fpc'[g] = "closed" <=> fdev'[g] = None
               /\ g \in stale' => fpc'[g] # "closed"
               /\ fpc'[g] # "closed" /\ g \notin stale' =>
                      /\ "priv" \in res'[fdev'[g]]
                      /\ stage'[fdev'[g]] = "probe" => at'[fdev'[g]] > 11
    BY <1>3, <2>4, <2>5 DEF FileInv
  <2> QED
    BY <1>3, <2>1, <2>2, <2>3, <2>4, <2>5 DEF FileInv
<1>5. CountInv'
  <2>1. ASSUME NEW e \in Devs PROVE Users(e)' = Users(e)
    BY <1>1, <1>3 DEF Users, Counted
  <2> QED
    BY <1>1, <2>1, CountsKept DEF CountInv, devVars, refVars
<1> QED
  BY <1>1, <1>2, <1>4, <1>5, FileFrame DEF actVars

\* A file that is closed leaves the others as they are.
LEMMA CloseFacts ==
    ASSUME TypeOK, FileInv, NEW f \in Files, Close(f), UNCHANGED <<devVars>>
    PROVE  /\ FileInv' /\ stale' \subseteq Files
           /\ fpc' \in [Files -> {"closed", "entering", "opening", "reg", "dma",
                                  "transfer"}]
           /\ fdev' \in [Files -> Devs \cup {None}]
           /\ \A e \in Devs : Users(e)' = Users(e) \ {f}
<1>1. /\ fpc'[f] = "closed" /\ fdev'[f] = None /\ stale' = stale \ {f}
      /\ \A g \in Files \ {f} : UNCHANGED <<fpc[g], fdev[g]>>
  BY DEF Close, TypeOK
<1>2. UNCHANGED <<res, stage, at>>
  BY DEF devVars
<1>3. FileInv'
  <2>1. ASSUME NEW g \in Files, g # f
        PROVE  /\ fpc'[g] = "closed" <=> fdev'[g] = None
               /\ g \in stale' => fpc'[g] # "closed"
               /\ fpc'[g] # "closed" /\ g \notin stale' =>
                      /\ "priv" \in res'[fdev'[g]]
                      /\ stage'[fdev'[g]] = "probe" => at'[fdev'[g]] > 11
    BY <1>1, <1>2, <2>1 DEF FileInv
  <2> QED
    BY <1>1, <2>1 DEF FileInv
<1>4. \A e \in Devs : Users(e)' = Users(e) \ {f}
  BY <1>1 DEF Users, Counted
<1> QED
  BY <1>1, <1>3, <1>4 DEF Close, TypeOK

\* amc_pci_open counts the file, or refuses it.
LEMMA OpenKeeps ==
    ASSUME IInv, NEW f \in Files, amc_pci_open(f)
    PROVE  IInv'
<1> USE DEF IInv
<1>1. UNCHANGED <<module, devVars, completion, actVars>> /\ fpc[f] = "entering"
  BY DEF amc_pci_open
<1>2. UNCHANGED <<device_boards, board, stage, at, res, withDma, orphans>>
  BY <1>1 DEF devVars
<1>3. \A e \in Devs : f \notin Users(e)
  BY <1>1 DEF Users, Counted
<1>4. CASE Close(f) /\ UNCHANGED refcount
  <2>1. TypeOK'
    BY <1>1, <1>2, <1>4, CloseFacts DEF TypeOK, actVars
  <2>2. ASSUME NEW e \in Devs PROVE Users(e)' = Users(e)
    <3>1. Users(e)' = Users(e) \ {f}
      BY <1>1, <1>4, CloseFacts
    <3> QED
      BY <1>3, <3>1
  <2>3. CountInv'
    BY <1>1, <1>2, <1>4, <2>2, CountsKept DEF CountInv
  <2>4. FileInv'
    BY <1>1, <1>4, CloseFacts
  <2> QED
    BY <1>1, <2>1, <2>3, <2>4, FileFrame DEF actVars
<1>5. CASE /\ f \notin stale /\ refcount[fdev[f]] > 0
           /\ refcount' = [refcount EXCEPT ![fdev[f]] = @ + 1]
           /\ fpc' = [fpc EXCEPT ![f] = "opening"]
           /\ UNCHANGED <<fdev, stale>>
  <2>1. PICK d \in Devs : d = fdev[f] /\ "priv" \in res[d]
    BY <1>1, <1>5 DEF FileInv, TypeOK
  <2>2. TypeOK'
    BY <1>1, <1>2, <1>5, <2>1 DEF TypeOK, actVars
  <2>3. fpc'[f] = "opening" /\ \A g \in Files \ {f} : UNCHANGED fpc[g]
    BY <1>5 DEF TypeOK
  <2>4. FileInv'
    BY <1>1, <1>2, <1>5, <2>3 DEF FileInv
  <2>5. ASSUME NEW e \in Devs, e # d PROVE Counts(e)'
    <3>1. Users(e)' = Users(e)
      BY <1>5, <2>1, <2>3, <2>5 DEF Users, Counted
    <3>2. UNCHANGED refcount[e]
      BY <1>5, <2>1, <2>5 DEF TypeOK
    <3> QED
      BY <1>1, <1>2, <2>5, <3>1, <3>2, CountsKept DEF CountInv
  <2>6. Counts(d)'
    <3>1. Users(d)' = Users(d) \cup {f}
      BY <1>5, <2>1, <2>3 DEF Users, Counted
    <3>2. Counts(d) /\ IsFiniteSet(Users(d))
      BY <2>1 DEF CountInv, Counts
    <3>3. f \notin Users(d)
      BY <1>3, <2>1
    <3>4. /\ IsFiniteSet(Users(d)')
          /\ Cardinality(Users(d)') = Cardinality(Users(d)) + 1
      BY <3>1, <3>2, <3>3, FS_AddElement
    <3>5. refcount'[d] = refcount[d] + 1 /\ refcount[d] \in Nat /\ refcount[d] > 0
      BY <1>5, <2>1 DEF TypeOK
    <3>6. UNCHANGED <<stage[d], at[d], res[d], completion[d]>>
      BY <1>1, <1>2
    <3>7. CASE Dropped(d)
      <4>1. /\ refcount'[d] = Cardinality(Users(d)') /\ ~ (at'[d] > 4)
            /\ refcount'[d] # 0 /\ completion'[d] = 0
        BY <2>1, <3>2, <3>4, <3>5, <3>6, <3>7 DEF Counts
      <4>2. Dropped(d)'
        BY <3>6, <3>7 DEF Dropped
      <4> QED
        BY <3>4, <4>1, <4>2 DEF Counts
    <3>8. CASE ~ Dropped(d)
      <4>1. refcount'[d] = Cardinality(Users(d)') + 1 /\ completion'[d] = 0
        BY <2>1, <3>2, <3>4, <3>5, <3>6, <3>8 DEF Counts
      <4>2. ~ Dropped(d)'
        BY <3>6, <3>8 DEF Dropped
      <4> QED
        BY <3>4, <4>1, <4>2 DEF Counts
    <3> QED
      BY <3>7, <3>8
  <2>7. CountInv'
    BY <2>5, <2>6 DEF CountInv
  <2> QED
    BY <1>1, <2>2, <2>4, <2>7, FileFrame DEF actVars
<1> QED
  BY <1>4, <1>5 DEF amc_pci_open

\* amc_pci_release drops the reference of a file that has one.
LEMMA CloseKeeps ==
    ASSUME IInv, NEW f \in Files, amc_pci_release(f)
    PROVE  IInv'
<1> USE DEF IInv
<1>1. /\ UNCHANGED <<module, devVars, actVars>> /\ Close(f) /\ Counted(f)
      /\ fpc[f] # "closed"
  BY DEF amc_pci_release, Counted
<1>2. UNCHANGED <<device_boards, board, stage, at, res, withDma, orphans>>
  BY <1>1 DEF devVars
<1>3. /\ FileInv' /\ stale' \subseteq Files
      /\ fpc' \in [Files -> {"closed", "entering", "opening", "reg", "dma", "transfer"}]
      /\ fdev' \in [Files -> Devs \cup {None}]
      /\ \A e \in Devs : Users(e)' = Users(e) \ {f}
  BY <1>1, CloseFacts
<1>4. CASE f \in stale
  <2>1. UNCHANGED <<refcount, completion>>
    BY <1>4 DEF amc_pci_release, refVars
  <2>2. \A e \in Devs : Users(e)' = Users(e)
    BY <1>3, <1>4 DEF Users
  <2>3. CountInv'
    BY <1>2, <2>1, <2>2, CountsKept DEF CountInv
  <2>4. TypeOK'
    BY <1>1, <1>2, <1>3, <2>1 DEF TypeOK, actVars
  <2> QED
    BY <1>1, <1>3, <2>3, <2>4, FileFrame DEF actVars
<1>5. CASE f \notin stale
  <2>1. PICK d \in Devs : d = fdev[f] /\ "priv" \in res[d]
    BY <1>1, <1>5 DEF FileInv, TypeOK
  <2>2. f \in Users(d) /\ Counts(d) /\ IsFiniteSet(Users(d))
    BY <1>1, <1>5, <2>1 DEF Users, CountInv, Counts
  <2>3. /\ IsFiniteSet(Users(d)') /\ Cardinality(Users(d)') \in Nat
        /\ Cardinality(Users(d)) = Cardinality(Users(d)') + 1
    <3>1. Users(d)' = Users(d) \ {f}
      BY <1>3, <2>1
    <3>2. /\ IsFiniteSet(Users(d) \ {f})
          /\ Cardinality(Users(d) \ {f}) = Cardinality(Users(d)) - 1
      BY <2>2, FS_RemoveElement
    <3>3. Cardinality(Users(d)) \in Nat /\ Cardinality(Users(d) \ {f}) \in Nat
      BY <2>2, <3>2, FS_CardinalityType
    <3> QED
      BY <3>1, <3>2, <3>3
  <2>4. /\ refcount' = [refcount EXCEPT ![d] = @ - 1]
        /\ completion' = [completion EXCEPT ![d] = IF refcount[d] = 1 THEN @ + 1
                                                   ELSE @]
    BY <1>5, <2>1 DEF amc_pci_release, DropReference
  <2>5. /\ refcount[d] \in Nat /\ refcount'[d] = refcount[d] - 1
        /\ completion'[d] = IF refcount[d] = 1 THEN completion[d] + 1 ELSE completion[d]
    BY <2>1, <2>4 DEF TypeOK
  <2>6. UNCHANGED <<stage[d], at[d], res[d]>> /\ at[d] \in Nat
    BY <1>2, <2>1, Places
  <2>7. Counts(d)' /\ refcount'[d] \in Nat /\ completion'[d] \in Nat
    <3>1. CASE Dropped(d)
      <4>1. /\ refcount[d] = Cardinality(Users(d)) /\ at[d] = 4
            /\ completion[d] = 0
        BY <2>1, <2>2, <2>3, <2>6, <3>1 DEF Counts, Dropped
      <4>2. /\ refcount'[d] = Cardinality(Users(d)') /\ at'[d] = 4
            /\ completion'[d] = IF refcount'[d] = 0 THEN 1 ELSE 0
        BY <2>3, <2>5, <2>6, <4>1
      <4>3. Dropped(d)'
        BY <2>6, <3>1 DEF Dropped
      <4> QED
        BY <2>3, <4>2, <4>3 DEF Counts
    <3>2. CASE ~ Dropped(d)
      <4>1. refcount[d] = Cardinality(Users(d)) + 1 /\ completion[d] = 0
        BY <2>1, <2>2, <3>2 DEF Counts
      <4>2. refcount'[d] = Cardinality(Users(d)') + 1 /\ completion'[d] = 0
        BY <2>3, <2>5, <4>1
      <4>3. ~ Dropped(d)'
        BY <2>6, <3>2 DEF Dropped
      <4> QED
        BY <2>3, <4>2, <4>3 DEF Counts
    <3> QED
      BY <3>1, <3>2
  <2>8. TypeOK'
    BY <1>1, <1>2, <1>3, <2>1, <2>4, <2>7 DEF TypeOK, actVars
  <2>9. CountInv'
    <3>1. ASSUME NEW e \in Devs, e # d PROVE Counts(e)'
      <4>1. Users(e)' = Users(e)
        BY <1>3, <2>1, <3>1 DEF Users
      <4>2. UNCHANGED <<refcount[e], completion[e]>>
        BY <2>4, <3>1 DEF TypeOK
      <4> QED
        BY <1>2, <3>1, <4>1, <4>2, CountsKept DEF CountInv
    <3> QED
      BY <2>7, <3>1 DEF CountInv
  <2> QED
    BY <1>1, <1>3, <2>8, <2>9, FileFrame DEF actVars
<1> QED
  BY <1>4, <1>5

-----------------------------------------------------------------------------
(* The invariant is inductive. *)

\* It holds before the module is loaded.
LEMMA InitIInv == Init => IInv
<1> SUFFICES ASSUME Init PROVE IInv
  OBVIOUS
<1> USE DEF Init
<1>1. TypeOK
  BY Lengths, LifecycleAssumption DEF TypeOK
<1>2. HoldsInv /\ ModuleInv /\ IsrInv /\ HardwareReturned
  BY DEF HoldsInv, Holds, ModuleInv, IsrInv, HardwareReturned
<1>3. FileInv
  BY DEF FileInv
<1>4. CountInv
  <2> SUFFICES ASSUME NEW d \in Devs PROVE Counts(d)
    BY DEF CountInv
  <2>1. Users(d) = {}
    BY DEF Users, Counted
  <2> QED
    BY <2>1, FS_EmptySet DEF Counts
<1>5. BoardsDistinct
  BY DEF BoardsDistinct
<1> QED
  BY <1>1, <1>2, <1>3, <1>4, <1>5 DEF IInv

\* A step that changes nothing keeps it.
LEMMA StutterKeeps ==
    ASSUME IInv, UNCHANGED vars
    PROVE  IInv'
<1> USE DEF IInv, vars
<1>1. TypeOK' /\ ModuleInv' /\ FileInv' /\ IsrInv'
  BY DEF TypeOK, ModuleInv, FileInv, IsrInv
<1>2. HoldsInv' /\ BoardsDistinct' /\ HardwareReturned'
  BY Standing DEF devVars
<1>3. CountInv'
  <2>1. \A e \in Devs : Users(e)' = Users(e)
    BY DEF Users, Counted
  <2> QED
    BY <2>1, CountsKept DEF CountInv
<1> QED
  BY <1>1, <1>2, <1>3

\* So does every step.
LEMMA NextIInv == IInv /\ [Next]_vars => IInv'
<1> SUFFICES ASSUME IInv, [Next]_vars PROVE IInv'
  OBVIOUS
<1>1. CASE UNCHANGED vars
  BY <1>1, StutterKeeps
<1>2. CASE \/ amc_pci_init \/ amc_pci_exit \/ amc_pci_exit_done
           \/ \E d \in Devs : \/ Activity(d) \/ isr_enter(d)
                              \/ \E s \in {"sysfs1", "sysfs2"} : prom_read(d, s)
  BY <1>2, RestKeeps
<1>3. ASSUME NEW d \in Devs, amc_pci_probe(d) \/ amc_pci_remove(d)
      PROVE  IInv'
  BY <1>3, EntryKeeps
<1>4. ASSUME NEW d \in Devs, ProbeStep(d)
      PROVE  IInv'
  BY <1>4, ProbeKeeps
<1>5. ASSUME NEW d \in Devs, TeardownStep(d)
      PROVE  IInv'
  BY <1>5, ReleaseKeeps, WaitKeeps DEF TeardownStep
<1>6. ASSUME NEW f \in Files, NEW d \in Devs, chrdev_open(f, d)
      PROVE  IInv'
  BY <1>6, EnterKeeps
<1>7. ASSUME NEW f \in Files, FileStep(f) \/ node_open(f) \/ dma_start(f) \/ dma_killed(f)
      PROVE  IInv'
  BY <1>7, OpenKeeps, CloseKeeps, PlaceKeeps DEF FileStep
<1> QED
  BY <1>1, <1>2, <1>3, <1>4, <1>5, <1>6, <1>7 DEF Next

\* IInv holds in every state that module loading, probe, remove, files,
\* interrupts and sysfs readers can reach.
THEOREM Inductive == Spec => []IInv
<1>1. Init => IInv
  BY InitIInv
<1>2. IInv /\ [Next]_vars => IInv'
  BY NextIInv
<1> QED
  BY <1>1, <1>2, PTL DEF Spec

-----------------------------------------------------------------------------
(* The properties. *)

\* What is there between the registration of the cdev and the end of
\* wait_for_clients.
LEMMA AtWork ==
    ASSUME IInv, NEW d \in Devs,
           \/ stage[d] = "probe" /\ at[d] > 11
           \/ stage[d] = "bound"
           \/ stage[d] = "remove" /\ at[d] <= 4
    PROVE  /\ {"priv", "bar2", "prom", "irq", "msi", "device"} \subseteq res[d]
           /\ d \in withDma => "dma" \in res[d]
<1>1. TypeOK /\ HoldsInv
  BY DEF IInv
<1>2. at[d] \in 1 .. 15 /\ Holds(d)
  BY <1>1, Places DEF HoldsInv
<1>3. CASE stage[d] = "probe" /\ at[d] > 11
  <2>1. res[d] = (Before(at[d]) \cap Resources) \ PassedOver(d)
    BY <1>2, <1>3 DEF Holds
  <2>2. {"priv", "bar2", "prom", "irq", "msi", "device", "dma"} \subseteq Before(at[d])
    BY <1>2, <1>3, StepOrder
  <2> QED
    BY <2>1, <2>2, ResourceNames DEF PassedOver
<1>4. CASE stage[d] = "bound"
  BY <1>2, <1>4, ResourceNames DEF Holds, PassedOver
<1>5. CASE stage[d] = "remove" /\ at[d] <= 4
  <2>1. res[d] = (Below(RemoveLadder, at[d]) \cap Resources) \ PassedOver(d)
    BY <1>2, <1>5 DEF Holds
  <2>2. at[d] \in Nat \ {0}
    BY <1>2
  <2>3. {"priv", "bar2", "prom", "irq", "msi", "device", "dma"}
            \subseteq Below(RemoveLadder, at[d])
    BY <1>5, <2>2, RemoveOrder
  <2> QED
    BY <2>1, <2>3, ResourceNames DEF PassedOver
<1> QED
  BY <1>3, <1>4, <1>5

\* Every variable keeps its type; the reference count never goes negative.
THEOREM TypeCorrect == Spec => []TypeOK
<1>1. IInv => TypeOK
  BY DEF IInv
<1> QED
  BY <1>1, Inductive, PTL

\* Unless probe itself fails, everything an open file uses is there until it
\* is closed: wait_for_clients waits for every file amc_pci_open has counted.
THEOREM ClientsKeepBoard == Spec => []ClientsSafe
<1>1. IInv => ClientsSafe
  <2> SUFFICES ASSUME IInv, NEW f \in Files, Counted(f), f \notin stale,
                      stage[fdev[f]] # "unwind"
               PROVE  /\ {"priv", "bar2", "prom", "irq", "msi", "device"}
                             \subseteq res[fdev[f]]
                      /\ fdev[f] \in withDma => "dma" \in res[fdev[f]]
    BY DEF ClientsSafe
  <2> USE DEF IInv
  <2>1. PICK d \in Devs : /\ d = fdev[f] /\ "priv" \in res[d]
                          /\ stage[d] = "probe" => at[d] > 11
    BY DEF FileInv, TypeOK, Counted
  <2>2. f \in Users(d) /\ Counts(d)
    BY <2>1 DEF Users, CountInv
  <2>3. Cardinality(Users(d)) # 0
    BY <2>2, FS_EmptySet DEF Counts
  <2>4. at[d] \in Nat /\ stage[d] \in {"unbound", "probe", "bound", "remove"}
    BY <2>1, Places DEF TypeOK
  <2>5. stage[d] = "remove" => at[d] <= 4
    BY <2>1, <2>2, <2>3, <2>4 DEF Counts, Dropped
  <2>6. stage[d] # "unbound"
    BY <2>1 DEF HoldsInv, Holds
  <2> QED
    BY <2>1, <2>4, <2>5, <2>6, AtWork
<1> QED
  BY <1>1, Inductive, PTL

\* While amc_pci_isr runs, the interrupt control, the registers and the DMA
\* control exist: neither remove nor an error exit of probe takes them away
\* before free_irq has waited for the handler.
THEOREM HandlerKeepsBoard == Spec => []IsrSafe
<1>1. IInv => IsrSafe
  <2> SUFFICES ASSUME IInv, NEW d \in inIsr
               PROVE  /\ {"irq", "bar2", "priv"} \subseteq res[d]
                      /\ d \in withDma => "dma" \in res[d]
    BY DEF IsrSafe
  <2> USE DEF IInv
  <2>1. /\ d \in Devs /\ "irq" \in res[d] /\ Holds(d)
        /\ stage[d] \in {"unbound", "probe", "bound", "remove", "unwind"}
    BY DEF IsrInv, TypeOK, HoldsInv
  <2>2. at[d] \in 1 .. 15 /\ at[d] \in Nat \ {0} /\ at[d] \in Int
    BY <2>1, Places
  <2>3. CASE stage[d] = "probe"
    <3>1. res[d] = (Before(at[d]) \cap Resources) \ PassedOver(d)
      BY <2>1, <2>3 DEF Holds
    <3>2. at[d] > 10
      BY <2>1, <2>2, <3>1, StepOrder
    <3>3. {"irq", "bar2", "priv", "dma"} \subseteq Before(at[d])
      BY <2>2, <3>2, StepOrder
    <3> QED
      BY <3>1, <3>3, ResourceNames DEF PassedOver
  <2>4. CASE stage[d] = "bound"
    BY <2>1, <2>4, ResourceNames DEF Holds, PassedOver
  <2>5. CASE stage[d] = "remove"
    <3>1. res[d] = (Below(RemoveLadder, at[d]) \cap Resources) \ PassedOver(d)
      BY <2>1, <2>5 DEF Holds
    <3>2. at[d] <= 5
      BY <2>1, <2>2, <3>1, RemoveOrder
    <3>3. {"irq", "bar2", "priv", "dma"} \subseteq Below(RemoveLadder, at[d])
      BY <2>2, <3>2, RemoveOrder
    <3> QED
      BY <3>1, <3>3, ResourceNames DEF PassedOver
  <2>6. CASE stage[d] = "unwind"
    <3>1. /\ Below(UnwindLadder, at[d]) \ PassedOver(d) \subseteq res[d]
          /\ res[d] \subseteq Below(UnwindLadder, at[d]) \cup Leftover
      BY <2>1, <2>6 DEF Holds
    <3>2. at[d] <= 1
      BY <2>1, <2>2, <3>1, UnwindOrder DEF Leftover
    <3>3. {"irq", "bar2", "priv", "dma"} \subseteq Below(UnwindLadder, at[d])
      BY <2>2, <3>2, UnwindOrder
    <3> QED
      BY <3>1, <3>3 DEF PassedOver
  <2> QED
    BY <2>1, <2>3, <2>4, <2>5, <2>6 DEF Holds
<1> QED
  BY <1>1, Inductive, PTL

\* A sysfs reader finds struct amc_pci until its file is removed, and outside
\* of remove the PROM buffer and the mapping too.
THEOREM ReadersKeepBoard == Spec => []SysfsSafe
<1>1. IInv => SysfsSafe
  <2> SUFFICES ASSUME IInv, NEW r \in reading, r[2] \in res[r[1]],
                      stage[r[1]] # "unwind"
               PROVE  /\ "priv" \in res[r[1]]
                      /\ stage[r[1]] # "remove" => {"prom", "bar2"} \subseteq res[r[1]]
    BY DEF SysfsSafe
  <2> USE DEF IInv
  <2>1. PICK d \in Devs, s \in {"sysfs1", "sysfs2"} :
            /\ r[1] = d /\ r[2] = s /\ Holds(d)
            /\ stage[d] \in {"unbound", "probe", "bound", "remove", "unwind"}
    BY DEF TypeOK, HoldsInv
  <2>2. at[d] \in 1 .. 15 /\ at[d] \in Nat \ {0} /\ at[d] \in Int
    BY Places
  <2>3. CASE stage[d] = "probe"
    <3>1. res[d] = (Before(at[d]) \cap Resources) \ PassedOver(d)
      BY <2>1, <2>3 DEF Holds
    <3>2. at[d] > 13
      BY <2>1, <2>2, <3>1, StepOrder
    <3>3. {"prom", "bar2", "priv"} \subseteq Before(at[d])
      BY <2>2, <3>2, StepOrder
    <3> QED
      BY <2>1, <3>1, <3>3, ResourceNames DEF PassedOver
  <2>4. CASE stage[d] = "bound"
    BY <2>1, <2>4, ResourceNames DEF Holds, PassedOver
  <2>5. CASE stage[d] = "remove"
    <3>1. res[d] = (Below(RemoveLadder, at[d]) \cap Resources) \ PassedOver(d)
      BY <2>1, <2>5 DEF Holds
    <3>2. "priv" \in Below(RemoveLadder, at[d])
      BY <2>2, RemoveOrder
    <3> QED
      BY <2>1, <2>5, <3>1, <3>2, ResourceNames DEF PassedOver
  <2> QED
    BY <2>1, <2>3, <2>4, <2>5 DEF Holds
<1> QED
  BY <1>1, Inductive, PTL

\* Boards have different numbers, and get_free_board's mask is that of the
\* numbers in use.
THEOREM NumbersDistinct == Spec => []BoardsDistinct
<1>1. IInv => BoardsDistinct
  BY DEF IInv
<1> QED
  BY <1>1, Inductive, PTL

\* Whichever step of probe fails, the ladder gives back all but the PROM
\* buffer, the cdev, the nodes and the first sysfs file.
THEOREM LadderReturns == Spec => []HardwareReturned
<1>1. IInv => HardwareReturned
  BY DEF IInv
<1> QED
  BY <1>1, Inductive, PTL

\* amc_pci_exit destroys the class and the device numbers after the last board
\* and the last file.
THEOREM ModuleLast == Spec => []ModuleOutlivesBoards
<1>1. IInv => ModuleOutlivesBoards
  <2> SUFFICES ASSUME IInv, module = {}
               PROVE  /\ \A d \in Devs : res[d] = {}
                      /\ \A f \in Files : fpc[f] = "closed"
    BY DEF IInv, ModuleInv, ModuleOutlivesBoards
  <2> QED
    BY DEF IInv, ModuleInv, HoldsInv, Holds
<1> QED
  BY <1>1, Inductive, PTL
=============================================================================
