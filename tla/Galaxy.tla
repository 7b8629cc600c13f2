------------------------------- MODULE Galaxy -------------------------------
(***************************************************************************)
(* A galaxy: several archives read as one.  uat-galaxy-util makes a table  *)
(* of all message ids, of the archives each is in, and of the links that   *)
(* lead from an archive to another one; libuat opens the archives of a     *)
(* galaxy in parallel and compares how they show a message.  Archives that *)
(* were there for uat-galaxy-util may be gone when the galaxy is opened    *)
(* (its man page), and are then left out.                                  *)
(*                                                                         *)
(* Archives are those of module Collection.  Which message is the parent   *)
(* of which is connectivity's business (module Connectivity); with         *)
(* references that form no loop it is the last reference the archive has.  *)
(***************************************************************************)
EXTENDS Collection

CONSTANT References \* References[m]: the ids in its header, from the left

ASSUME GalaxyAssumption == References \in [Msg -> Seq(MsgId)]

VARIABLES galaxy, \* what uat-galaxy-util wrote
          loader  \* the galaxy being opened, and what is known of it then

galaxyVars == <<galaxy, loader>>

NoGalaxy == [list |-> <<>>]
NoLoader == [phase |-> "no"]

GalaxyInit == galaxy = NoGalaxy /\ loader = NoLoader
-----------------------------------------------------------------------------
(* GetParentFromReferences: the last reference that is known, as a set.    *)
LastKnown(refs, known) ==
    {refs[k] : k \in {k \in DOMAIN refs :
                         refs[k] \in known /\ \A l \in (k + 1)..Len(refs) : refs[l] \notin known}}

(* What Archive answers of the message with an id: its parent, as a set of *)
(* at most one id, and the ids of its children.                            *)
Mid(a) == archive[a].mid
TextOf(a, id) == Text(archive[a].z, CHOOSE i \in DOMAIN Mid(a) : Mid(a)[i] = id)

ParentIn(a, id) == LastKnown(References[TextOf(a, id)], Range(Mid(a)))

ChildrenIn(a, id) ==
    LET IsChild(i) == id \in LastKnown(References[Text(archive[a].z, i)], Range(Mid(a)))
        children == Numbers(Len(Mid(a)), {i \in DOMAIN Mid(a) : IsChild(i)})
    IN  [k \in DOMAIN children |-> Mid(a)[children[k]]]
-----------------------------------------------------------------------------
(* Variant: the other archives are not asked.                              *)
IndirectParentAlways(list, groups, id) ==
    LET ids == UNION {Range(Mid(list[g])) : g \in DOMAIN list}
        first == list[groups[1]]
    IN  IF ParentIn(first, id) # {} THEN {}
        ELSE LastKnown(References[TextOf(first, id)], ids)

(* uat-galaxy-util.  A message at the top in the first archive that has it *)
(* gets an indirect parent: the one its references lead to in the galaxy,  *)
(* unless another archive already shows it below that one.                 *)
IndirectParent(list, groups, id) ==
    LET ids == UNION {Range(Mid(list[g])) : g \in DOMAIN list}
        first == list[groups[1]]
    IN  IF ParentIn(first, id) # {} THEN {}
        ELSE {p \in LastKnown(References[TextOf(first, id)], ids) :
                 \A g \in 2..Len(groups) : ParentIn(list[groups[g]], id) # {p}}

GalaxyUtil(list) ==
    LET ids == UNION {Range(Mid(list[g])) : g \in DOMAIN list}
        groups == [id \in ids |-> Numbers(Len(list), {g \in DOMAIN list : Found(Mid(list[g]), id)})]
        parents == [id \in ids |-> IndirectParent(list, groups[id], id)]
    IN  /\ job = NoJob /\ galaxy = NoGalaxy
        /\ \A a \in Range(list) : HasZ(a) /\ HasMid(a) /\ archive[a].conn /\ ~Wrapped(a)
        /\ galaxy' = [list     |-> list,
                      groups   |-> groups,
                      parents  |-> parents,
                      children |-> [id \in ids |-> {c \in ids : id \in parents[c]}]]
        /\ UNCHANGED loader

(* Galaxy::Galaxy: tasks draw numbers of archives; one that opens is put   *)
(* in its slot, and then, with the lock, on the list of available ones.    *)
(* What a task of the pool has in hand is the number it drew.              *)
OpenGalaxy(gone) ==
    /\ galaxy # NoGalaxy /\ loader = NoLoader
    /\ gone \subseteq DOMAIN galaxy.list /\ gone # DOMAIN galaxy.list
    /\ loader' = [phase |-> "opening", gone |-> gone, cnt |-> 1,
                  hand  |-> {},
                  arch  |-> {},     \* the slots of m_arch that are set
                  available |-> <<>>]
    /\ UNCHANGED galaxy

DrawArchive ==
    /\ loader.phase = "opening" /\ Cardinality(loader.hand) < Cpus
    /\ loader.cnt <= Len(galaxy.list)
    /\ loader' = [loader EXCEPT !.cnt = @ + 1,
                                !.hand = @ \cup ({loader.cnt} \ loader.gone)]
    /\ UNCHANGED galaxy

SetSlot ==
    /\ loader.phase = "opening"
    /\ \E k \in loader.hand \ loader.arch : loader' = [loader EXCEPT !.arch = @ \cup {k}]
    /\ UNCHANGED galaxy

PushAvailable ==
    /\ loader.phase = "opening"
    /\ \E k \in loader.hand \cap loader.arch :
          loader' = [loader EXCEPT !.available = Append(@, k), !.hand = @ \ {k}]
    /\ UNCHANGED galaxy

(* Sync() of the pool.                                                     *)
Opened == /\ loader.phase = "opening"
          /\ loader.cnt > Len(galaxy.list) /\ loader.hand = {}
          /\ loader' = [loader EXCEPT !.phase = "open"]
          /\ UNCHANGED galaxy

(* A bound: of two archives, one of them the newest, in either order as    *)
(* long as there is room for another archive, then with the newest last.   *)
GalaxyNext == \/ \E a \in 1..(Len(archive) - 1), b \in {Len(archive)} :
                    \/ GalaxyUtil(<<a, b>>)
                    \/ Len(archive) < MaxArchives /\ GalaxyUtil(<<b, a>>)
              \/ \E gone \in SUBSET DOMAIN galaxy.list : OpenGalaxy(gone)
              \/ DrawArchive \/ SetSlot \/ PushAvailable \/ Opened
-----------------------------------------------------------------------------
(* AreChildrenSame and AreParentsSame: what the archives that have a       *)
(* message, and are available, show around it.                             *)
Available(id) == LET groups == galaxy.groups[id]
                     here == Numbers(Len(groups), {k \in DOMAIN groups : groups[k] \in loader.arch})
                 IN  [k \in DOMAIN here |-> galaxy.list[groups[here[k]]]]

(* Variant: the numbers of children are not compared.                      *)
AreChildrenSameAnyNumber(id) ==
    LET arch == Available(id)
    IN  \A k \in 2..Len(arch) :
            Range(ChildrenIn(arch[k], id)) \subseteq Range(ChildrenIn(arch[1], id))

AreChildrenSame(id) ==
    LET arch == Available(id)
    IN  \A k \in 2..Len(arch) :
            /\ Len(ChildrenIn(arch[k], id)) = Len(ChildrenIn(arch[1], id))
            /\ Range(ChildrenIn(arch[k], id)) \subseteq Range(ChildrenIn(arch[1], id))

AreParentsSame(id) ==
    LET arch == Available(id)
    IN  \A k \in 2..Len(arch) : ParentIn(arch[k], id) = ParentIn(arch[1], id)

NoneTwice(a) == Cardinality(Range(Mid(a))) = Len(Mid(a))

(* The indirect links of a galaxy lead both ways, each from the top of a   *)
(* thread into another archive, never to what some archive shows as the    *)
(* parent already.  Together with the archives they let a reader go from   *)
(* any message to one it refers to, if the galaxy has any of those.        *)
IndirectLinksRight ==
    galaxy # NoGalaxy =>
        LET list == galaxy.list
            ids == DOMAIN galaxy.groups
            Has(id) == {g \in DOMAIN list : Found(Mid(list[g]), id)}
        IN  \A id \in ids :
              /\ Range(galaxy.groups[id]) = Has(id) /\ Has(id) # {}
              /\ Cardinality(galaxy.parents[id]) <= 1
              /\ \A p \in galaxy.parents[id] :
                    /\ id \in galaxy.children[p]
                    /\ \A g \in Has(id) : ParentIn(list[g], id) # {p}
                    /\ \E g \in Has(id) : ~Found(Mid(list[g]), p)
              /\ \A c \in galaxy.children[id] : id \in galaxy.parents[c]
              /\ (\A g \in Has(id) : Range(References[TextOf(list[g], id)]) \cap ids # {})
                    => galaxy.parents[id] # {} \/ \E g \in Has(id) : ParentIn(list[g], id) # {}

(* An open galaxy has the archives there are, each listed once, in any     *)
(* order; and where it says that the archives show the same around a       *)
(* message they do, so the browser may leave out the others.  An archive   *)
(* with duplicates can deceive it.                                         *)
GalaxyAnswers ==
    loader.phase = "open" =>
        LET list == galaxy.list
            there == DOMAIN list \ loader.gone
            Shown(id, In(_, _)) == {In(list[g], id) : g \in Range(galaxy.groups[id]) \cap there}
            Kids(a, id) == Range(ChildrenIn(a, id))
        IN  /\ loader.arch = there
            /\ Range(loader.available) = there /\ Len(loader.available) = Cardinality(there)
            /\ (\A g \in there : NoneTwice(list[g])) =>
                  \A id \in DOMAIN galaxy.groups :
                      /\ AreChildrenSame(id) <=> Cardinality(Shown(id, Kids)) <= 1
                      /\ AreParentsSame(id) <=> Cardinality(Shown(id, ParentIn)) <= 1
=============================================================================
