--------------------------- MODULE GeneratorProofs --------------------------
(***************************************************************************)
(* What generators do with the models of an assembly, proved for every     *)
(* assembly: its connections, its ids, and the ranges of the types of its  *)
(* packed records.                                                         *)
(*                                                                         *)
(* Wiring.  However many files an assembly has and whatever their          *)
(* connections name, the slots of the connectors and the connections agree *)
(* with each other for as long as no connection is refused, and no invoker *)
(* is attached twice even then.  The two are inductive together with the   *)
(* types of the slots; the one fact about data they rest on is that the    *)
(* next connection to be made is one that is not made yet.  From there on  *)
(* every step is judged: what has been made is right, by itself and beside *)
(* the rest, and a step that refuses has met what makes the whole wrong.   *)
(*                                                                         *)
(* EntityIds.  However many suites an assembly has and whatever bases and  *)
(* ids they are written with, every entity of an assembly that loads is in *)
(* the dictionary under its own id, and under no other.  A suite that      *)
(* chooses its base has no id yet, so the dictionary never loses an entity *)
(* by it; one whose base is given, or whose ids are, was entered before.   *)
(* And what is refused is refused for what is written: each id taken keeps *)
(* a suite of n entities from n bases at most, so that the lowest open one *)
(* is as low as the room that RoomForAll asks for.                         *)
(*                                                                         *)
(* TypeRanges.  Whoever told the range of a field, it is the field's own.  *)
(* What the cache keeps of a name is what a program reports that may share *)
(* the name, and all who may share it mean the same by it; a load that the *)
(* cache serves in part has told each field that it has done with.         *)
(*                                                                         *)
(* Enums.  However the literals of an enumeration give their numbers or    *)
(* leave them out, what is filled in keeps to its order and to what is     *)
(* free: the numbering, taken up to a literal, has every number below the  *)
(* next one in use.  That the sort by number then loses no literal is the  *)
(* counting of the places, of which there are as many as literals.         *)
(*                                                                         *)
(* CommandSequences.  However sequences call each other, the search of a   *)
(* suite ends, and it finds a cycle just when there are sequences each of  *)
(* which waits for another of them.  What it has done with waits for       *)
(* nothing that it has not, and what it is on waits for what comes next:   *)
(* both are kept from the visit of one sequence to that of the next.       *)
(*                                                                         *)
(* AssemblyLists.  The search that lists the types puts a type after what  *)
(* it is made of, once.  It ends because a type ranks above its parts, so  *)
(* that there is a search for every type that goes no deeper than its rank.*)
(***************************************************************************)
EXTENDS Wiring, EntityIds, TypeRanges, GeneratorFunctions, WellFoundedInduction, SequenceTheorems,
        FunctionTheorems, FiniteSetTheorems, TLAPS

-----------------------------------------------------------------------------
(* Wiring: the connections of an assembly.                                 *)

Typed ==
    /\ assembly \in Assemblies
    /\ attached \in [Slots -> [ignored : BOOLEAN, links : Seq(Links(assembly))]]
    /\ made \in [Links(assembly) -> {"no", "connected", "ignored"}]

Agreed == Typed /\ AttachmentsMatch

-----------------------------------------------------------------------------
(* Numbers and sequences.                                                   *)

\* A set of numbers has a least one.
LEMMA LeastExists ==
    ASSUME NEW T \in SUBSET Nat, T # {}
    PROVE  \E m \in T : \A n \in T : m <= n
<1> DEFINE Less == {p \in Nat \X Nat : p[1] < p[2]}
<1>1. OpToRel(<, Nat) = Less
  BY DEF OpToRel
<1>2. IsWellFoundedOn(Less, Nat)
  BY <1>1, NatLessThanWellFounded
<1>3. PICK m \in T : \A n \in T : ~(<<n, m>> \in Less)
  BY <1>2, WFMin
<1>4. ASSUME NEW n \in T PROVE m <= n
  <2>1. m \in Nat /\ n \in Nat
    OBVIOUS
  <2>2. ~(n < m)
    BY <1>3, <2>1
  <2> QED BY <2>1, <2>2
<1> QED BY <1>4

LEMMA AppendedRange ==
    ASSUME NEW S, NEW seq \in Seq(S), NEW elt \in S
    PROVE  Range(Append(seq, elt)) = Range(seq) \cup {elt}
<1> DEFINE longer == Append(seq, elt)
<1>1. /\ DOMAIN longer = 1 .. Len(seq) + 1
      /\ longer[Len(seq) + 1] = elt
      /\ \A i \in 1 .. Len(seq) : longer[i] = seq[i]
  OBVIOUS
<1>2. DOMAIN seq = 1 .. Len(seq) /\ Len(seq) \in Nat
  OBVIOUS
<1>3. Range(longer) \subseteq Range(seq) \cup {elt}
  BY <1>1, <1>2 DEF Range
<1>4. Range(seq) \cup {elt} \subseteq Range(longer)
  <2>1. \A i \in 1 .. Len(seq) : i \in 1 .. Len(seq) + 1 /\ seq[i] = longer[i]
    BY <1>1, <1>2
  <2>2. Len(seq) + 1 \in 1 .. Len(seq) + 1
    BY <1>2
  <2> QED BY <1>1, <1>2, <2>1, <2>2 DEF Range
<1> QED BY <1>3, <1>4

LEMMA AppendedInjective ==
    ASSUME NEW S, NEW seq \in Seq(S), NEW elt \in S, IsInjective(seq), elt \notin Range(seq)
    PROVE  IsInjective(Append(seq, elt))
BY DEF IsInjective, Range

-----------------------------------------------------------------------------

\* The connection whose turn it is has not been made.
LEMMA NextLinkIsOpen ==
    ASSUME Typed, NEW f, ~AllMade(f)
    PROVE  NextLink(f) \in Links(assembly) /\ made[NextLink(f)] = "no" /\ NextLink(f)[1] = f
<1> DEFINE Open == {l \in DOMAIN made : l[1] = f /\ made[l] = "no"}
           Places == {l[2] : l \in Open}
<1>1. DOMAIN made = Links(assembly)
  BY DEF Typed
<1>2. Links(assembly) \subseteq Nat \X Nat
  BY AssembliesAssumption DEF Typed
<1>3. Open # {}
  BY DEF AllMade
<1>4. Places \in SUBSET Nat /\ Places # {}
  BY <1>1, <1>2, <1>3
<1>5. PICK least \in Places : \A n \in Places : least <= n
  BY <1>4, LeastExists
<1>6. PICK l \in Open : l[2] = least
  OBVIOUS
<1>7. /\ l \in DOMAIN made
      /\ l[1] = f /\ made[l] = "no"
      /\ \A k \in DOMAIN made : k[1] = f /\ made[k] = "no" => l[2] <= k[2]
  BY <1>5, <1>6
<1>8. NextLink(f) \in DOMAIN made /\ made[NextLink(f)] = "no" /\ NextLink(f)[1] = f
  BY <1>7 DEF NextLink
<1> QED BY <1>1, <1>8

\* Nothing happens to an assembly that was refused.
LEMMA NotRefused ==
    ASSUME NEW f, NEW step \in {"components", "subassemblies", "connections", "count"}, At(f, step)
    PROVE  ~Refused
BY DEF At, Refused, Failed

\* A connection that is not made is in no slot.
LEMMA OpenIsNowhere ==
    ASSUME Agreed, ~Refused, NEW l \in Links(assembly), made[l] # "connected", NEW s \in Slots
    PROVE  l \notin Range(attached[s].links)
BY DEF Agreed, AttachmentsMatch, EndsAgree

\* A free slot holds nothing.
LEMMA FreeIsEmpty ==
    ASSUME Agreed, NEW s, Free(s)
    PROVE  s \in Slots /\ attached[s].links = <<>> /\ attached[s].ignored = FALSE
BY DEF Free, Unattached

\* What a slot holds after a connection was attached to it or to another.
LEMMA Attaching ==
    ASSUME NEW A, NEW slots \in [Slots -> [ignored : BOOLEAN, links : Seq(A)]],
           NEW s \in Slots, NEW l \in A
    PROVE  /\ Attach(slots, s, l) \in [Slots -> [ignored : BOOLEAN, links : Seq(A)]]
           /\ Attach(slots, s, l)[s].links = Append(slots[s].links, l)
           /\ Attach(slots, s, l)[s].ignored = slots[s].ignored
           /\ \A t \in Slots : t # s => Attach(slots, s, l)[t] = slots[t]
<1>1. slots[s] \in [ignored : BOOLEAN, links : Seq(A)]
  OBVIOUS
<1>2. Append(slots[s].links, l) \in Seq(A)
  BY <1>1
<1> QED BY <1>1, <1>2 DEF Attach

-----------------------------------------------------------------------------
(* Steps that attach nothing.                                               *)

\* A step that leaves the connections alone keeps what they say of the slots.
LEMMA LeftAlone ==
    ASSUME Agreed, ~Refused, UNCHANGED <<assembly, attached, made>>
    PROVE  Agreed'
<1>1. Typed'
  BY DEF Agreed, Typed, Slots, Links, Files, File, Ports
<1>2. EndsAgree /\ AttachedOnce
  BY DEF Agreed, AttachmentsMatch
<1>3. EndsAgree'
  BY <1>2 DEF EndsAgree, Slots, Links, Files, File, Ports, FromSlot, ToSlot, Link
<1>4. AttachedOnce'
  BY <1>2 DEF AttachedOnce, Slots, Ports
<1> QED BY <1>1, <1>3, <1>4 DEF Agreed, AttachmentsMatch

-----------------------------------------------------------------------------
(* connector.connect_to.                                                    *)

\* The two ends of a connection that is made are two slots.
LEMMA EndsDiffer ==
    ASSUME NEW a, NEW l, Compatible(Link(a, l).from.port, Link(a, l).to.port)
    PROVE  FromSlot(a, l) # ToSlot(a, l)
<1>1. Invoker \cap Invokee = {}
  BY DEF Invoker, Invokee
<1>2. Link(a, l).from.port # Link(a, l).to.port
  BY <1>1 DEF Compatible
<1> QED BY <1>2 DEF FromSlot, ToSlot, Slot

\* The invoker alone was attached, and the assembly is refused.
LEMMA HalfAttached ==
    ASSUME Agreed, ~Refused,
           NEW l \in Links(assembly), NEW s, Free(s),
           attached' = Attach(attached, s, l), doing' = Failed,
           UNCHANGED <<assembly, made>>
    PROVE  Agreed'
<1>1. s \in Slots /\ attached[s].links = <<>> /\ attached[s].ignored = FALSE
  BY FreeIsEmpty
<1>2. attached \in [Slots -> [ignored : BOOLEAN, links : Seq(Links(assembly))]]
  BY DEF Agreed, Typed
<1>3. /\ attached' \in [Slots -> [ignored : BOOLEAN, links : Seq(Links(assembly))]]
      /\ attached'[s].links = Append(attached[s].links, l)
      /\ attached'[s].ignored = attached[s].ignored
      /\ \A t \in Slots : t # s => attached'[t] = attached[t]
  <2> DEFINE A == Links(assembly)
             new == Attach(attached, s, l)
  <2> HIDE DEF A
  <2>1. attached \in [Slots -> [ignored : BOOLEAN, links : Seq(A)]] /\ l \in A
    BY <1>2 DEF A
  <2>2. /\ new \in [Slots -> [ignored : BOOLEAN, links : Seq(A)]]
        /\ new[s].links = Append(attached[s].links, l)
        /\ new[s].ignored = attached[s].ignored
        /\ \A t \in Slots : t # s => new[t] = attached[t]
    BY <1>1, <2>1, Attaching
  <2> QED BY <2>2 DEF A
<1>4. AttachedOnce
  BY DEF Agreed, AttachmentsMatch
<1>5. ASSUME NEW t \in Slots
      PROVE  /\ Connectors[t[1]].kind \in Invoker => Len(attached'[t].links) <= 1
             /\ IsInjective(attached'[t].links)
             /\ attached'[t].ignored => attached'[t].links = <<>>
  <2>1. CASE t = s
    <3>1. attached'[t].links = <<l>>
      BY <1>1, <1>3, <2>1
    <3>2. Len(<<l>>) = 1 /\ IsInjective(<<l>>)
      BY DEF IsInjective
    <3>3. attached'[t].ignored = FALSE
      BY <1>1, <1>3, <2>1
    <3> QED BY <3>1, <3>2, <3>3
  <2>2. CASE t # s
    BY <1>3, <1>4, <2>2 DEF AttachedOnce
  <2> QED BY <2>1, <2>2
<1>6. Slots' = Slots /\ Links(assembly)' = Links(assembly)
  BY DEF Slots, Ports, Links, Files, File
<1>7. AttachedOnce'
  BY <1>5, <1>6 DEF AttachedOnce
<1>8. Typed'
  BY <1>3, <1>6 DEF Agreed, Typed
<1> QED BY <1>7, <1>8 DEF Agreed, AttachmentsMatch, Refused

\* Both ends are attached.
LEMMA BothAttached ==
    ASSUME Agreed, ~Refused,
           NEW l \in Links(assembly), made[l] = "no",
           NEW s, s = FromSlot(assembly, l), Free(s),
           NEW r, r = ToSlot(assembly, l), TakesMore(r),
           Compatible(Link(assembly, l).from.port, Link(assembly, l).to.port),
           attached' = Attach(Attach(attached, s, l), r, l),
           made' = [made EXCEPT ![l] = "connected"],
           UNCHANGED <<assembly, doing>>
    PROVE  Agreed'
<1> DEFINE A == Links(assembly)
           half == Attach(attached, s, l)
           Holders == [Slots -> [ignored : BOOLEAN, links : Seq(A)]]
<1>1. s \in Slots /\ attached[s].links = <<>> /\ attached[s].ignored = FALSE
  BY FreeIsEmpty
<1>2. r \in Slots /\ ~attached[r].ignored /\ s # r
  BY EndsDiffer DEF TakesMore
<1>3. attached \in Holders /\ l \in A
  BY DEF Agreed, Typed
<1>4. AttachedOnce /\ EndsAgree
  BY DEF Agreed, AttachmentsMatch
<1> HIDE DEF A
<1>5. /\ half \in Holders
      /\ half[s].links = Append(attached[s].links, l)
      /\ half[s].ignored = attached[s].ignored
      /\ \A t \in Slots : t # s => half[t] = attached[t]
  BY ONLY <1>1, <1>3, Attaching
<1> HIDE DEF half
<1>6. /\ attached' \in Holders
      /\ attached'[r].links = Append(half[r].links, l)
      /\ attached'[r].ignored = half[r].ignored
      /\ \A t \in Slots : t # r => attached'[t] = half[t]
  <2> DEFINE both == Attach(half, r, l)
  <2>1. r \in Slots /\ l \in A /\ half \in Holders
    BY <1>2, <1>3, <1>5
  <2>2. /\ both \in Holders
        /\ both[r].links = Append(half[r].links, l)
        /\ both[r].ignored = half[r].ignored
        /\ \A t \in Slots : t # r => both[t] = half[t]
    BY ONLY <2>1, Attaching
  <2>3. attached' = both
    BY DEF half
  <2> HIDE DEF both, Holders
  <2> QED BY <2>2, <2>3
<1>7. /\ attached'[s].links = Append(attached[s].links, l)
      /\ attached'[s].ignored = FALSE
      /\ attached'[r].links = Append(attached[r].links, l)
      /\ attached'[r].ignored = attached[r].ignored
      /\ \A t \in Slots : t \notin {s, r} => attached'[t] = attached[t]
  BY <1>1, <1>2, <1>5, <1>6
<1>8. \A t \in Slots : attached[t].links \in Seq(A) /\ l \notin Range(attached[t].links)
  BY <1>3, OpenIsNowhere DEF A
<1>9. \A t \in Slots : t \in {s, r} => Range(attached'[t].links) = Range(attached[t].links) \cup {l}
  <2>1. ASSUME NEW t \in Slots
        PROVE  Range(Append(attached[t].links, l)) = Range(attached[t].links) \cup {l}
    BY ONLY <1>3, <1>8, AppendedRange
  <2> QED BY <1>7, <2>1
<1>10. Slots' = Slots /\ A' = A
  BY DEF A, Slots, Ports, Links, Files, File
<1>11. Typed'
  <2>1. assembly' \in Assemblies
    BY DEF Agreed, Typed
  <2>2. made' \in [Links(assembly) -> {"no", "connected", "ignored"}]
    BY DEF Agreed, Typed
  <2>3. attached' \in [Slots -> [ignored : BOOLEAN, links : Seq(Links(assembly))]]
    BY <1>6 DEF A
  <2> QED BY <1>10, <2>1, <2>2, <2>3 DEF Typed, A
<1>12. ASSUME NEW t \in Slots
       PROVE  /\ Connectors[t[1]].kind \in Invoker => Len(attached'[t].links) <= 1
              /\ IsInjective(attached'[t].links)
              /\ attached'[t].ignored => attached'[t].links = <<>>
  <2>1. CASE t = s
    <3>1. attached'[t].links = <<l>>
      BY <1>1, <1>7, <2>1
    <3>2. Len(<<l>>) = 1 /\ IsInjective(<<l>>)
      BY DEF IsInjective
    <3>3. attached'[t].ignored = FALSE
      BY <1>7, <2>1
    <3> QED BY <3>1, <3>2, <3>3
  <2>2. CASE t = r
    <3>1. Connectors[t[1]].kind \notin Invoker
      BY <2>2 DEF Compatible, ToSlot, Slot, Invoker, Invokee
    <3>2. IsInjective(attached[t].links)
      BY <1>4 DEF AttachedOnce
    <3>3. IsInjective(Append(attached[t].links, l))
      BY <1>3, <1>8, <3>2, AppendedInjective
    <3>4. ~attached'[t].ignored /\ attached'[t].links = Append(attached[t].links, l)
      BY <1>2, <1>7, <2>2
    <3> QED BY <3>1, <3>3, <3>4
  <2>3. CASE t \notin {s, r}
    BY <1>4, <1>7, <2>3 DEF AttachedOnce
  <2> QED BY <2>1, <2>2, <2>3
<1>13. AttachedOnce'
  BY <1>10, <1>12 DEF AttachedOnce
<1>14. ASSUME NEW t \in Slots, NEW k \in A
       PROVE  k \in Range(attached'[t].links)
              <=> made'[k] = "connected" /\ t \in {FromSlot(assembly, k), ToSlot(assembly, k)}
  <2>1. k \in Range(attached[t].links)
        <=> made[k] = "connected" /\ t \in {FromSlot(assembly, k), ToSlot(assembly, k)}
    BY <1>4 DEF EndsAgree, A
  <2>2. DOMAIN made = A
    BY DEF Agreed, Typed, A
  <2>3. CASE k = l
    <3>1. made'[k] = "connected"
      BY <1>3, <2>2, <2>3
    <3>2. k \in Range(attached'[t].links) <=> t \in {s, r}
      BY <1>7, <1>8, <1>9, <2>3
    <3> QED BY <2>3, <3>1, <3>2
  <2>4. CASE k # l
    <3>1. made'[k] = made[k]
      BY <1>3, <2>2, <2>4
    <3>2. k \in Range(attached'[t].links) <=> k \in Range(attached[t].links)
      BY <1>7, <1>9, <2>4
    <3> QED BY <2>1, <3>1, <3>2
  <2> QED BY <2>3, <2>4
<1>15. EndsAgree'
  BY <1>10, <1>14 DEF EndsAgree, A, FromSlot, ToSlot, Link, File
<1> QED BY <1>11, <1>13, <1>15 DEF Agreed, AttachmentsMatch

\* One end is ignored, and its slot held nothing.
LEMMA OneIgnored ==
    ASSUME Agreed, ~Refused,
           NEW l \in Links(assembly), made[l] = "no",
           NEW s, Free(s),
           attached' = [attached EXCEPT ![s].ignored = TRUE],
           made' = [made EXCEPT ![l] = "ignored"],
           UNCHANGED <<assembly, doing>>
    PROVE  Agreed'
<1> DEFINE A == Links(assembly)
<1>1. s \in Slots /\ attached[s].links = <<>> /\ attached[s].ignored = FALSE
  BY FreeIsEmpty
<1>2. /\ attached \in [Slots -> [ignored : BOOLEAN, links : Seq(A)]]
      /\ made \in [A -> {"no", "connected", "ignored"}] /\ l \in A
  BY DEF Agreed, Typed
<1>3. AttachedOnce /\ EndsAgree
  BY DEF Agreed, AttachmentsMatch
<1>4. Slots' = Slots /\ A' = A
  BY DEF Slots, Ports, Links, Files, File
<1> HIDE DEF A
<1>5. attached' \in [Slots -> [ignored : BOOLEAN, links : Seq(A)]]
  BY <1>1, <1>2
<1>6. \A t \in Slots : attached'[t].links = attached[t].links
  BY <1>1, <1>2
<1>7. \A t \in Slots : t # s => attached'[t] = attached[t]
  BY <1>1, <1>2
<1>8. Typed'
  BY <1>2, <1>4, <1>5 DEF Agreed, Typed, A
<1>9. AttachedOnce'
  BY <1>1, <1>3, <1>4, <1>6, <1>7 DEF AttachedOnce
<1>10. \A t \in Slots : l \notin Range(attached[t].links)
  BY <1>2, OpenIsNowhere DEF A
<1>11. ASSUME NEW t \in Slots, NEW k \in A
       PROVE  k \in Range(attached'[t].links)
              <=> made'[k] = "connected" /\ t \in {FromSlot(assembly, k), ToSlot(assembly, k)}
  <2>1. k \in Range(attached[t].links)
        <=> made[k] = "connected" /\ t \in {FromSlot(assembly, k), ToSlot(assembly, k)}
    BY <1>3 DEF EndsAgree, A
  <2>2. k = l => made'[k] = "ignored"
    BY <1>2
  <2>3. k # l => made'[k] = made[k]
    BY <1>2
  <2> QED BY <1>6, <1>10, <2>1, <2>2, <2>3
<1>12. EndsAgree'
  BY <1>4, <1>11 DEF EndsAgree, A, FromSlot, ToSlot, Link, File
<1> QED BY <1>8, <1>9, <1>12 DEF Agreed, AttachmentsMatch

-----------------------------------------------------------------------------

\* A connection is attached at both ends, at one, or at none.
LEMMA ConnectAgrees ==
    ASSUME Agreed, NEW f, Connect(f)
    PROVE  Agreed'
<1> DEFINE l == NextLink(f)
           link == Link(assembly, l)
           end == IF Ignored(link.from) THEN link.to ELSE link.from
<1>1. ~Refused
  BY NotRefused DEF Connect
<1>2. l \in Links(assembly) /\ made[l] = "no"
  BY NextLinkIsOpen DEF Connect, Agreed
<1>3. UNCHANGED assembly
  BY DEF Connect
<1>4. \/ ConnectTo(l, link)
      \/ IgnoreOther(l, link)
      \/ Fail /\ UNCHANGED <<attached, made>>
  BY DEF Connect
<1> HIDE DEF l
<1>5. CASE UNCHANGED <<attached, made>>
  BY <1>1, <1>3, <1>5, LeftAlone
<1>6. CASE ConnectTo(l, link)
  <2>1. CASE UNCHANGED <<attached, made>>
    BY <1>5, <2>1
  <2>2. CASE /\ Compatible(link.from.port, link.to.port) /\ Free(FromSlot(assembly, l))
             /\ TakesMore(ToSlot(assembly, l))
             /\ attached' = Attach(Attach(attached, FromSlot(assembly, l), l), ToSlot(assembly, l), l)
             /\ made' = [made EXCEPT ![l] = "connected"]
             /\ UNCHANGED doing
    BY <1>1, <1>2, <1>3, <2>2, BothAttached
  <2>3. CASE /\ Free(FromSlot(assembly, l))
             /\ attached' = Attach(attached, FromSlot(assembly, l), l)
             /\ Fail
             /\ UNCHANGED made
    BY <1>1, <1>2, <1>3, <2>3, HalfAttached DEF Fail
  <2> QED BY <1>6, <2>1, <2>2, <2>3 DEF ConnectTo, TakesOne, FromSlot, ToSlot
<1>7. CASE IgnoreOther(l, link)
  <2>1. CASE UNCHANGED <<attached, made>>
    BY <1>5, <2>1
  <2>2. CASE /\ Free(Slot(end))
             /\ attached' = [attached EXCEPT ![Slot(end)].ignored = TRUE]
             /\ made' = [made EXCEPT ![l] = "ignored"]
             /\ UNCHANGED doing
    BY <1>1, <1>2, <1>3, <2>2, OneIgnored
  <2> QED BY <1>7, <2>1, <2>2 DEF IgnoreOther
<1> QED BY <1>4, <1>5, <1>6, <1>7

\* Every slot is empty and no connection is made when the loading begins.
LEMMA InitAgrees == WiringInit => Agreed
<1> SUFFICES ASSUME WiringInit PROVE Agreed
  OBVIOUS
<1>1. Typed
  BY DEF WiringInit, Typed, Unattached
<1>2. \A s \in Slots : attached[s].links = <<>> /\ attached[s].ignored = FALSE
  BY DEF WiringInit, Unattached
<1>3. AttachedOnce
  BY <1>2 DEF AttachedOnce, IsInjective
<1>4. \A s \in Slots : Range(attached[s].links) = {}
  BY <1>2 DEF Range
<1>5. EndsAgree
  BY <1>4 DEF EndsAgree, WiringInit
<1> QED BY <1>1, <1>3, <1>5 DEF Agreed, AttachmentsMatch

LEMMA StepAgrees == Agreed /\ [WiringNext]_wiring => Agreed'
<1> SUFFICES ASSUME Agreed, [WiringNext]_wiring PROVE Agreed'
  OBVIOUS
<1>1. CASE Merge
  BY <1>1, NotRefused, LeftAlone DEF Merge
<1>2. CASE Count
  BY <1>2, NotRefused, LeftAlone DEF Count
<1>3. ASSUME NEW f \in Files(assembly), LoadComponents(f) PROVE Agreed'
  BY <1>3, NotRefused, LeftAlone DEF LoadComponents
<1>4. ASSUME NEW f \in Files(assembly), Connect(f) PROVE Agreed'
  BY <1>4, ConnectAgrees
<1>5. ASSUME NEW f \in Files(assembly), ConnectionsMade(f) PROVE Agreed'
  BY <1>5, NotRefused, LeftAlone DEF ConnectionsMade
<1>6. CASE UNCHANGED wiring
  <2>1. UNCHANGED <<assembly, attached, made, doing>>
    BY <1>6 DEF wiring
  <2>2. Typed' = Typed
    <3>1. /\ Slots' = Slots
          /\ Links(assembly)' = Links(assembly)
      BY <2>1 DEF Slots, Ports, Links, Files, File
    <3> QED BY <2>1, <3>1 DEF Typed
  <2>3. AttachedOnce' = AttachedOnce
    BY <2>1 DEF AttachedOnce, Slots, Ports
  <2>4. EndsAgree' = EndsAgree
    BY <2>1 DEF EndsAgree, Slots, Links, Files, File, Ports, FromSlot, ToSlot, Link
  <2>5. Refused' = Refused
    BY <2>1 DEF Refused, Failed
  <2> QED BY ONLY Agreed, <2>2, <2>3, <2>4, <2>5 DEF Agreed, AttachmentsMatch
<1> QED BY <1>1, <1>2, <1>3, <1>4, <1>5, <1>6 DEF WiringNext

\* What the connectors hold and what the connections say agree until one is
\* refused, and not even a refused one attaches an invoker twice
\* (connection.connect, connector.connect_to), for any files.
THEOREM AttachmentsAlwaysMatch == WiringSpec => []AttachmentsMatch
<1>1. Agreed => AttachmentsMatch
  BY DEF Agreed
<1> QED BY <1>1, InitAgrees, StepAgrees, PTL DEF WiringSpec

-----------------------------------------------------------------------------
(* Wiring: what is loaded is right, and what is refused is not.            *)

\* What has been done when step d comes next: the components of file f are
\* taken, those of all files are together, the connections of file f are made.
Late == {"subassemblies", "connections", "count", "done"}
TakenIn(d, f) == IF d[1] = 0 THEN d[2] \in Late ELSE f < d[1] \/ d = <<f, "connections">>
MergedIn(d) == d[1] = 0 /\ d[2] \in {"connections", "count", "done"}
MadeIn(d, f) ==
    IF d[1] = 0 THEN d[2] \in Late /\ (f # 0 \/ d[2] \in {"count", "done"}) ELSE f \in 1 .. d[1] - 1

\* Every file has the components that it names, and the assembly has all.
MembersAre(a, d, m) ==
    m = [f \in Files(a) |-> IF f = 0 /\ MergedIn(d) THEN Visible(a, 0)
                            ELSE IF TakenIn(d, f) THEN Range(File(a, f).components) ELSE {}]

NamesAre(a, d) ==
    /\ \A f \in Files(a) : TakenIn(d, f) => IsInjective(File(a, f).components)
    /\ MergedIn(d) => FilesAreApart(a)

\* What is made is right, by itself and beside the others that are made.
LinksAre(a, d, done) ==
    \A l \in Links(a) :
        /\ MadeIn(d, l[1]) => done[l] # "no"
        /\ done[l] # "no" => LinkIsRight(a, l) /\ (done[l] = "connected" <=> Connects(a, l))

SharedAre(a, done) ==
    \A k, l \in Links(a), s \in Slots : done[k] # "no" /\ done[l] # "no" => MayShare(a, k, l, s)

\* A slot is ignored for a connection that says so.
IgnoredAre(a, done, slots) ==
    \A s \in Slots : slots[s].ignored <=> \E l \in Links(a) : done[l] = "ignored" /\ Uses(a, l, s)

HaveCounts(a) == \A p \in Ports : p[1] \in Visible(a, 0) => Connectors[p].count # 0

Sound ==
    /\ MembersAre(assembly, doing, members)
    /\ NamesAre(assembly, doing)
    /\ LinksAre(assembly, doing, made)
    /\ SharedAre(assembly, made)
    /\ IgnoredAre(assembly, made, attached)
    /\ Loaded => HaveCounts(assembly) /\ CountsWhatIsLeft

Judged == Agreed /\ IF Refused THEN ~IsRight(assembly) ELSE Sound

-----------------------------------------------------------------------------
(* Which step follows which.                                               *)

LEMMA StepsBefore ==
    ASSUME NEW a \in Assemblies, NEW f \in Files(a), NEW g \in Files(a)
    PROVE  /\ f \in Nat /\ g \in Nat
           /\ f # 0 => /\ TakenIn(<<f, "components">>, g) <=> g < f
                       /\ TakenIn(<<f, "connections">>, g) <=> g <= f
                       /\ MadeIn(<<f, "components">>, g) <=> g \in 1 .. f - 1
                       /\ MadeIn(<<f, "connections">>, g) <=> g \in 1 .. f - 1
                       /\ ~MergedIn(<<f, "components">>) /\ ~MergedIn(<<f, "connections">>)
BY AssembliesAssumption DEF Files, TakenIn, MadeIn, MergedIn

LEMMA StepsOfAll ==
    ASSUME NEW f
    PROVE  /\ ~TakenIn(<<0, "components">>, f)
           /\ \A step \in Late : TakenIn(<<0, step>>, f)
           /\ ~MadeIn(<<0, "components">>, f)
           /\ MadeIn(<<0, "subassemblies">>, f) <=> f # 0
           /\ MadeIn(<<0, "connections">>, f) <=> f # 0
           /\ MadeIn(<<0, "count">>, f) /\ MadeIn(<<0, "done">>, f)
           /\ ~MergedIn(<<0, "components">>) /\ ~MergedIn(<<0, "subassemblies">>)
           /\ MergedIn(<<0, "connections">>) /\ MergedIn(<<0, "count">>) /\ MergedIn(<<0, "done">>)
BY DEF TakenIn, MadeIn, MergedIn, Late

LEMMA StepsAfter ==
    ASSUME NEW f \in Files(assembly), NEW g \in Files(assembly), assembly \in Assemblies
    PROVE  /\ TakenIn(NextFile(f), g) <=> g <= f
           /\ MadeIn(NextFile(f), g) <=> g \in 1 .. f
           /\ ~MergedIn(NextFile(f))
           /\ NextFile(f) # Failed /\ NextFile(f) # <<0, "done">>
<1>1. Len(assembly.subassemblies) \in Nat /\ f \in Nat /\ g \in Nat
  BY AssembliesAssumption DEF Files
<1>2. CASE f < Len(assembly.subassemblies)
  <2>1. NextFile(f) = <<f + 1, "components">> /\ f + 1 \in Files(assembly) /\ f + 1 # 0
    BY <1>1, <1>2 DEF NextFile, Files
  <2>2. /\ TakenIn(NextFile(f), g) <=> g < f + 1
        /\ MadeIn(NextFile(f), g) <=> g \in 1 .. (f + 1) - 1
        /\ ~MergedIn(NextFile(f))
    BY ONLY <2>1, StepsBefore, assembly \in Assemblies, g \in Files(assembly)
  <2>3. <<f + 1, "components">> # <<0, "failed">> /\ <<f + 1, "components">> # <<0, "done">>
    OBVIOUS
  <2> QED BY <1>1, <2>1, <2>2, <2>3 DEF Failed
<1>3. CASE ~(f < Len(assembly.subassemblies))
  <2>1. NextFile(f) = <<0, "subassemblies">> /\ g <= f
    BY <1>1, <1>3 DEF NextFile, Files
  <2>2. <<0, "subassemblies">> # <<0, "failed">> /\ <<0, "subassemblies">> # <<0, "done">>
    OBVIOUS
  <2>3. TakenIn(NextFile(f), g) /\ ~MergedIn(NextFile(f)) /\ (MadeIn(NextFile(f), g) <=> g # 0)
    BY <2>1, StepsOfAll DEF Late
  <2> QED BY <1>1, <2>1, <2>2, <2>3 DEF Failed
<1> QED BY <1>2, <1>3

LEMMA LinkIsOfFile ==
    ASSUME NEW a, NEW l \in Links(a)
    PROVE  l[1] \in Files(a)
BY DEF Links

\* What a file can name is what it has itself, but for the assembly.
LEMMA VisibleOwn ==
    ASSUME NEW a, NEW f \in Files(a), f # 0
    PROVE  Visible(a, f) = Range(File(a, f).components)
BY DEF Visible

-----------------------------------------------------------------------------
(* Names.                                                                  *)

\* The components of a file are taken, and the step that follows is told.
LEMMA LoadedNamesAre ==
    ASSUME Judged, NEW f \in Files(assembly), LoadComponents(f)
    PROVE  Judged'
<1> DEFINE a == assembly
           next == IF f = 0 THEN NextFile(f) ELSE <<f, "connections">>
<1>1. At(f, "components") /\ ~Refused
  BY NotRefused DEF LoadComponents
<1>2. /\ UNCHANGED <<assembly, attached, made, unattached>> /\ a \in Assemblies
      /\ members' = [members EXCEPT ![f] = Range(File(a, f).components)]
  BY DEF LoadComponents, Judged, Agreed, Typed
<1>3. Agreed'
  BY <1>1, <1>2, LeftAlone DEF Judged
<1>4. Sound
  BY <1>1 DEF Judged
<1>5. CASE ~IsInjective(File(a, f).components)
  <2>1. doing' = Failed /\ ~IsRight(a)
    BY <1>5 DEF LoadComponents, Fail, IsRight
  <2>2. Refused' /\ ~IsRight(assembly)'
    BY <1>2, <2>1 DEF Refused, Failed
  <2> QED BY <1>3, <2>2 DEF Judged
<1>6. CASE IsInjective(File(a, f).components)
  <2>1. doing' = next
    BY <1>6 DEF LoadComponents
  <2>2. \A g \in Files(a) :
            /\ TakenIn(next, g) <=> g = f \/ TakenIn(doing, g)
            /\ MadeIn(next, g) => MadeIn(doing, g)
            /\ ~MergedIn(next) /\ ~MergedIn(doing)
    <3> SUFFICES ASSUME NEW g \in Files(a)
                 PROVE  /\ TakenIn(next, g) <=> g = f \/ TakenIn(doing, g)
                        /\ MadeIn(next, g) => MadeIn(doing, g)
                        /\ ~MergedIn(next) /\ ~MergedIn(doing)
      OBVIOUS
    <3>1. f \in Nat /\ g \in Nat /\ doing = <<f, "components">>
      BY <1>1, <1>2, StepsBefore DEF At
    <3>2. CASE f = 0
      <4>1. TakenIn(next, g) <=> g = 0
        BY <1>2, <3>1, <3>2, StepsAfter
      <4>2. ~MadeIn(next, g) /\ ~MergedIn(next)
        BY <1>2, <3>1, <3>2, StepsAfter
      <4>3. ~TakenIn(doing, g) /\ ~MergedIn(doing)
        BY <3>1, <3>2, StepsOfAll
      <4> QED BY <3>2, <4>1, <4>2, <4>3
    <3>3. CASE f # 0
      <4>1. next = <<f, "connections">>
        BY <3>3
      <4> QED BY <1>2, <3>1, <3>3, <4>1, StepsBefore
    <3> QED BY <3>2, <3>3
  <2>3. next # Failed /\ next # <<0, "done">>
    <3>1. CASE f = 0
      BY <1>2, <3>1, StepsAfter
    <3>2. CASE f # 0
      <4>1. <<f, "connections">> # <<0, "failed">> /\ <<f, "connections">> # <<0, "done">>
        OBVIOUS
      <4> QED BY <3>2, <4>1 DEF Failed
    <3> QED BY <3>1, <3>2
  <2> HIDE DEF next
  <2>4. MembersAre(a, next, members')
    BY <1>2, <1>4, <2>2 DEF Sound, MembersAre
  <2>5. NamesAre(a, next)
    BY <1>4, <1>6, <2>2 DEF Sound, NamesAre
  <2>6. LinksAre(a, next, made)
    BY <1>4, <2>2, LinkIsOfFile DEF Sound, LinksAre
  <2>7. Sound'
    BY <1>2, <1>4, <2>1, <2>3, <2>4, <2>5, <2>6 DEF Sound, Loaded, At
  <2>8. ~Refused'
    BY <2>1, <2>3 DEF Refused, Failed
  <2> QED BY <1>3, <2>7, <2>8 DEF Judged
<1> QED BY <1>5, <1>6

\* The components of all files are together, if no two of them clash.
LEMMA MergedNamesAre ==
    ASSUME Judged, Merge
    PROVE  Judged'
<1> DEFINE a == assembly
           names == [f \in 1 .. Len(a.subassemblies) |-> a.subassemblies[f].name]
           Apart(x) == \A f, g \in Files(a) : f # g => x[f] \cap x[g] = {}
           next == <<0, "connections">>
<1>1. At(0, "subassemblies") /\ ~Refused
  BY NotRefused DEF Merge
<1>2. /\ UNCHANGED <<assembly, attached, made, unattached>> /\ a \in Assemblies
      /\ members' = [members EXCEPT ![0] = UNION {members[f] : f \in Files(a)}]
      /\ doing' = IF IsInjective(names) /\ Apart(members) THEN next ELSE Failed
  BY DEF Merge, Judged, Agreed, Typed, Fail
<1>3. Agreed'
  BY <1>1, <1>2, LeftAlone DEF Judged
<1>4. Sound
  BY <1>1 DEF Judged
<1>5. Len(a.subassemblies) \in Nat /\ Files(a) = 0 .. Len(a.subassemblies) /\ 0 \in Files(a)
  BY <1>2, AssembliesAssumption DEF Files
<1>6. \A f : TakenIn(doing, f) /\ TakenIn(next, f)
  BY <1>1, StepsOfAll DEF At, Late
<1>7. /\ ~MergedIn(doing) /\ MergedIn(next)
      /\ \A f : MadeIn(next, f) <=> MadeIn(doing, f)
  BY <1>1, StepsOfAll DEF At
<1>8. members = [f \in Files(a) |-> Range(File(a, f).components)]
  BY <1>4, <1>6, <1>7 DEF Sound, MembersAre
<1>9. IsInjective(names) <=> \A f, g \in Files(a) \ {0} : File(a, f).name = File(a, g).name => f = g
  <2>1. 1 .. Len(a.subassemblies) = Files(a) \ {0}
    BY <1>5
  <2>2. \A f \in Files(a) \ {0} : names[f] = File(a, f).name
    BY <2>1 DEF File
  <2>3. DOMAIN names = Files(a) \ {0}
    BY <2>1
  <2> HIDE DEF names
  <2> QED BY <2>2, <2>3 DEF IsInjective
<1>10. Apart(members) /\ IsInjective(names) <=> FilesAreApart(a)
  BY <1>8, <1>9 DEF FilesAreApart
<1> HIDE DEF names, Apart
<1>11. CASE ~FilesAreApart(a)
  <2>1. doing' = Failed /\ ~IsRight(a)
    BY <1>2, <1>10, <1>11 DEF IsRight
  <2>2. Refused' /\ ~IsRight(assembly)'
    BY <1>2, <2>1 DEF Refused, Failed
  <2> QED BY <1>3, <2>2 DEF Judged
<1>12. CASE FilesAreApart(a)
  <2>1. doing' = next
    BY <1>2, <1>10, <1>12
  <2>2. next # Failed /\ next # <<0, "done">>
    BY DEF Failed
  <2> HIDE DEF next
  <2>3. UNION {members[f] : f \in Files(a)} = Visible(a, 0)
    BY <1>8 DEF Visible
  <2>4. MembersAre(a, next, members')
    BY <1>2, <1>5, <1>6, <1>7, <1>8, <2>3 DEF MembersAre
  <2>5. NamesAre(a, next)
    BY <1>4, <1>6, <1>12 DEF Sound, NamesAre
  <2>6. LinksAre(a, next, made)
    BY <1>4, <1>7 DEF Sound, LinksAre
  <2>7. Sound'
    BY <1>2, <1>4, <2>1, <2>2, <2>4, <2>5, <2>6 DEF Sound, Loaded, At
  <2>8. ~Refused'
    BY <2>1, <2>2 DEF Refused, Failed
  <2> QED BY <1>3, <2>7, <2>8 DEF Judged
<1> QED BY <1>11, <1>12

-----------------------------------------------------------------------------
(* Connections.                                                            *)

\* What a slot holds tells who uses it.
LEMMA FreeIsUnused ==
    ASSUME Agreed, ~Refused, Sound, NEW s \in Slots, attached[s].links = <<>>,
           NEW k \in Links(assembly), made[k] # "no", Uses(assembly, k, s)
    PROVE  attached[s].ignored /\ ~Connects(assembly, k)
<1>1. made[k] \in {"connected", "ignored"}
  BY DEF Agreed, Typed
<1>2. made[k] = "connected" <=> Connects(assembly, k)
  BY DEF Sound, LinksAre
<1>3. CASE made[k] = "connected"
  <2>1. s \in {FromSlot(assembly, k), ToSlot(assembly, k)}
    BY DEF Uses
  <2>2. k \in Range(attached[s].links)
    BY <1>3, <2>1 DEF Agreed, AttachmentsMatch, EndsAgree
  <2>3. Range(<<>>) = {}
    BY DEF Range
  <2> QED BY <2>2, <2>3
<1>4. CASE made[k] = "ignored"
  BY <1>2, <1>4 DEF Sound, IgnoredAre
<1> QED BY <1>1, <1>3, <1>4

LEMMA IgnoredIsUsed ==
    ASSUME Sound, NEW s \in Slots, attached[s].ignored
    PROVE  \E k \in Links(assembly) : made[k] = "ignored" /\ Uses(assembly, k, s) /\ ~Connects(assembly, k)
<1>1. PICK k \in Links(assembly) : made[k] = "ignored" /\ Uses(assembly, k, s)
  BY DEF Sound, IgnoredAre
<1>2. made[k] = "connected" <=> Connects(assembly, k)
  BY <1>1 DEF Sound, LinksAre
<1> QED BY <1>1, <1>2

LEMMA LinkedIsUsed ==
    ASSUME Agreed, ~Refused, Sound, NEW s \in Slots, attached[s].links # <<>>
    PROVE  \E k \in Links(assembly) : made[k] = "connected" /\ Uses(assembly, k, s) /\ Connects(assembly, k)
<1> DEFINE seq == attached[s].links
<1>1. seq \in Seq(Links(assembly)) /\ seq # <<>>
  BY DEF Agreed, Typed
<1>2. 1 \in DOMAIN seq /\ seq[1] \in Links(assembly)
  BY <1>1
<1>3. seq[1] \in Range(seq)
  BY <1>2 DEF Range
<1>4. made[seq[1]] = "connected" /\ s \in {FromSlot(assembly, seq[1]), ToSlot(assembly, seq[1])}
  BY <1>2, <1>3 DEF Agreed, AttachmentsMatch, EndsAgree
<1>5. Connects(assembly, seq[1])
  BY <1>2, <1>4 DEF Sound, LinksAre
<1>6. Uses(assembly, seq[1], s)
  BY <1>4, <1>5 DEF Uses, Connects
<1> QED BY <1>2, <1>4, <1>5, <1>6

\* What a slot holds is nothing, or it is used.
LEMMA UnfreeIsHeld ==
    ASSUME Agreed, NEW s \in Slots, attached[s] # Unattached
    PROVE  attached[s].ignored \/ attached[s].links # <<>>
<1>1. attached[s] \in [ignored : BOOLEAN, links : Seq(Links(assembly))]
  BY DEF Agreed, Typed
<1> QED BY <1>1 DEF Unattached

\* A file has the components that its connections may name.
LEMMA KnownIsVisible ==
    ASSUME Judged, ~Refused, NEW f \in Files(assembly), At(f, "connections")
    PROVE  members[f] = Visible(assembly, f)
<1>1. Sound /\ assembly \in Assemblies
  BY DEF Judged, Agreed, Typed
<1>2. CASE f = 0
  <2>1. MergedIn(doing)
    BY <1>2, StepsOfAll DEF At
  <2> QED BY <1>1, <1>2, <2>1 DEF Sound, MembersAre
<1>3. CASE f # 0
  <2>1. f \in Nat /\ (TakenIn(<<f, "connections">>, f) <=> f <= f)
    BY <1>1, <1>3, StepsBefore
  <2>2. TakenIn(doing, f)
    BY <2>1 DEF At
  <2> QED BY <1>1, <1>3, <2>2, VisibleOwn DEF Sound, MembersAre
<1> QED BY <1>2, <1>3

LEMMA RightResolves ==
    ASSUME Judged, ~Refused, NEW f \in Files(assembly), At(f, "connections"), NEW end,
           EndIsRight(assembly, f, end)
    PROVE  Resolves(f, end)
BY KnownIsVisible DEF EndIsRight, Resolves, HasIndex

LEMMA ResolvedIsRight ==
    ASSUME Judged, ~Refused, NEW f \in Files(assembly), At(f, "connections"), NEW end,
           Resolves(f, end), ~Ignored(end) => Slot(end) \in Slots
    PROVE  EndIsRight(assembly, f, end)
BY KnownIsVisible DEF EndIsRight, Resolves, HasIndex

\* Another connection that is right takes its place beside those that are made.
LEMMA OneMore ==
    ASSUME NEW a, NEW d, NEW done \in [Links(a) -> {"no", "connected", "ignored"}],
           LinksAre(a, d, done), SharedAre(a, done),
           NEW l \in Links(a), LinkIsRight(a, l),
           NEW how \in {"connected", "ignored"}, how = "connected" <=> Connects(a, l),
           \A k \in Links(a), s \in Slots : done[k] # "no" => MayShare(a, k, l, s)
    PROVE  /\ LinksAre(a, d, [done EXCEPT ![l] = how])
           /\ SharedAre(a, [done EXCEPT ![l] = how])
<1> DEFINE next == [done EXCEPT ![l] = how]
<1>1. next[l] = how /\ how # "no" /\ \A k \in Links(a) : k # l => next[k] = done[k]
  OBVIOUS
<1> HIDE DEF next
<1>2. LinksAre(a, d, next)
  BY <1>1 DEF LinksAre
<1>3. ASSUME NEW j \in Links(a), NEW k \in Links(a), NEW s \in Slots, next[j] # "no", next[k] # "no"
      PROVE  MayShare(a, j, k, s)
  <2>1. CASE j # l /\ k # l
    BY <1>1, <1>3, <2>1 DEF SharedAre
  <2>2. CASE k = l /\ j # l
    BY <1>1, <1>3, <2>2
  <2>3. CASE j = l /\ k # l
    <3>1. MayShare(a, k, l, s)
      BY <1>1, <1>3, <2>3
    <3> QED BY <2>3, <3>1 DEF MayShare
  <2>4. CASE j = k
    BY <2>4 DEF MayShare
  <2> QED BY <2>1, <2>2, <2>3, <2>4
<1>4. SharedAre(a, next)
  BY <1>3 DEF SharedAre
<1> QED BY <1>2, <1>4 DEF next

\* A connection that is not right, or that shares what it must not, is refused.
LEMMA WrongLink ==
    ASSUME NEW a, NEW l \in Links(a), ~LinkIsRight(a, l)
    PROVE  ~IsRight(a)
BY DEF IsRight

LEMMA WrongShare ==
    ASSUME NEW a, NEW k \in Links(a), NEW l \in Links(a), NEW s \in Slots, ~MayShare(a, k, l, s)
    PROVE  ~IsRight(a)
BY DEF IsRight

\* Both ends are attached, or it was wrong to ask for it.
LEMMA ConnectedAre ==
    ASSUME Judged, ~Refused, NEW f \in Files(assembly), At(f, "connections"),
           NEW l \in Links(assembly), l[1] = f, made[l] = "no",
           Resolves(f, Link(assembly, l).from), Resolves(f, Link(assembly, l).to),
           ConnectTo(l, Link(assembly, l)),
           UNCHANGED <<assembly, members, unattached>>, Agreed'
    PROVE  Judged'
<1> DEFINE a == assembly
           link == Link(a, l)
           from == FromSlot(a, l)
           to == ToSlot(a, l)
           ok == /\ Compatible(link.from.port, link.to.port) /\ TakesOne(from)
                 /\ TakesMore(to)
<1>1. Sound /\ Agreed /\ made \in [Links(a) -> {"no", "connected", "ignored"}]
  BY DEF Judged, Agreed, Typed
<1>2. ~Ignored(link.from) /\ ~Ignored(link.to) /\ Connects(a, l)
  BY DEF ConnectTo, Connects
<1>3. Uses(a, l, from) /\ Uses(a, l, to)
  BY <1>2 DEF Uses
<1>4. CASE ~ok
  <2>1. doing' = Failed
    BY <1>4 DEF ConnectTo, Fail, FromSlot, ToSlot
  <2>2. ~IsRight(a)
    <3>1. SUFFICES ASSUME LinkIsRight(a, l) PROVE ~IsRight(a)
      BY WrongLink
    <3>2. Compatible(link.from.port, link.to.port) /\ from \in Slots /\ to \in Slots
      BY <1>2, <3>1 DEF LinkIsRight, EndIsRight, FromSlot, ToSlot
    <3>3. Connectors[from[1]].kind \notin Invokee
      BY <3>2 DEF Compatible, FromSlot, Slot, Invoker, Invokee
    <3>4. CASE attached[from].ignored
      <4>1. PICK k \in Links(a) : made[k] = "ignored" /\ Uses(a, k, from) /\ ~Connects(a, k)
        BY <1>1, <3>2, <3>4, IgnoredIsUsed
      <4>2. ~MayShare(a, k, l, from)
        BY <1>3, <4>1 DEF MayShare
      <4> QED BY <3>2, <4>1, <4>2, WrongShare
    <3>5. CASE attached[from].links # <<>>
      <4>1. PICK k \in Links(a) : made[k] = "connected" /\ Uses(a, k, from) /\ Connects(a, k)
        BY <1>1, <3>2, <3>5, LinkedIsUsed
      <4>2. ~MayShare(a, k, l, from)
        BY <1>3, <3>3, <4>1 DEF MayShare
      <4> QED BY <3>2, <4>1, <4>2, WrongShare
    <3>6. CASE attached[to].ignored
      <4>1. PICK k \in Links(a) : made[k] = "ignored" /\ Uses(a, k, to) /\ ~Connects(a, k)
        BY <1>1, <3>2, <3>6, IgnoredIsUsed
      <4>2. ~MayShare(a, k, l, to)
        BY <1>3, <4>1 DEF MayShare
      <4> QED BY <3>2, <4>1, <4>2, WrongShare
    <3>7. attached[from] # Unattached \/ attached[to].ignored
      BY <1>4, <3>2 DEF TakesOne, Free, TakesMore
    <3> QED BY <1>1, <3>2, <3>4, <3>5, <3>6, <3>7, UnfreeIsHeld
  <2>3. Refused' /\ ~IsRight(assembly)'
    BY <2>1, <2>2 DEF Refused, Failed
  <2> QED BY <2>3 DEF Judged
<1>5. CASE ok
  <2>1. /\ made' = [made EXCEPT ![l] = "connected"] /\ UNCHANGED doing
        /\ attached' = Attach(Attach(attached, from, l), to, l)
    BY <1>5 DEF ConnectTo, FromSlot, ToSlot
  <2>2. /\ from \in Slots /\ attached[from].links = <<>> /\ ~attached[from].ignored
        /\ to \in Slots /\ ~attached[to].ignored
    BY <1>5 DEF TakesOne, TakesMore, Free, Unattached
  <2>3. LinkIsRight(a, l)
    <3>1. EndIsRight(a, f, link.from) /\ EndIsRight(a, f, link.to)
      BY <2>2, ResolvedIsRight DEF FromSlot, ToSlot
    <3> QED BY <1>2, <1>5, <3>1 DEF LinkIsRight
  <2>4. ASSUME NEW k \in Links(a), NEW s \in Slots, made[k] # "no"
        PROVE  MayShare(a, k, l, s)
    <3>1. SUFFICES ASSUME Uses(a, k, s), Uses(a, l, s)
                   PROVE  Connects(a, k) /\ Connectors[s[1]].kind \in Invokee
      BY <1>2 DEF MayShare
    <3>2. s # from
      BY <1>1, <2>2, <2>4, <3>1, FreeIsUnused
    <3>3. s = to
      BY <3>1, <3>2 DEF Uses
    <3>4. Connectors[s[1]].kind \in Invokee
      BY <1>5, <3>3 DEF Compatible, ToSlot, Slot
    <3>5. made[k] # "ignored"
      BY <1>1, <2>2, <3>1, <3>3 DEF Sound, IgnoredAre
    <3>6. Connects(a, k)
      BY <1>1, <2>4, <3>5 DEF Sound, LinksAre
    <3> QED BY <3>4, <3>6
  <2>5. LinksAre(a, doing, made') /\ SharedAre(a, made')
    <3> HIDE DEF from, to, link, ok
    <3> QED BY <1>1, <1>2, <2>1, <2>3, <2>4, OneMore DEF Sound
  <2>6. \A s \in Slots : attached'[s].ignored = attached[s].ignored
    <3> DEFINE A == Links(a)
               half == Attach(attached, from, l)
               both == Attach(half, to, l)
    <3>1. attached \in [Slots -> [ignored : BOOLEAN, links : Seq(A)]] /\ l \in A
      BY <1>1 DEF Agreed, Typed
    <3>2. attached' = both
      BY <2>1
    <3> HIDE DEF A, half, from, to, ok, link, both
    <3>3. /\ half \in [Slots -> [ignored : BOOLEAN, links : Seq(A)]]
          /\ half[from].ignored = attached[from].ignored
          /\ \A t \in Slots : t # from => half[t] = attached[t]
      <4>1. from \in Slots
        BY <2>2
      <4> QED BY ONLY <3>1, <4>1, Attaching DEF half
    <3>4. /\ both[to].ignored = half[to].ignored
          /\ \A t \in Slots : t # to => both[t] = half[t]
      <4>1. to \in Slots /\ l \in A /\ half \in [Slots -> [ignored : BOOLEAN, links : Seq(A)]]
        BY <2>2, <3>1, <3>3
      <4> QED BY ONLY <4>1, Attaching DEF both
    <3>5. ASSUME NEW s \in Slots PROVE both[s].ignored = attached[s].ignored
      BY <2>2, <3>3, <3>4
    <3> QED BY <3>2, <3>5
  <2>7. \A k \in Links(a) : made'[k] = "ignored" <=> made[k] = "ignored"
    BY <1>1, <2>1
  <2>8. IgnoredAre(a, made', attached')
    BY <1>1, <2>6, <2>7 DEF Sound, IgnoredAre
  <2>9. ~Loaded' /\ ~Refused'
    BY <2>1 DEF Loaded, At, Refused, Failed
  <2>10. Sound'
    BY <1>1, <2>1, <2>5, <2>8, <2>9 DEF Sound
  <2> QED BY <2>9, <2>10 DEF Judged
<1> QED BY <1>4, <1>5

\* One end is ignored and the other held nothing, or it was wrong to ask for it.
LEMMA IgnoredOtherAre ==
    ASSUME Judged, ~Refused, NEW f \in Files(assembly), At(f, "connections"),
           NEW l \in Links(assembly), l[1] = f, made[l] = "no",
           Resolves(f, Link(assembly, l).from), Resolves(f, Link(assembly, l).to),
           IgnoreOther(l, Link(assembly, l)),
           UNCHANGED <<assembly, members, unattached>>, Agreed'
    PROVE  Judged'
<1> DEFINE a == assembly
           link == Link(a, l)
           end == IF Ignored(link.from) THEN link.to ELSE link.from
           slot == Slot(end)
<1>1. Sound /\ Agreed /\ made \in [Links(a) -> {"no", "connected", "ignored"}]
      /\ attached \in [Slots -> [ignored : BOOLEAN, links : Seq(Links(a))]]
  BY DEF Judged, Agreed, Typed
<1>2. ~Connects(a, l) /\ ~Ignored(end) /\ Ignored(link.from) # Ignored(link.to)
  <2>1. Ignored(link.from) # Ignored(link.to)
    BY DEF IgnoreOther
  <2>2. ~Ignored(end)
    BY <2>1 DEF Ignored
  <2> QED BY <2>1, <2>2 DEF Connects, Ignored
<1>3. \A s : Uses(a, l, s) <=> s = slot
  BY <1>2 DEF Uses, FromSlot, ToSlot, Ignored
<1>4. CASE ~Free(slot)
  <2>1. doing' = Failed
    BY <1>4 DEF IgnoreOther, Fail
  <2>2. ~IsRight(a)
    <3>1. SUFFICES ASSUME LinkIsRight(a, l) PROVE ~IsRight(a)
      BY WrongLink
    <3>2. slot \in Slots
      BY <1>2, <3>1 DEF LinkIsRight, EndIsRight
    <3>3. attached[slot].ignored \/ attached[slot].links # <<>>
      BY <1>1, <1>4, <3>2, UnfreeIsHeld DEF Free
    <3>4. PICK k \in Links(a) : made[k] # "no" /\ Uses(a, k, slot)
      BY <1>1, <3>2, <3>3, IgnoredIsUsed, LinkedIsUsed
    <3>5. ~MayShare(a, k, l, slot)
      BY <1>2, <1>3, <3>4 DEF MayShare
    <3> QED BY <3>2, <3>4, <3>5, WrongShare
  <2>3. Refused' /\ ~IsRight(assembly)'
    BY <2>1, <2>2 DEF Refused, Failed
  <2> QED BY <2>3 DEF Judged
<1>5. CASE Free(slot)
  <2>1. /\ made' = [made EXCEPT ![l] = "ignored"] /\ UNCHANGED doing
        /\ attached' = [attached EXCEPT ![slot].ignored = TRUE]
    BY <1>5 DEF IgnoreOther
  <2>2. slot \in Slots /\ attached[slot].links = <<>> /\ ~attached[slot].ignored
    BY <1>5 DEF Free, Unattached
  <2>3. LinkIsRight(a, l)
    <3>1. ~Ignored(link.from) => end = link.from
      OBVIOUS
    <3>2. ~Ignored(link.to) => end = link.to
      BY <1>2 DEF Ignored
    <3>3. EndIsRight(a, f, link.from)
      BY <2>2, <3>1, ResolvedIsRight
    <3>4. EndIsRight(a, f, link.to)
      BY <2>2, <3>2, ResolvedIsRight
    <3> QED BY <1>2, <3>3, <3>4 DEF LinkIsRight
  <2>4. ASSUME NEW k \in Links(a), NEW s \in Slots, made[k] # "no"
        PROVE  MayShare(a, k, l, s)
    <3>1. SUFFICES ASSUME Uses(a, k, s), s = slot PROVE FALSE
      BY <1>3 DEF MayShare
    <3> QED BY <1>1, <2>2, <2>4, <3>1, FreeIsUnused
  <2> HIDE DEF slot
  <2>5. LinksAre(a, doing, made') /\ SharedAre(a, made')
    BY <1>1, <1>2, <2>1, <2>3, <2>4, OneMore DEF Sound
  <2>6. ASSUME NEW s \in Slots
        PROVE  attached'[s].ignored <=> \E k \in Links(a) : made'[k] = "ignored" /\ Uses(a, k, s)
    <3>1. attached[s].ignored <=> \E k \in Links(a) : made[k] = "ignored" /\ Uses(a, k, s)
      BY <1>1 DEF Sound, IgnoredAre
    <3>2. CASE s = slot
      <4>1. attached'[s].ignored
        BY <1>1, <2>1, <2>2, <3>2
      <4>2. made'[l] = "ignored" /\ Uses(a, l, s)
        BY <1>1, <1>3, <2>1, <3>2
      <4> QED BY <4>1, <4>2
    <3>3. CASE s # slot
      <4>1. attached'[s] = attached[s]
        BY <1>1, <2>1, <2>2, <3>3
      <4>2. ~Uses(a, l, s)
        BY <1>3, <3>3
      <4>3. \A k \in Links(a) : k # l => made'[k] = made[k]
        BY <1>1, <2>1
      <4> QED BY <3>1, <4>1, <4>2, <4>3
    <3> QED BY <3>2, <3>3
  <2>7. IgnoredAre(a, made', attached')
    BY <2>6 DEF IgnoredAre
  <2>8. ~Loaded' /\ ~Refused'
    BY <2>1 DEF Loaded, At, Refused, Failed
  <2>9. Sound'
    BY <1>1, <2>1, <2>5, <2>7, <2>8 DEF Sound
  <2> QED BY <2>8, <2>9 DEF Judged
<1> QED BY <1>4, <1>5

LEMMA ConnectAre ==
    ASSUME Judged, NEW f \in Files(assembly), Connect(f)
    PROVE  Judged'
<1> DEFINE l == NextLink(f)
           link == Link(assembly, l)
<1>1. ~Refused /\ At(f, "connections")
  BY NotRefused DEF Connect
<1>2. l \in Links(assembly) /\ made[l] = "no" /\ l[1] = f
  BY NextLinkIsOpen DEF Connect, Judged, Agreed
<1>3. UNCHANGED <<assembly, members, unattached>>
  BY DEF Connect
<1>4. Agreed'
  BY ConnectAgrees DEF Judged
<1>5. IF /\ Resolves(f, link.from) /\ Resolves(f, link.to)
         /\ ~(Ignored(link.from) /\ Ignored(link.to))
      THEN ConnectTo(l, link) \/ IgnoreOther(l, link)
      ELSE Fail
  BY DEF Connect
<1> HIDE DEF l
<1>6. CASE ~(/\ Resolves(f, link.from) /\ Resolves(f, link.to)
             /\ ~(Ignored(link.from) /\ Ignored(link.to)))
  <2>1. ~LinkIsRight(assembly, l)
    BY <1>1, <1>2, <1>6, RightResolves DEF LinkIsRight
  <2>2. ~IsRight(assembly)
    BY <1>2, <2>1, WrongLink
  <2>3. Refused' /\ ~IsRight(assembly)'
    BY <1>3, <1>5, <1>6, <2>2 DEF Refused, Failed, Fail
  <2> QED BY <1>4, <2>3 DEF Judged
<1>7. CASE ConnectTo(l, link) /\ Resolves(f, link.from) /\ Resolves(f, link.to)
  BY <1>1, <1>2, <1>3, <1>4, <1>7, ConnectedAre
<1>8. CASE IgnoreOther(l, link) /\ Resolves(f, link.from) /\ Resolves(f, link.to)
  BY <1>1, <1>2, <1>3, <1>4, <1>8, IgnoredOtherAre
<1> QED BY <1>5, <1>6, <1>7, <1>8

LEMMA ConnectionsMadeAre ==
    ASSUME Judged, NEW f \in Files(assembly), ConnectionsMade(f)
    PROVE  Judged'
<1> DEFINE a == assembly
           next == IF f = 0 THEN <<0, "count">> ELSE NextFile(f)
<1>1. At(f, "connections") /\ ~Refused
  BY NotRefused DEF ConnectionsMade
<1>2. /\ UNCHANGED <<assembly, members, attached, made, unattached>> /\ a \in Assemblies
      /\ doing' = next /\ made \in [Links(a) -> {"no", "connected", "ignored"}]
  BY DEF ConnectionsMade, Judged, Agreed, Typed
<1>3. Agreed'
  BY <1>1, <1>2, LeftAlone DEF Judged
<1>4. Sound
  BY <1>1 DEF Judged
<1>5. \A l \in Links(a) : l[1] = f => made[l] # "no"
  BY <1>2 DEF ConnectionsMade, AllMade
<1>6. /\ MergedIn(next) <=> MergedIn(doing)
      /\ \A g \in Files(a) : /\ TakenIn(next, g) <=> TakenIn(doing, g)
                             /\ MadeIn(next, g) => MadeIn(doing, g) \/ g = f
      /\ next # Failed /\ next # <<0, "done">>
  <2>1. CASE f = 0
    <3>1. next = <<0, "count">> /\ doing = <<0, "connections">>
      BY <1>1, <2>1 DEF At
    <3>2. <<0, "count">> # <<0, "failed">> /\ <<0, "count">> # <<0, "done">>
      OBVIOUS
    <3> QED BY <2>1, <3>1, <3>2, StepsOfAll DEF Late, Failed
  <2>2. CASE f # 0
    <3>1. next = NextFile(f) /\ doing = <<f, "connections">>
      BY <1>1, <2>2 DEF At
    <3>2. next # Failed /\ next # <<0, "done">> /\ ~MergedIn(next) /\ ~MergedIn(doing)
      BY <1>2, <2>2, <3>1, StepsAfter, StepsBefore
    <3>3. ASSUME NEW g \in Files(a)
          PROVE  /\ TakenIn(next, g) <=> TakenIn(doing, g)
                 /\ MadeIn(next, g) => MadeIn(doing, g) \/ g = f
      <4>1. f \in Nat /\ g \in Nat
        BY <1>2, StepsBefore
      <4>2. /\ TakenIn(next, g) <=> g <= f
            /\ MadeIn(next, g) <=> g \in 1 .. f
        BY <1>2, <3>1, StepsAfter
      <4>3. /\ TakenIn(doing, g) <=> g <= f
            /\ MadeIn(doing, g) <=> g \in 1 .. f - 1
        BY <1>2, <2>2, <3>1, StepsBefore
      <4> QED BY <4>1, <4>2, <4>3
    <3> QED BY <3>2, <3>3
  <2> QED BY <2>1, <2>2
<1> HIDE DEF next
<1>7. MembersAre(a, next, members) /\ NamesAre(a, next)
  BY <1>4, <1>6 DEF Sound, MembersAre, NamesAre
<1>8. LinksAre(a, next, made)
  BY <1>4, <1>5, <1>6, LinkIsOfFile DEF Sound, LinksAre
<1>9. ~Loaded' /\ ~Refused'
  BY <1>2, <1>6 DEF Loaded, At, Refused, Failed
<1>10. Sound'
  BY <1>2, <1>4, <1>7, <1>8, <1>9 DEF Sound
<1> QED BY <1>3, <1>9, <1>10 DEF Judged

-----------------------------------------------------------------------------
(* What is left is counted.                                                *)

LEMMA CountedAre ==
    ASSUME Judged, Count
    PROVE  Judged'
<1> DEFINE a == assembly
           own == {s \in Slots : s[1][1] \in Visible(a, 0)}
           used == UNION {{s \in own : Uses(a, l, s)} : l \in Links(a)}
           ignored == UNION {{s \in own : Uses(a, l, s)} : l \in {k \in Links(a) : ~Connects(a, k)}}
<1>1. At(0, "count") /\ ~Refused
  BY NotRefused DEF Count
<1>2. /\ UNCHANGED <<assembly, members, attached, made>> /\ a \in Assemblies
      /\ made \in [Links(a) -> {"no", "connected", "ignored"}]
      /\ unattached' = [connectors |-> Cardinality({s \in OwnSlots : attached[s] = Unattached}),
                        ignored |-> Cardinality({s \in OwnSlots : attached[s].ignored})]
  BY DEF Count, Judged, Agreed, Typed
<1>3. Agreed'
  BY <1>1, <1>2, LeftAlone DEF Judged
<1>4. Sound /\ Agreed
  BY <1>1 DEF Judged
<1>5. 0 \in Files(a)
  BY <1>2, AssembliesAssumption DEF Files
<1>6. \A f : \A step \in {"count", "done"} : TakenIn(<<0, step>>, f) /\ MadeIn(<<0, step>>, f) /\ MergedIn(<<0, step>>)
  BY StepsOfAll DEF Late
<1>7. doing = <<0, "count">>
  BY <1>1 DEF At
<1>8. members[0] = Visible(a, 0)
  BY <1>4, <1>5, <1>6, <1>7 DEF Sound, MembersAre
<1>9. CASE ~HaveCounts(a)
  <2>1. doing' = Failed
    BY <1>8, <1>9 DEF Count, Fail, HaveCounts
  <2>2. ~IsRight(a)
    BY <1>9 DEF IsRight, HaveCounts
  <2>3. Refused' /\ ~IsRight(assembly)'
    BY <1>2, <2>1, <2>2 DEF Refused, Failed
  <2> QED BY <1>3, <2>3 DEF Judged
<1>10. CASE HaveCounts(a)
  <2>1. doing' = <<0, "done">>
    BY <1>8, <1>10 DEF Count, HaveCounts
  <2>2. MembersAre(a, <<0, "done">>, members) /\ NamesAre(a, <<0, "done">>) /\ LinksAre(a, <<0, "done">>, made)
    BY <1>4, <1>6, <1>7 DEF Sound, MembersAre, NamesAre, LinksAre
  <2>3. \A l \in Links(a) : made[l] # "no" /\ (made[l] = "connected" <=> Connects(a, l))
    BY <1>6, <2>2 DEF LinksAre
  <2>4. OwnSlots = own
    BY <1>8 DEF OwnSlots
  <2>5. {s \in OwnSlots : attached[s] = Unattached} = own \ used
    <3>1. ASSUME NEW s \in own
          PROVE  attached[s] = Unattached <=> s \notin used
      <4>1. CASE attached[s] = Unattached
        <5>1. attached[s].links = <<>> /\ attached[s].ignored = FALSE
          BY <4>1 DEF Unattached
        <5>2. \A l \in Links(a) : ~Uses(a, l, s)
          BY <1>1, <1>4, <2>3, <5>1, FreeIsUnused
        <5> QED BY <4>1, <5>2
      <4>2. CASE attached[s] # Unattached
        <5>1. \E l \in Links(a) : Uses(a, l, s)
          BY <1>1, <1>4, <4>2, UnfreeIsHeld, IgnoredIsUsed, LinkedIsUsed
        <5> QED BY <4>2, <5>1
      <4> QED BY <4>1, <4>2
    <3> HIDE DEF used
    <3> QED BY <2>4, <3>1
  <2>6. {s \in OwnSlots : attached[s].ignored} = ignored
    <3>1. ASSUME NEW s \in own
          PROVE  attached[s].ignored <=> s \in ignored
      <4>1. attached[s].ignored <=> \E l \in Links(a) : made[l] = "ignored" /\ Uses(a, l, s)
        BY <1>4 DEF Sound, IgnoredAre
      <4>2. \A l \in Links(a) : made[l] = "ignored" <=> ~Connects(a, l)
        BY <1>2, <2>3
      <4> QED BY <4>1, <4>2
    <3>2. ignored \subseteq own
      OBVIOUS
    <3>3. \A s \in own : attached[s].ignored <=> s \in ignored
      BY <3>1
    <3> HIDE DEF ignored, own
    <3> QED BY <2>4, <3>2, <3>3
  <2>7. unattached' = [connectors |-> Cardinality(own \ used), ignored |-> Cardinality(ignored)]
    BY <1>2, <2>5, <2>6
  <2>8. CountsWhatIsLeft'
    BY <1>2, <2>7 DEF CountsWhatIsLeft
  <2>9. ~Refused'
    BY <2>1 DEF Refused, Failed
  <2>10. Sound'
    BY <1>2, <1>4, <1>10, <2>1, <2>2, <2>8 DEF Sound
  <2> QED BY <1>3, <2>9, <2>10 DEF Judged
<1> QED BY <1>9, <1>10

-----------------------------------------------------------------------------

LEMMA InitJudged == WiringInit => Judged
<1> SUFFICES ASSUME WiringInit PROVE Judged
  OBVIOUS
<1> DEFINE a == assembly
<1>1. Agreed
  BY InitAgrees
<1>2. doing = <<0, "components">> /\ made = [l \in Links(a) |-> "no"] /\ members = [f \in Files(a) |-> {}]
  BY DEF WiringInit
<1>3. \A f : ~TakenIn(doing, f) /\ ~MadeIn(doing, f) /\ ~MergedIn(doing)
  BY <1>2, StepsOfAll
<1>4. MembersAre(a, doing, members) /\ NamesAre(a, doing)
  BY <1>2, <1>3 DEF MembersAre, NamesAre
<1>5. LinksAre(a, doing, made) /\ SharedAre(a, made)
  BY <1>2, <1>3 DEF LinksAre, SharedAre
<1>6. IgnoredAre(a, made, attached)
  BY <1>2 DEF IgnoredAre, WiringInit, Unattached
<1>7. <<0, "components">> # <<0, "failed">> /\ <<0, "components">> # <<0, "done">>
  OBVIOUS
<1>8. ~Refused /\ ~Loaded
  BY <1>2, <1>7 DEF Refused, Failed, Loaded, At
<1> QED BY <1>1, <1>4, <1>5, <1>6, <1>8 DEF Judged, Sound

LEMMA StepJudged == Judged /\ [WiringNext]_wiring => Judged'
<1> SUFFICES ASSUME Judged, [WiringNext]_wiring PROVE Judged'
  OBVIOUS
<1>1. CASE Merge
  BY <1>1, MergedNamesAre
<1>2. CASE Count
  BY <1>2, CountedAre
<1>3. ASSUME NEW f \in Files(assembly), LoadComponents(f) PROVE Judged'
  BY <1>3, LoadedNamesAre
<1>4. ASSUME NEW f \in Files(assembly), Connect(f) PROVE Judged'
  BY <1>4, ConnectAre
<1>5. ASSUME NEW f \in Files(assembly), ConnectionsMade(f) PROVE Judged'
  BY <1>5, ConnectionsMadeAre
<1>6. CASE UNCHANGED wiring
  <2>1. UNCHANGED <<assembly, doing, members, attached, made, unattached>>
    BY <1>6 DEF wiring
  <2>2. Agreed'
    BY <1>6, StepAgrees DEF Judged
  <2>3. Sound' = Sound
    BY <2>1 DEF Sound, Loaded, At, CountsWhatIsLeft
  <2>4. Refused' = Refused /\ IsRight(assembly)' = IsRight(assembly)
    BY <2>1 DEF Refused, Failed
  <2> QED BY <2>2, <2>3, <2>4 DEF Judged
<1> QED BY <1>1, <1>2, <1>3, <1>4, <1>5, <1>6 DEF WiringNext

\* Whatever the files of an assembly say and in whatever order (assembly.load,
\* connection.connect): it is loaded only if it is right, with what it leaves
\* unattached counted, and refused only if it is not.
THEOREM AssembliesLoadIfRight == WiringSpec => []LoadsIfRight
<1>1. Judged => LoadsIfRight
  <2> SUFFICES ASSUME Judged PROVE LoadsIfRight
    OBVIOUS
  <2>1. Loaded => ~Refused
    BY DEF Loaded, At, Refused, Failed
  <2>2. ASSUME Loaded PROVE IsRight(assembly) /\ CountsWhatIsLeft
    <3>1. Sound /\ doing = <<0, "done">>
      BY <2>1, <2>2 DEF Judged, Loaded, At
    <3>2. MergedIn(doing) /\ \A f : TakenIn(doing, f) /\ MadeIn(doing, f)
      BY <3>1, StepsOfAll DEF Late
    <3>3. \A l \in Links(assembly) : made[l] # "no" /\ LinkIsRight(assembly, l)
      BY <3>1, <3>2 DEF Sound, LinksAre
    <3>4. \A k, l \in Links(assembly), s \in Slots : MayShare(assembly, k, l, s)
      BY <3>1, <3>3 DEF Sound, SharedAre
    <3>5. FilesAreApart(assembly) /\ \A f \in Files(assembly) : IsInjective(File(assembly, f).components)
      BY <3>1, <3>2 DEF Sound, NamesAre
    <3> QED BY <2>2, <3>1, <3>3, <3>4, <3>5 DEF Sound, IsRight, HaveCounts
  <2> QED BY <2>2 DEF LoadsIfRight, Judged
<1> QED BY <1>1, InitJudged, StepJudged, PTL DEF WiringSpec

-----------------------------------------------------------------------------
(* EntityIds: the ids of the entities of its suites.                       *)

IdsTyped ==
    /\ suites \in Declarations
    /\ typeBase \in TypeBases
    /\ wanted \in [Dependencies -> Entities \X {suites[e[1]].types[e[2]] : e \in Entities}]
    /\ stage \in {"set", "reserve", "choose", "check", "resolve", "numbered", "rejected"}
    /\ turn \in DOMAIN suites
    /\ ids \in [Entities -> Nat \cup {NoId}]
    /\ bases \in [DOMAIN suites -> Nat \cup {NoId}]
    /\ resolved \in [Dependencies -> Nat \cup {NoId}]

\* No two entities of one suite have the same id.
OwnApart ==
    \A e, f \in Entities : e[1] = f[1] /\ Given(ids[e]) /\ ids[e] = ids[f] => e = f

\* What is numbered, or written with ids, has all of its ids.
Whole ==
    \A e \in Entities : Static(suites[e[1]]) \/ bases[e[1]] # NoId => Given(ids[e])

\* No id is larger than those of the wire.
InReach == \A e \in Entities : ids[e] # NoId => ids[e] <= MaxId

\* An id of the dictionary is that of its entity.
Leads ==
    \A id \in DOMAIN dictionary :
        id \in 1 .. MaxId /\ dictionary[id] \in Entities /\ ids[dictionary[id]] = id

IsEntered(e) == ids[e] \in DOMAIN dictionary /\ dictionary[ids[e]] = e

\* The entities whose turn has come are entered: those that have an id when
\* it is reserved, all others when it is chosen.
Entering ==
    /\ stage = "set" => DOMAIN dictionary = {}
    /\ stage = "reserve" => \A e \in Entities : e[1] < turn /\ Given(ids[e]) => IsEntered(e)
    /\ stage = "choose" =>
        \A e \in Entities : e[1] < turn \/ Given(ids[e]) => IsEntered(e)
    /\ stage \in {"check", "resolve", "numbered"} => \A e \in Entities : IsEntered(e)

Mapped ==
    /\ \A d \in Dependencies : resolved[d] # NoId => resolved[d] = ids[wanted[d][1]]
    /\ stage \notin {"resolve", "numbered", "rejected"} => \A d \in Dependencies : resolved[d] = NoId
    /\ stage = "numbered" => \A d \in Dependencies : resolved[d] # NoId

Numbering == IdsTyped /\ OwnApart /\ Whole /\ InReach /\ Leads /\ Entering /\ Mapped

-----------------------------------------------------------------------------
(* Numbers: a set of numbers has a least one, and a largest if bounded.     *)

LEMMA LeastIs ==
    ASSUME NEW T \in SUBSET Nat, T # {}
    PROVE  \E k \in T : \A n \in T : k <= n
<1> DEFINE Less == {p \in Nat \X Nat : p[1] < p[2]}
<1>1. OpToRel(<, Nat) = Less
  BY DEF OpToRel
<1>2. IsWellFoundedOn(Less, Nat)
  BY <1>1, NatLessThanWellFounded
<1>3. PICK k \in T : \A n \in T : ~(<<n, k>> \in Less)
  BY <1>2, WFMin
<1>4. ASSUME NEW n \in T PROVE k <= n
  <2>1. k \in Nat /\ n \in Nat
    OBVIOUS
  <2>2. ~(n < k)
    BY <1>3, <2>1
  <2> QED BY <2>1, <2>2
<1> QED BY <1>4

LEMMA MaxIsLargest ==
    ASSUME NEW bound \in Nat, NEW T \in SUBSET (0 .. bound), T # {}
    PROVE  Max(T) \in T /\ \A n \in T : n <= Max(T)
<1> DEFINE U == {bound - n : n \in T}
<1>1. U \in SUBSET Nat /\ U # {}
  <2>1. \A n \in T : bound - n \in Nat
    OBVIOUS
  <2> QED BY <2>1
<1>2. PICK k \in U : \A n \in U : k <= n
  BY <1>1, LeastIs
<1>3. PICK x \in T : k = bound - x
  BY <1>2
<1>4. \A n \in T : n <= x
  <2> TAKE n \in T
  <2>1. k <= bound - n
    BY <1>2
  <2> QED BY <1>3, <2>1
<1>5. \E y \in T : \A n \in T : y >= n
  BY <1>4
<1> QED BY <1>5 DEF Max

-----------------------------------------------------------------------------
(* Entities are the places in the suites as they are written.               *)

LEMMA SuitesAre ==
    ASSUME IdsTyped
    PROVE  /\ Len(suites) \in Nat \ {0} /\ DOMAIN suites = 1 .. Len(suites)
           /\ \A s \in DOMAIN suites :
                /\ suites[s].base \in (Nat \ {0}) \cup {NoId}
                /\ suites[s].ids \in Seq(Nat \cup {NoId})
                /\ DOMAIN suites[s].ids = 1 .. Len(suites[s].ids)
                /\ Len(suites[s].ids) \in Nat
<1>1. \A s \in DOMAIN suites : suites[s].ids \in Seq(Nat \cup {NoId})
  BY DeclarationsAssumption DEF IdsTyped
<1>2. \A seq \in Seq(Nat \cup {NoId}) : DOMAIN seq = 1 .. Len(seq) /\ Len(seq) \in Nat
  OBVIOUS
<1> QED BY <1>1, <1>2, DeclarationsAssumption DEF IdsTyped

LEMMA EntitiesAre ==
    ASSUME IdsTyped
    PROVE  /\ \A e \in Entities : /\ e = <<e[1], e[2]>>
                                  /\ e[1] \in 1 .. Len(suites)
                                  /\ e[2] \in 1 .. Len(suites[e[1]].ids)
           /\ \A s \in 1 .. Len(suites), i \in Nat :
                i \in 1 .. Len(suites[s].ids) => <<s, i>> \in Entities
  BY SuitesAre DEF Entities

\* The open base is one that a suite can be numbered from: n ids are free
\* there, and at no lower base.
LEMMA OpenBaseIsBase ==
    ASSUME IdsTyped, Leads, NEW n \in Nat
    PROVE  /\ OpenIdBase(n) \in Nat \ {0} /\ Lowest \in Nat \ {0} /\ Lowest <= OpenIdBase(n)
           /\ DOMAIN dictionary \cap (OpenIdBase(n) .. OpenIdBase(n) + n - 1) = {}
           /\ \A b \in Lowest .. OpenIdBase(n) - 1 : DOMAIN dictionary \cap (b .. b + n - 1) # {}
<1> DEFINE held == DOMAIN dictionary
           full == held \cup {Lowest}
           Fits(b) == held \cap (b .. b + n - 1) = {}
           range == Lowest .. Max(full) + 1
<1>1. Lowest \in Nat \ {0}
  BY IdsAssumption DEF IdsTyped, Lowest
<1>2. MaxId \in Nat /\ held \subseteq 1 .. MaxId
  BY IdsAssumption DEF Leads
<1>3. PICK bound \in Nat : full \subseteq 0 .. bound
  <2>1. full \subseteq 0 .. MaxId + Lowest
    BY <1>1, <1>2
  <2> QED BY <1>1, <1>2, <2>1
<1>4. Max(full) \in full /\ \A k \in full : k <= Max(full)
  BY <1>3, MaxIsLargest
<1>5. Max(full) \in Nat /\ Lowest <= Max(full)
  BY <1>1, <1>3, <1>4
<1>6. Max(full) + 1 \in range /\ Fits(Max(full) + 1)
  BY <1>1, <1>2, <1>4, <1>5
<1>7. PICK b \in range : Fits(b) /\ \A c \in range : Fits(c) => b <= c
  <2> DEFINE T == {b \in range : Fits(b)}
  <2>1. T \in SUBSET Nat /\ T # {}
    BY <1>1, <1>5, <1>6
  <2> HIDE DEF T
  <2>2. PICK k \in T : \A c \in T : k <= c
    BY <2>1, LeastIs
  <2> QED BY <2>2 DEF T
<1>8. \A c \in Lowest .. b - 1 : ~Fits(c)
  <2> HIDE DEF Fits, full
  <2>1. b \in Nat /\ b <= Max(full) + 1 /\ Max(full) \in Nat
    BY <1>1, <1>5
  <2>2. \A c \in Lowest .. b - 1 : c \in range /\ ~(b <= c)
    BY <1>1, <2>1
  <2> QED BY <1>7, <2>2
<1>9. \E base \in range : Fits(base) /\ \A c \in Lowest .. base - 1 : ~Fits(c)
  BY <1>7, <1>8
<1>10. /\ OpenIdBase(n) \in range /\ Fits(OpenIdBase(n))
       /\ \A c \in Lowest .. OpenIdBase(n) - 1 : ~Fits(c)
  BY <1>9 DEF OpenIdBase
<1> QED BY <1>1, <1>5, <1>10

-----------------------------------------------------------------------------
(* A suite that is numbered gives ids to its own entities only.             *)

LEMMA NumberedIs ==
    ASSUME IdsTyped, NEW s \in DOMAIN suites, NEW base \in Nat \ {0}
    PROVE  /\ \A e \in Entities : e[1] # s => Numbered(s, base)[e] = ids[e]
           /\ \A e \in Entities : e[1] = s => Numbered(s, base)[e] = base + e[2] - 1
           /\ \A e \in Entities : e[1] = s => base + e[2] - 1 \in Nat \ {0}
           /\ Numbered(s, base) \in [Entities -> Nat \cup {NoId}]
<1>1. \A e \in Entities : e[2] \in Nat \ {0}
  BY SuitesAre, EntitiesAre
<1>2. \A e \in Entities : base + e[2] - 1 \in Nat \ {0}
  BY <1>1
<1> QED BY <1>2 DEF Numbered, IdsTyped

\* Its new ids keep apart, whole and in reach, and no id of the dictionary
\* was one of an entity that had none.
LEMMA NumberingKeeps ==
    ASSUME IdsTyped, OwnApart, Whole, InReach, Leads,
           NEW s \in DOMAIN suites, NEW base \in Nat \ {0},
           ~Static(suites[s]), Numberable(s, base),
           UNCHANGED <<suites, typeBase, wanted>>,
           ids' = Numbered(s, base),
           bases' = [bases EXCEPT ![s] = base]
    PROVE  /\ OwnApart' /\ Whole' /\ InReach'
           /\ \A id \in DOMAIN dictionary : ids'[dictionary[id]] = id
           /\ \A e \in Entities : e[1] = s => ids[e] = NoId
<1>1. \A e \in Entities : e[1] = s => ids[e] = NoId /\ ids'[e] <= MaxId
  BY DEF Numberable, EntitiesOf
<1>2. Entities' = Entities
  BY DEF Entities
<1>3. /\ \A e \in Entities : e[1] # s => ids'[e] = ids[e]
      /\ \A e \in Entities : e[1] = s => ids'[e] = base + e[2] - 1 /\ ids'[e] \in Nat \ {0}
  BY NumberedIs
<1>4. \A e \in Entities : /\ e = <<e[1], e[2]>> /\ e[1] \in DOMAIN suites /\ e[2] \in Nat
  BY SuitesAre, EntitiesAre
<1>5. NoId \notin Nat
  BY IdsAssumption
<1>6. OwnApart'
  <2> SUFFICES ASSUME NEW e \in Entities, NEW f \in Entities, e[1] = f[1],
                      Given(ids'[e]), ids'[e] = ids'[f]
               PROVE  e = f
    BY <1>2 DEF OwnApart, Given
  <2>1. CASE e[1] = s
    <3>1. e[2] = f[2]
      <4>1. base + e[2] - 1 = base + f[2] - 1
        <5>1. f[1] = s /\ ids'[e] = ids'[f]
          BY <2>1
        <5> QED BY <1>3, <2>1, <5>1
      <4>2. e[2] \in Nat /\ f[2] \in Nat /\ base \in Nat
        BY <1>4
      <4> QED BY <4>1, <4>2
    <3> QED BY <1>4, <3>1
  <2>2. CASE e[1] # s
    BY <1>3, <2>2 DEF OwnApart
  <2> QED BY <2>1, <2>2
<1>7. Whole'
  <2> SUFFICES ASSUME NEW e \in Entities, Static(suites[e[1]]) \/ bases'[e[1]] # NoId
               PROVE  Given(ids'[e])
    BY <1>2 DEF Whole, Static, Given
  <2>1. CASE e[1] = s
    BY <1>3, <1>5, <2>1 DEF Given
  <2>2. CASE e[1] # s
    <3>1. bases'[e[1]] = bases[e[1]]
      BY <1>4, <2>2 DEF IdsTyped
    <3> QED BY <1>3, <2>2, <3>1 DEF Whole
  <2> QED BY <2>1, <2>2
<1>8. InReach'
  BY <1>1, <1>2, <1>3 DEF InReach
<1>9. ASSUME NEW id \in DOMAIN dictionary PROVE ids'[dictionary[id]] = id
  <2>1. dictionary[id] \in Entities /\ ids[dictionary[id]] = id /\ id \in Nat
    BY DEF Leads
  <2>2. dictionary[id][1] # s
    BY <1>1, <1>5, <2>1
  <2> QED BY <1>3, <2>1, <2>2
<1> QED BY <1>1, <1>6, <1>7, <1>8, <1>9

-----------------------------------------------------------------------------
(* One lemma for every step.                                                *)

LEMMA ProceedIs ==
    ASSUME IdsTyped, NEW next, Proceed(next)
    PROVE  \/ turn = Len(suites) /\ stage' = next /\ turn' = 1 /\ 1 \in DOMAIN suites
           \/ turn # Len(suites) /\ stage' = stage /\ turn' = turn + 1 /\ turn' \in DOMAIN suites
<1>1. turn \in 1 .. Len(suites) /\ Len(suites) \in Nat \ {0} /\ DOMAIN suites = 1 .. Len(suites)
  BY SuitesAre DEF IdsTyped
<1>2. 1 \in DOMAIN suites /\ (turn # Len(suites) => turn + 1 \in DOMAIN suites)
  <2>1. PICK n \in Nat : n = Len(suites)
    BY <1>1
  <2>2. turn \in 1 .. n
    BY <1>1, <2>1
  <2>3. 1 \in 1 .. n /\ (turn # n => turn + 1 \in 1 .. n)
    BY <2>2
  <2> QED BY <1>1, <2>1, <2>3
<1>3. CASE turn = Len(suites)
  <2>1. stage' = next /\ turn' = 1
    BY <1>3 DEF Proceed
  <2> QED BY <1>2, <1>3, <2>1
<1>4. CASE turn # Len(suites)
  <2>1. turn' = turn + 1 /\ stage' = stage
    BY <1>4 DEF Proceed
  <2>2. turn' \in DOMAIN suites
    BY <1>2, <1>4, <2>1
  <2> QED BY <1>4, <2>1, <2>2
<1> QED BY <1>3, <1>4

LEMMA SetGivenBaseKeeps == ASSUME Numbering, SetGivenBase PROVE Numbering'
<1> USE DEF Numbering
<1>1. stage = "set" /\ UNCHANGED <<suites, typeBase, wanted, dictionary, resolved>>
  BY DEF SetGivenBase
<1>2. Entities' = Entities
  BY <1>1 DEF Entities
<1>3. /\ stage' \in {"set", "reserve", "rejected"} /\ turn' \in DOMAIN suites
      /\ stage' = "reserve" => turn' = 1
  BY ProceedIs, <1>1 DEF SetGivenBase, Reject, IdsTyped
<1>4. DOMAIN dictionary = {} /\ DOMAIN dictionary' = {} /\ Leads'
  BY <1>1 DEF Entering, Leads
<1>5. Entering'
  <2>1. \A e \in Entities : ~(e[1] < 1)
    BY EntitiesAre, SuitesAre
  <2> QED BY <1>2, <1>3, <1>4, <2>1 DEF Entering
<1>6. \A d \in Dependencies : resolved[d] = NoId
  BY <1>1 DEF Mapped
<1>7. Mapped'
  BY <1>1, <1>3, <1>6 DEF Mapped
<1>8. CASE UNCHANGED <<ids, bases>>
  <2>1. IdsTyped'
    BY <1>1, <1>2, <1>3, <1>8 DEF IdsTyped
  <2>2. OwnApart' /\ Whole' /\ InReach'
    BY <1>1, <1>2, <1>8 DEF OwnApart, Whole, InReach, Static, Given
  <2> QED BY <1>4, <1>5, <1>7, <2>1, <2>2
<1>9. CASE suites[turn].base # NoId /\ Numberable(turn, suites[turn].base)
           /\ ~Static(suites[turn])
  <2> DEFINE base == suites[turn].base
  <2>1. base \in Nat \ {0} /\ turn \in DOMAIN suites
    BY <1>9, SuitesAre DEF IdsTyped
  <2>2. ids' = Numbered(turn, base) /\ bases' = [bases EXCEPT ![turn] = base]
    BY <1>9 DEF SetGivenBase, SetIdBase
  <2>3. OwnApart' /\ Whole' /\ InReach'
    BY <1>1, <1>9, <2>1, <2>2, NumberingKeeps
  <2>4. ids' \in [Entities -> Nat \cup {NoId}]
    BY <2>1, <2>2, NumberedIs
  <2>5. IdsTyped'
    BY <1>1, <1>2, <1>3, <2>1, <2>2, <2>4 DEF IdsTyped
  <2> QED BY <1>4, <1>5, <1>7, <2>3, <2>5
<1> QED BY <1>8, <1>9 DEF SetGivenBase, SetIdBase

LEMMA ReserveKeeps == ASSUME Numbering, Reserve PROVE Numbering'
<1> USE DEF Numbering
<1>1. stage = "reserve" /\ UNCHANGED <<suites, typeBase, wanted, ids, bases, resolved>>
  BY DEF Reserve
<1>2. Entities' = Entities
  BY <1>1 DEF Entities
<1>3. OwnApart' /\ Whole' /\ InReach'
  BY <1>1, <1>2 DEF OwnApart, Whole, InReach, Static, Given
<1>4. stage' \in {"reserve", "choose", "rejected"} /\ turn' \in DOMAIN suites
  BY ProceedIs, <1>1 DEF Reserve, Reject, IdsTyped
<1>5. IdsTyped' /\ Mapped'
  BY <1>1, <1>2, <1>4 DEF IdsTyped, Mapped
<1>6. CASE Reject /\ UNCHANGED dictionary
  BY <1>1, <1>2, <1>3, <1>5, <1>6 DEF Reject, Leads, Entering
<1>7. CASE /\ {ids[e] : e \in Known(turn)} \cap DOMAIN dictionary = {}
           /\ dictionary' = Entered(Known(turn))
           /\ Proceed("choose")
  <2>1. \A e \in Known(turn) : /\ e \in Entities /\ e[1] = turn /\ Given(ids[e])
                               /\ ids[e] \in 1 .. MaxId /\ ids[e] \notin DOMAIN dictionary
    <3>1. \A e \in Known(turn) : e \in Entities /\ e[1] = turn /\ Given(ids[e])
                                 /\ ids[e] \notin DOMAIN dictionary
      BY <1>7 DEF Known, EntitiesOf
    <3>2. \A e \in Known(turn) : ids[e] \in Nat /\ ids[e] # 0 /\ ids[e] <= MaxId
      BY <3>1 DEF IdsTyped, Given, InReach
    <3> QED BY <3>1, <3>2, IdsAssumption
  <2>2. DOMAIN dictionary' = DOMAIN dictionary \cup {ids[e] : e \in Known(turn)}
    BY <1>7 DEF Entered
  <2>3. \A id \in DOMAIN dictionary : dictionary'[id] = dictionary[id]
    BY <1>7 DEF Entered
  <2>4. ASSUME NEW e \in Known(turn) PROVE dictionary'[ids[e]] = e
    <3>1. dictionary'[ids[e]] = CHOOSE f \in Known(turn) : ids[f] = ids[e]
      BY <1>7, <2>1 DEF Entered
    <3>2. \A f \in Known(turn) : ids[f] = ids[e] => f = e
      BY <2>1 DEF OwnApart
    <3> QED BY <3>1, <3>2
  <2>5. Leads'
    <3> SUFFICES ASSUME NEW id \in DOMAIN dictionary'
                 PROVE  /\ id \in 1 .. MaxId /\ dictionary'[id] \in Entities
                        /\ ids[dictionary'[id]] = id
      BY <1>1, <1>2 DEF Leads
    <3>1. CASE id \in DOMAIN dictionary
      BY <2>3, <3>1 DEF Leads
    <3>2. ASSUME NEW e \in Known(turn), id = ids[e]
          PROVE  /\ id \in 1 .. MaxId /\ dictionary'[id] \in Entities
                 /\ ids[dictionary'[id]] = id
      BY <2>1, <2>4, <3>2
    <3> QED BY <2>2, <3>1, <3>2
  <2>6. \A e \in Entities : IsEntered(e) => IsEntered(e)'
    BY <1>1, <2>2, <2>3 DEF IsEntered
  <2>7. \A e \in Entities : e[1] = turn /\ Given(ids[e]) => IsEntered(e)'
    BY <1>1, <2>2, <2>4 DEF IsEntered, Known, EntitiesOf
  <2>8. \A e \in Entities : e[1] <= turn /\ Given(ids[e]) => IsEntered(e)'
    <3>1. \A e \in Entities : e[1] \in Nat /\ turn \in Nat
      BY EntitiesAre, SuitesAre DEF IdsTyped
    <3> QED BY <1>1, <2>6, <2>7, <3>1 DEF Entering
  <2>9. Entering'
    <3>1. \A e \in Entities : e[1] \in 1 .. Len(suites)
      BY EntitiesAre
    <3>2. Len(suites) \in Nat /\ turn \in 1 .. Len(suites)
      BY SuitesAre DEF IdsTyped
    <3>3. CASE turn = Len(suites) /\ stage' = "choose" /\ turn' = 1
      <4>1. \A e \in Entities : Given(ids[e]) => IsEntered(e)'
        BY <2>8, <3>1, <3>2, <3>3
      <4>2. \A e \in Entities : ~(e[1] < 1)
        BY <3>1, <3>2
      <4> QED BY <1>1, <1>2, <3>3, <4>1, <4>2 DEF Entering, Given
    <3>4. CASE turn # Len(suites) /\ stage' = stage /\ turn' = turn + 1
      <4>1. \A e \in Entities : e[1] < turn + 1 => e[1] <= turn
        BY <3>1, <3>2
      <4> QED BY <1>1, <1>2, <2>8, <3>4, <4>1 DEF Entering, Given
    <3> QED BY <1>7, <3>3, <3>4, ProceedIs
  <2> QED BY <1>3, <1>5, <2>5, <2>9
<1> QED BY <1>6, <1>7 DEF Reserve

\* The turn passes on when all entities of a suite are entered.
LEMMA ChosenTurn ==
    ASSUME IdsTyped, stage = "choose", UNCHANGED suites, Proceed("check"),
           \A e \in Entities : e[1] < turn \/ e[1] = turn => IsEntered(e)',
           \A e \in Entities : Given(ids'[e]) => IsEntered(e)'
    PROVE  Entering' /\ stage' \in {"choose", "check"} /\ turn' \in DOMAIN suites
<1>1. Entities' = Entities
  BY DEF Entities
<1>2. \A e \in Entities : e[1] \in 1 .. Len(suites)
  BY EntitiesAre
<1>3. Len(suites) \in Nat /\ turn \in 1 .. Len(suites)
  BY SuitesAre DEF IdsTyped
<1>4. CASE turn = Len(suites) /\ stage' = "check" /\ turn' = 1
  <2>1. \A e \in Entities : IsEntered(e)'
    BY <1>2, <1>3, <1>4
  <2> QED BY <1>1, <1>4, <2>1, ProceedIs DEF Entering
<1>5. CASE turn # Len(suites) /\ stage' = stage /\ turn' = turn + 1
  <2>1. \A e \in Entities : e[1] < turn + 1 => e[1] < turn \/ e[1] = turn
    BY <1>2, <1>3
  <2> QED BY <1>1, <1>5, <2>1, ProceedIs DEF Entering, Given
<1> QED BY <1>4, <1>5, ProceedIs

LEMMA ChooseKeeps == ASSUME Numbering, Choose PROVE Numbering'
<1> USE DEF Numbering
<1> DEFINE n == Len(suites[turn].ids)
           base == OpenIdBase(n)
           new == {base + i - 1 : i \in DOMAIN suites[turn].ids}
<1>1. stage = "choose" /\ UNCHANGED <<suites, typeBase, wanted, resolved>>
  BY DEF Choose
<1>2. Entities' = Entities
  BY <1>1 DEF Entities
<1>3. turn \in DOMAIN suites /\ n \in Nat /\ DOMAIN suites[turn].ids = 1 .. n
  BY SuitesAre DEF IdsTyped
<1>4. base \in Nat \ {0}
  BY <1>3, OpenBaseIsBase
<1>5. CASE Reject /\ UNCHANGED <<ids, bases, dictionary>>
  <2>1. IdsTyped' /\ Mapped'
    BY <1>1, <1>2, <1>5 DEF Reject, IdsTyped, Mapped
  <2>2. OwnApart' /\ Whole' /\ InReach'
    BY <1>1, <1>2, <1>5 DEF OwnApart, Whole, InReach, Static, Given
  <2>3. Leads' /\ Entering'
    BY <1>1, <1>2, <1>5 DEF Reject, Leads, Entering
  <2> QED BY <2>1, <2>2, <2>3
<1>6. CASE /\ bases[turn] # NoId \/ Static(suites[turn])
           /\ Proceed("check") /\ UNCHANGED <<ids, bases, dictionary>>
  <2>1. \A e \in Entities : IsEntered(e) => IsEntered(e)'
    BY <1>6 DEF IsEntered
  <2>2. \A e \in Entities : e[1] = turn => Given(ids[e])
    BY <1>6 DEF Whole
  <2>3. /\ \A e \in Entities : e[1] < turn \/ e[1] = turn => IsEntered(e)'
        /\ \A e \in Entities : Given(ids'[e]) => IsEntered(e)'
    BY <1>1, <1>6, <2>1, <2>2 DEF Entering
  <2>4. Entering' /\ stage' \in {"choose", "check"} /\ turn' \in DOMAIN suites
    BY <1>1, <1>6, <2>3, ChosenTurn
  <2>5. IdsTyped' /\ Mapped'
    BY <1>1, <1>2, <1>6, <2>4 DEF IdsTyped, Mapped
  <2>6. OwnApart' /\ Whole' /\ InReach' /\ Leads'
    BY <1>1, <1>2, <1>6 DEF OwnApart, Whole, InReach, Leads, Static, Given
  <2> QED BY <2>4, <2>5, <2>6
<1> DEFINE longer == [id \in DOMAIN dictionary \cup new |->
                        IF id \in new THEN <<turn, id - base + 1>> ELSE dictionary[id]]
<1>7. CASE /\ ~(bases[turn] # NoId \/ Static(suites[turn]))
           /\ Numberable(turn, base) /\ new \cap DOMAIN dictionary = {}
           /\ SetIdBase(turn, base) /\ dictionary' = longer
           /\ Proceed("check")
  <2>1. ids' = Numbered(turn, base) /\ bases' = [bases EXCEPT ![turn] = base]
    BY <1>7 DEF SetIdBase
  <2>2. /\ OwnApart' /\ Whole' /\ InReach'
        /\ \A id \in DOMAIN dictionary : ids'[dictionary[id]] = id
        /\ \A e \in Entities : e[1] = turn => ids[e] = NoId
    BY <1>1, <1>3, <1>4, <1>7, <2>1, NumberingKeeps
  <2>3. /\ \A e \in Entities : e[1] # turn => ids'[e] = ids[e]
        /\ \A e \in Entities : e[1] = turn => ids'[e] = base + e[2] - 1
        /\ ids' \in [Entities -> Nat \cup {NoId}]
    BY <1>3, <1>4, <2>1, NumberedIs
  <2>4. DOMAIN dictionary' = DOMAIN dictionary \cup new
    BY <1>7
  <2>5. \A id \in DOMAIN dictionary : dictionary'[id] = dictionary[id]
    BY <1>7
  <2>6. \A i \in 1 .. n : /\ <<turn, i>> \in Entities
                          /\ ids'[<<turn, i>>] = base + i - 1
                          /\ base + i - 1 \in new
                          /\ dictionary'[base + i - 1] = <<turn, i>>
    <3> TAKE i \in 1 .. n
    <3>1. <<turn, i>> \in Entities
      BY <1>3, EntitiesAre, SuitesAre
    <3>2. base + i - 1 \in new
      BY <1>3
    <3>3. (base + i - 1) - base + 1 = i
      BY <1>4
    <3>4. dictionary'[base + i - 1] = <<turn, (base + i - 1) - base + 1>>
      BY <1>7, <3>2
    <3>5. ids'[<<turn, i>>] = base + i - 1
      BY <2>3, <3>1
    <3> QED BY <3>1, <3>2, <3>3, <3>4, <3>5
  <2>7. \A e \in Entities : e[1] = turn => e = <<turn, e[2]>> /\ e[2] \in 1 .. n
    BY EntitiesAre
  <2>8. ASSUME NEW e \in Entities, e[1] = turn PROVE IsEntered(e)'
    <3>1. e = <<turn, e[2]>> /\ e[2] \in 1 .. n
      BY <2>7, <2>8
    <3> DEFINE i == e[2]
    <3>2. ids'[e] = base + i - 1 /\ base + i - 1 \in new /\ dictionary'[base + i - 1] = e
      BY <2>6, <3>1
    <3> HIDE DEF i, new, n, base, longer
    <3> QED BY <2>4, <3>2 DEF IsEntered
  <2>9. \A e \in Entities : e[1] # turn /\ IsEntered(e) => IsEntered(e)'
    BY <2>3, <2>4, <2>5 DEF IsEntered
  <2>10. /\ \A e \in Entities : e[1] < turn \/ e[1] = turn => IsEntered(e)'
         /\ \A e \in Entities : Given(ids'[e]) => IsEntered(e)'
    BY <1>1, <2>3, <2>8, <2>9 DEF Entering
  <2>11. Entering' /\ stage' \in {"choose", "check"} /\ turn' \in DOMAIN suites
    BY <1>1, <1>7, <2>10, ChosenTurn
  <2>12. Leads'
    <3> SUFFICES ASSUME NEW id \in DOMAIN dictionary'
                 PROVE  /\ id \in 1 .. MaxId /\ dictionary'[id] \in Entities
                        /\ ids'[dictionary'[id]] = id
      BY <1>2 DEF Leads
    <3>1. CASE id \in DOMAIN dictionary
      BY <2>2, <2>5, <3>1 DEF Leads
    <3>2. CASE id \in new
      <4>1. PICK i \in 1 .. n : id = base + i - 1
        BY <1>3, <3>2
      <4>2. id \in Nat \ {0} /\ id # NoId
        BY <1>4, <4>1, IdsAssumption
      <4>3. id <= MaxId
        BY <1>2, <2>2, <2>6, <4>1, <4>2 DEF InReach
      <4>4. id \in 1 .. MaxId
        BY <4>2, <4>3, IdsAssumption
      <4> HIDE DEF base, n
      <4> QED BY <2>6, <4>1, <4>4
    <3> QED BY <2>4, <3>1, <3>2
  <2>13. IdsTyped'
    BY <1>1, <1>2, <1>3, <1>4, <2>1, <2>3, <2>11 DEF IdsTyped
  <2>14. Mapped'
    BY <1>1, <2>11 DEF Mapped
  <2> QED BY <2>2, <2>11, <2>12, <2>13, <2>14
<1> QED BY <1>5, <1>6, <1>7 DEF Choose

LEMMA CheckLargestKeeps == ASSUME Numbering, CheckLargest PROVE Numbering'
<1> USE DEF Numbering
<1>1. /\ stage = "check" /\ stage' \in {"resolve", "rejected"}
      /\ UNCHANGED <<suites, typeBase, wanted, turn, ids, bases, dictionary, resolved>>
  BY DEF CheckLargest
<1>2. Entities' = Entities
  BY <1>1 DEF Entities
<1>3. IdsTyped' /\ Mapped'
  BY <1>1, <1>2 DEF IdsTyped, Mapped
<1>4. OwnApart' /\ Whole' /\ InReach' /\ Leads'
  BY <1>1, <1>2 DEF OwnApart, Whole, InReach, Leads, Static, Given
<1>5. Entering'
  BY <1>1, <1>2 DEF Entering, IsEntered
<1> QED BY <1>3, <1>4, <1>5

LEMMA ResolveKeeps ==
    ASSUME Numbering, NEW d \in Dependencies, Resolve(d) PROVE Numbering'
<1> USE DEF Numbering
<1>1. /\ stage = "resolve" /\ stage' \in {"resolve", "rejected"}
      /\ UNCHANGED <<suites, typeBase, wanted, turn, ids, bases, dictionary>>
  BY DEF Resolve
<1>2. Entities' = Entities
  BY <1>1 DEF Entities
<1>3. wanted[d][1] \in Entities
  BY DEF IdsTyped
<1>4. resolved' = resolved \/ resolved' = [resolved EXCEPT ![d] = ids[wanted[d][1]]]
  BY DEF Resolve
<1>5. resolved' \in [Dependencies -> Nat \cup {NoId}]
  BY <1>3, <1>4 DEF IdsTyped
<1>6. IdsTyped'
  BY <1>1, <1>2, <1>5 DEF IdsTyped
<1>7. Mapped'
  BY <1>1, <1>4 DEF IdsTyped, Mapped
<1>8. OwnApart' /\ Whole' /\ InReach' /\ Leads'
  BY <1>1, <1>2 DEF OwnApart, Whole, InReach, Leads, Static, Given
<1>9. Entering'
  BY <1>1, <1>2 DEF Entering, IsEntered
<1> QED BY <1>6, <1>7, <1>8, <1>9

LEMMA AllResolvedKeeps == ASSUME Numbering, AllResolved PROVE Numbering'
<1> USE DEF Numbering
<1>1. /\ stage = "resolve" /\ stage' = "numbered"
      /\ \A d \in Dependencies : resolved[d] # NoId
      /\ UNCHANGED <<suites, typeBase, wanted, turn, ids, bases, dictionary, resolved>>
  BY DEF AllResolved
<1>2. Entities' = Entities
  BY <1>1 DEF Entities
<1>3. IdsTyped' /\ Mapped'
  BY <1>1, <1>2 DEF IdsTyped, Mapped
<1>4. OwnApart' /\ Whole' /\ InReach' /\ Leads'
  BY <1>1, <1>2 DEF OwnApart, Whole, InReach, Leads, Static, Given
<1>5. Entering'
  BY <1>1, <1>2 DEF Entering, IsEntered
<1> QED BY <1>3, <1>4, <1>5

-----------------------------------------------------------------------------

\* A suite is loaded with ids for all or for none of its entities, each once.
LEMMA InitNumbering == IdsInit => Numbering
<1> SUFFICES ASSUME IdsInit PROVE Numbering
  OBVIOUS
<1>1. suites \in Declarations /\ Len(suites) \in Nat \ {0} /\ DOMAIN suites = 1 .. Len(suites)
  BY DeclarationsAssumption DEF IdsInit
<1>2. \A s \in DOMAIN suites : /\ suites[s].ids \in Seq(Nat \cup {NoId})
                               /\ SuiteLoads(suites[s])
  BY DeclarationsAssumption DEF IdsInit
<1>3. \A e \in Entities : /\ e = <<e[1], e[2]>> /\ e[1] \in DOMAIN suites
                          /\ e[2] \in DOMAIN suites[e[1]].ids
                          /\ ids[e] = suites[e[1]].ids[e[2]]
  BY DEF Entities, IdsInit
<1>4. \A e \in Entities : suites[e[1]].ids[e[2]] \in Nat \cup {NoId}
  BY <1>2, <1>3
<1>5. IdsTyped
  BY <1>1, <1>4 DEF IdsInit, IdsTyped
<1>6. OwnApart
  BY <1>2, <1>3 DEF OwnApart, SuiteLoads
<1>7. Whole
  BY <1>2, <1>3 DEF Whole, SuiteLoads, IdsInit
<1>8. InReach
  BY <1>2, <1>3 DEF InReach, SuiteLoads
<1>9. Leads /\ Entering /\ Mapped
  BY DEF IdsInit, Leads, Entering, Mapped
<1> QED BY <1>5, <1>6, <1>7, <1>8, <1>9 DEF Numbering

LEMMA StepKeepsNumbering == Numbering /\ [IdsNext]_idVars => Numbering'
<1> SUFFICES ASSUME Numbering, [IdsNext]_idVars PROVE Numbering'
  OBVIOUS
<1>1. CASE UNCHANGED idVars
  <2>1. UNCHANGED <<suites, typeBase, wanted, stage, turn, ids, bases, dictionary, resolved>>
    BY <1>1 DEF idVars
  <2>2. Entities' = Entities
    BY <2>1 DEF Entities
  <2>3. IdsTyped' /\ Mapped'
    BY <2>1, <2>2 DEF Numbering, IdsTyped, Mapped
  <2>4. OwnApart' /\ Whole' /\ InReach' /\ Leads' /\ Entering'
    BY <2>1, <2>2 DEF Numbering, OwnApart, Whole, InReach, Leads, Entering, IsEntered, Static, Given
  <2> QED BY <2>3, <2>4 DEF Numbering
<1> QED BY <1>1, SetGivenBaseKeeps, ReserveKeeps, ChooseKeeps, CheckLargestKeeps, ResolveKeeps,
           AllResolvedKeeps DEF IdsNext

LEMMA NumberingIsEnough == Numbering => IdsLeadBack /\ NoIdTwice
  BY DEF Numbering, Entering, IsEntered, Leads, Mapped, IdsLeadBack, NoIdTwice

\* Every entity of an assembly that loads is found under its own id, no two
\* have one in common, and a component asks for its data under the id of the
\* product it was mapped to (_generate_component_ids), for any suites.
THEOREM IdsAlwaysLeadBack == IdsSpec => [](IdsLeadBack /\ NoIdTwice)
<1> QED BY InitNumbering, StepKeepsNumbering, NumberingIsEnough, PTL DEF IdsSpec

-----------------------------------------------------------------------------
(* What an assembly is refused for.                                         *)

\* An id is the one that is written, or the place in the numbers from the base.
IdsFollow ==
    \A e \in Entities :
        ids[e] = IF Static(suites[e[1]]) \/ bases[e[1]] = NoId
                 THEN suites[e[1]].ids[e[2]] ELSE bases[e[1]] + e[2] - 1

\* Before any base is chosen the bases are those that are given, and what is
\* reserved is of the suites whose turn was.
GivenFirst ==
    /\ stage = "set" =>
        \A s \in DOMAIN suites : bases[s] = IF s < turn THEN suites[s].base ELSE NoId
    /\ stage = "reserve" =>
        /\ \A s \in DOMAIN suites : bases[s] = suites[s].base
        /\ \A id \in DOMAIN dictionary : dictionary[id][1] < turn

Refusing ==
    /\ \A s \in DOMAIN suites : SuiteLoads(suites[s])
    /\ IdsFollow /\ GivenFirst /\ RefusedForCause

-----------------------------------------------------------------------------
(* As long as the ids are few, a row of free ones begins low.               *)

\* Every base below the chosen one is blocked by an id, which blocks n at most.
LEMMA FewBlock ==
    ASSUME NEW held \in SUBSET Nat, IsFiniteSet(held), NEW n \in Nat,
           NEW low \in Nat, NEW base \in Nat, low <= base,
           \A b \in low .. base - 1 : held \cap (b .. b + n - 1) # {}
    PROVE  base <= low + n * Cardinality(held)
<1> DEFINE below == low .. base - 1
           place == [b \in below |-> LET id == CHOOSE id \in held \cap (b .. b + n - 1) : TRUE
                                     IN  <<id, id - b>>]
           places == held \X (0 .. n - 1)
<1>1. ASSUME NEW b \in below
      PROVE  /\ place[b] \in places
             /\ b = place[b][1] - place[b][2]
  <2> DEFINE id == CHOOSE id \in held \cap (b .. b + n - 1) : TRUE
  <2>1. id \in held \cap (b .. b + n - 1)
    OBVIOUS
  <2>2. place[b] = <<id, id - b>>
    OBVIOUS
  <2> HIDE DEF id, place
  <2>3. b \in Nat /\ id \in Nat /\ id - b \in 0 .. n - 1 /\ b = id - (id - b)
    BY <2>1
  <2> QED BY <2>1, <2>2, <2>3
<1>2. place \in Injection(below, places)
  <2>1. place \in [below -> places]
    BY <1>1
  <2>2. \A a, b \in below : place[a] = place[b] => a = b
    BY <1>1
  <2> QED BY <2>1, <2>2 DEF Injection, IsInjective
<1>3. IsFiniteSet(places) /\ Cardinality(places) = Cardinality(held) * n
  <2>1. IsFiniteSet(0 .. n - 1) /\ Cardinality(0 .. n - 1) = n
    BY FS_Interval
  <2> QED BY <2>1, FS_Product
<1>4. Cardinality(below) <= Cardinality(places)
  BY <1>2, <1>3, FS_Injection
<1>5. Cardinality(below) = base - low
  <2> DEFINE last == base - 1
  <2>1. low \in Int /\ last \in Int
    OBVIOUS
  <2> HIDE DEF last
  <2>2. Cardinality(low .. last) = IF low > last THEN 0 ELSE last - low + 1
    BY <2>1, FS_Interval
  <2> QED BY <2>2 DEF last
<1>6. Cardinality(held) \in Nat
  BY FS_CardinalityType
<1> HIDE DEF below, places
<1>7. base - low <= Cardinality(held) * n
  BY <1>3, <1>4, <1>5
<1>8. Cardinality(held) * n = n * Cardinality(held) /\ n * Cardinality(held) \in Nat
  BY <1>6
<1> QED BY <1>7, <1>8

\* There are finitely many entities.
LEMMA EntitiesAreFinite == ASSUME IdsTyped PROVE IsFiniteSet(Entities)
<1> DEFINE Of(s) == {s} \X DOMAIN suites[s].ids
           all == {Of(s) : s \in DOMAIN suites}
<1>1. IsFiniteSet(all)
  <2>1. IsFiniteSet(DOMAIN suites)
    BY SuitesAre, FS_Interval
  <2>2. [s \in DOMAIN suites |-> Of(s)] \in Surjection(DOMAIN suites, all)
    BY DEF Surjection
  <2> QED BY <2>1, <2>2, FS_Surjection
<1>2. \A S \in all : IsFiniteSet(S)
  <2> SUFFICES ASSUME NEW s \in DOMAIN suites PROVE IsFiniteSet(Of(s))
    OBVIOUS
  <2>1. IsFiniteSet(DOMAIN suites[s].ids)
    <3>1. DOMAIN suites[s].ids = 1 .. Len(suites[s].ids) /\ Len(suites[s].ids) \in Int
      BY SuitesAre
    <3> QED BY <3>1, FS_Interval
  <2> QED BY <2>1, FS_Singleton, FS_Product
<1>3. Entities = UNION all
  BY DEF Entities
<1> HIDE DEF all
<1> QED BY <1>1, <1>2, <1>3, FS_UNION

\* The ids that are taken before a suite without ids is numbered are of others.
LEMMA TakenByOthers ==
    ASSUME IdsTyped, Leads, NEW s \in DOMAIN suites, \A e \in EntitiesOf(s) : ids[e] = NoId
    PROVE  /\ IsFiniteSet(DOMAIN dictionary)
           /\ Cardinality(DOMAIN dictionary) <= Cardinality(Entities \ EntitiesOf(s))
           /\ Cardinality(DOMAIN dictionary) \in Nat
           /\ Cardinality(Entities \ EntitiesOf(s)) \in Nat
<1> DEFINE others == Entities \ EntitiesOf(s)
           owner == [id \in DOMAIN dictionary |-> dictionary[id]]
<1>1. IsFiniteSet(others)
  <2>1. others \in SUBSET Entities
    OBVIOUS
  <2> QED BY <2>1, EntitiesAreFinite, FS_Subset
<1>2. owner \in Injection(DOMAIN dictionary, others)
  <2>1. ASSUME NEW id \in DOMAIN dictionary
        PROVE  dictionary[id] \in others /\ ids[dictionary[id]] = id
    <3>1. dictionary[id] \in Entities /\ ids[dictionary[id]] = id /\ id \in Nat
      BY DEF Leads
    <3>2. NoId \notin Nat
      BY IdsAssumption
    <3> QED BY <3>1, <3>2
  <2>2. owner \in [DOMAIN dictionary -> others]
    BY <2>1
  <2>3. \A a, b \in DOMAIN dictionary : owner[a] = owner[b] => a = b
    BY <2>1
  <2> QED BY <2>2, <2>3 DEF Injection, IsInjective
<1>3. /\ IsFiniteSet(DOMAIN dictionary)
      /\ Cardinality(DOMAIN dictionary) <= Cardinality(others)
  <2> HIDE DEF others, owner
  <2> QED BY <1>1, <1>2, FS_Injection
<1> QED BY <1>1, <1>3, FS_CardinalityType

\* A suite without ids has room at the lowest open base, when all have room.
LEMMA RoomAtOpenBase ==
    ASSUME IdsTyped, Leads, RoomForAll, NEW s \in DOMAIN suites,
           \A e \in EntitiesOf(s) : ids[e] = NoId
    PROVE  OpenIdBase(Len(suites[s].ids)) + Len(suites[s].ids) - 1 <= MaxId
<1> DEFINE n == Len(suites[s].ids)
           base == OpenIdBase(n)
           held == DOMAIN dictionary
           others == Cardinality(Entities \ EntitiesOf(s))
<1>1. n \in Nat
  BY SuitesAre
<1> HIDE DEF n
<1>2. /\ base \in Nat /\ Lowest \in Nat /\ Lowest <= base
      /\ \A b \in Lowest .. base - 1 : held \cap (b .. b + n - 1) # {}
  BY <1>1, OpenBaseIsBase
<1>3. /\ IsFiniteSet(held) /\ Cardinality(held) <= others
      /\ Cardinality(held) \in Nat /\ others \in Nat
  BY TakenByOthers
<1>4. held \in SUBSET Nat
  BY DEF Leads
<1>5. Lowest + n * others + n - 1 <= MaxId
  BY DEF RoomForAll, n
<1> HIDE DEF base, held, others
<1>6. base <= Lowest + n * Cardinality(held)
  BY <1>1, <1>2, <1>3, <1>4, FewBlock
<1>7. n * Cardinality(held) <= n * others
  <2>1. \A a, b, c \in Nat : a <= b => c * a <= c * b
    OBVIOUS
  <2> QED BY <1>1, <1>3, <2>1
<1>8. n * Cardinality(held) \in Nat /\ n * others \in Nat /\ MaxId \in Nat
  BY <1>1, <1>3, IdsAssumption
<1>9. base + n - 1 <= MaxId
  BY <1>1, <1>2, <1>5, <1>6, <1>7, <1>8
<1> QED BY <1>9 DEF base, n

-----------------------------------------------------------------------------
LEMMA CauseStays == UNCHANGED <<suites, typeBase, wanted>> => (Cause <=> Cause')
  BY DEF Cause, Overlap, RoomForAll, Entities, EntitiesOf, Lowest

\* A suite is written with ids for all of its entities, or it has none but 0.
LEMMA UnwrittenId ==
    ASSUME IdsTyped, Refusing, NEW e \in Entities,
           ~Static(suites[e[1]]), bases[e[1]] = NoId, ids[e] # NoId
    PROVE  Cause
<1>1. ids[e] = suites[e[1]].ids[e[2]]
  BY DEF Refusing, IdsFollow
<1>2. e[2] \in DOMAIN suites[e[1]].ids
  BY EntitiesAre, SuitesAre
<1>3. suites[e[1]].ids[e[2]] = 0
  BY <1>1, <1>2 DEF Static, Given
<1> QED BY <1>3 DEF Cause

\* Numbering a suite keeps ids and bases together.
LEMMA FollowsNumbered ==
    ASSUME IdsTyped, IdsFollow, NEW s \in DOMAIN suites, NEW base \in Nat \ {0},
           ~Static(suites[s]), UNCHANGED suites,
           ids' = Numbered(s, base), bases' = [bases EXCEPT ![s] = base]
    PROVE  IdsFollow'
<1>1. Entities' = Entities
  BY DEF Entities
<1>2. base # NoId
  BY IdsAssumption
<1>3. \A e \in Entities : e[1] \in DOMAIN suites
  BY EntitiesAre, SuitesAre
<1>4. \A t \in DOMAIN suites : bases'[t] = IF t = s THEN base ELSE bases[t]
  BY DEF IdsTyped
<1>5. ASSUME NEW e \in Entities
      PROVE  ids'[e] = IF Static(suites[e[1]]) \/ bases'[e[1]] = NoId
                       THEN suites[e[1]].ids[e[2]] ELSE bases'[e[1]] + e[2] - 1
  <2>1. CASE e[1] = s
    BY <1>2, <1>3, <1>4, <2>1, NumberedIs
  <2>2. CASE e[1] # s
    BY <1>3, <1>4, <2>2, NumberedIs DEF IdsFollow
  <2> QED BY <2>1, <2>2
<1> QED BY <1>1, <1>5 DEF IdsFollow, Static, Given

\* What is kept by any step that keeps ids and bases, and rejects nothing.
LEMMA RefusingOf ==
    ASSUME Refusing, UNCHANGED <<suites, typeBase, wanted>>,
           IdsFollow', GivenFirst', stage' = "rejected" => Cause
    PROVE  Refusing'
<1>1. (\A s \in DOMAIN suites : SuiteLoads(suites[s]))'
  BY DEF Refusing, SuiteLoads, Static, Given
<1>2. RefusedForCause'
  BY CauseStays DEF RefusedForCause
<1> QED BY <1>1, <1>2 DEF Refusing

LEMMA UnnumberedStays ==
    ASSUME IdsFollow, UNCHANGED <<suites, ids, bases>> PROVE IdsFollow'
  BY DEF IdsFollow, Entities, Static, Given

LEMMA SetGivenBaseRefuses == ASSUME Numbering, Refusing, SetGivenBase PROVE Refusing'
<1> DEFINE base == suites[turn].base
<1>1. /\ IdsTyped /\ turn \in DOMAIN suites /\ IdsFollow /\ GivenFirst
      /\ stage = "set" /\ UNCHANGED <<suites, typeBase, wanted, dictionary>>
      /\ DOMAIN dictionary = {} /\ bases[turn] = NoId
      /\ \A s \in DOMAIN suites : s \in Nat
      /\ turn \in 1 .. Len(suites) /\ Len(suites) \in Nat
  BY SuitesAre DEF Numbering, IdsTyped, Refusing, SetGivenBase, Entering, GivenFirst
<1>2. ASSUME Proceed("reserve"),
             \A s \in DOMAIN suites : bases'[s] = IF s = turn THEN base ELSE bases[s]
      PROVE  GivenFirst' /\ stage' # "rejected"
  <2>1. \A s \in DOMAIN suites : bases[s] = IF s < turn THEN suites[s].base ELSE NoId
    BY <1>1 DEF GivenFirst
  <2>2. CASE turn = Len(suites)
    <3>1. \A s \in DOMAIN suites : s < turn \/ s = turn
      BY <1>1, <2>2, SuitesAre
    <3>2. stage' = "reserve"
      BY <1>2, <2>2 DEF Proceed
    <3> QED BY <1>1, <1>2, <2>1, <3>1, <3>2 DEF GivenFirst
  <2>3. CASE turn # Len(suites)
    <3>1. stage' = "set" /\ turn' = turn + 1
      BY <1>1, <1>2, <2>3 DEF Proceed
    <3>2. \A s \in DOMAIN suites : s < turn + 1 <=> s < turn \/ s = turn
      BY <1>1
    <3> QED BY <1>1, <1>2, <2>1, <3>1, <3>2 DEF GivenFirst
  <2> QED BY <2>2, <2>3
<1>3. CASE base = NoId
  <2>1. Proceed("reserve") /\ UNCHANGED <<ids, bases>>
    BY <1>3 DEF SetGivenBase
  <2>2. GivenFirst' /\ stage' # "rejected"
    BY <1>1, <1>2, <1>3, <2>1
  <2> QED BY <1>1, <2>1, <2>2, UnnumberedStays, RefusingOf
<1>4. CASE base # NoId
  <2>1. ~Static(suites[turn]) /\ base \in Nat \ {0}
    BY <1>1, <1>4, SuitesAre DEF Refusing, SuiteLoads
  <2>2. CASE Numberable(turn, base)
    <3>1. /\ ids' = Numbered(turn, base) /\ bases' = [bases EXCEPT ![turn] = base]
          /\ Proceed("reserve")
      BY <1>4, <2>1, <2>2 DEF SetGivenBase, SetIdBase
    <3>2. IdsFollow'
      BY <1>1, <2>1, <3>1, FollowsNumbered
    <3>3. \A s \in DOMAIN suites : bases'[s] = IF s = turn THEN base ELSE bases[s]
      BY <1>1, <3>1 DEF IdsTyped
    <3>4. GivenFirst' /\ stage' # "rejected"
      BY <1>2, <3>1, <3>3
    <3> QED BY <1>1, <3>2, <3>4, RefusingOf
  <2>3. CASE ~Numberable(turn, base)
    <3>1. stage' = "rejected" /\ UNCHANGED <<ids, bases>>
      BY <1>4, <2>3 DEF SetGivenBase, Reject
    <3>2. PICK e \in EntitiesOf(turn) : ids[e] # NoId \/ ~(Numbered(turn, base)[e] <= MaxId)
      BY <2>3 DEF Numberable
    <3>3. e \in Entities /\ e[1] = turn
      BY DEF EntitiesOf
    <3>4. CASE ids[e] # NoId
      <4>1. Cause
        BY <1>1, <2>1, <3>3, <3>4, UnwrittenId
      <4> QED BY <1>1, <3>1, <4>1, UnnumberedStays, RefusingOf DEF GivenFirst
    <3>5. CASE ~(Numbered(turn, base)[e] <= MaxId)
      <4>1. Numbered(turn, base)[e] = base + e[2] - 1 /\ base + e[2] - 1 \in Nat
        <5> HIDE DEF base
        <5>1. IdsTyped /\ turn \in DOMAIN suites /\ base \in Nat \ {0}
          BY <1>1, <2>1
        <5>2. /\ \A d \in Entities : d[1] = turn => Numbered(turn, base)[d] = base + d[2] - 1
              /\ \A d \in Entities : d[1] = turn => base + d[2] - 1 \in Nat \ {0}
          BY ONLY <5>1, NumberedIs
        <5> QED BY <3>3, <5>2
      <4>2. base + e[2] - 1 > MaxId
        BY <3>5, <4>1, IdsAssumption
      <4>3. Cause
        BY <1>4, <2>1, <3>3, <4>2 DEF Cause
      <4> QED BY <1>1, <3>1, <4>3, UnnumberedStays, RefusingOf DEF GivenFirst
    <3> QED BY <3>2, <3>4, <3>5
  <2> QED BY <2>2, <2>3
<1> QED BY <1>3, <1>4

LEMMA ReserveRefuses == ASSUME Numbering, Refusing, Reserve PROVE Refusing'
<1> DEFINE new == Known(turn)
<1>1. /\ IdsTyped /\ turn \in DOMAIN suites /\ IdsFollow /\ GivenFirst /\ Whole
      /\ stage = "reserve" /\ UNCHANGED <<suites, typeBase, wanted, ids, bases>>
      /\ \A s \in DOMAIN suites : bases[s] = suites[s].base
      /\ \A id \in DOMAIN dictionary : dictionary[id][1] < turn
      /\ turn \in Nat /\ IdsFollow'
  BY SuitesAre, UnnumberedStays DEF Numbering, IdsTyped, Refusing, Reserve, GivenFirst
<1>2. CASE {ids[e] : e \in new} \cap DOMAIN dictionary = {}
  <2>1. dictionary' = Entered(new) /\ Proceed("choose")
    BY <1>2 DEF Reserve
  <2>2. CASE stage' = "choose"
    BY <1>1, <2>2, RefusingOf DEF GivenFirst
  <2>3. CASE stage' # "choose"
    <3>1. stage' = "reserve" /\ turn' = turn + 1
      BY <1>1, <2>1, <2>3 DEF Proceed
    <3>2. ASSUME NEW id \in DOMAIN dictionary' PROVE dictionary'[id][1] < turn + 1
      <4>1. CASE id \in DOMAIN dictionary
        <5>1. dictionary'[id] = dictionary[id]
          BY <2>1, <4>1 DEF Entered
        <5>2. dictionary[id][1] < turn /\ dictionary[id][1] \in Nat
          BY <1>1, <4>1, EntitiesAre DEF Numbering, Leads
        <5> QED BY <1>1, <5>1, <5>2
      <4>2. CASE id \notin DOMAIN dictionary
        <5>1. id \in {ids[e] : e \in new} /\ dictionary'[id] = CHOOSE e \in new : ids[e] = id
          BY <2>1, <4>2 DEF Entered
        <5>2. dictionary'[id] \in new
          BY <5>1
        <5>3. dictionary'[id][1] = turn
          BY <5>2 DEF Known, EntitiesOf
        <5> QED BY <1>1, <5>3
      <4> QED BY <4>1, <4>2
    <3>3. GivenFirst'
      BY <1>1, <3>1, <3>2 DEF GivenFirst
    <3> QED BY <1>1, <3>1, <3>3, RefusingOf
  <2> QED BY <2>2, <2>3
<1>3. CASE {ids[e] : e \in new} \cap DOMAIN dictionary # {}
  <2>1. stage' = "rejected"
    BY <1>3 DEF Reserve, Reject
  <2>2. PICK e \in new : ids[e] \in DOMAIN dictionary
    BY <1>3
  <2>3. PICK f \in Entities : f[1] < turn /\ ids[f] = ids[e] /\ Given(ids[f])
    <3>1. dictionary[ids[e]] \in Entities /\ dictionary[ids[e]][1] < turn
          /\ ids[dictionary[ids[e]]] = ids[e]
      BY <1>1, <2>2 DEF Numbering, Leads
    <3>2. Given(ids[e])
      BY DEF Known
    <3> QED BY <3>1, <3>2
  <2>4. e \in Entities /\ e[1] = turn /\ Given(ids[e])
    BY DEF Known, EntitiesOf
  <2>5. CASE Cause
    BY <1>1, <2>1, <2>5, RefusingOf DEF GivenFirst
  <2>6. CASE ~Cause
    <3> DEFINE IdAt(u, k) == IF Static(suites[u]) THEN suites[u].ids[k] ELSE suites[u].base + k - 1
               IsGiven(u) == Static(suites[u]) \/ suites[u].base # NoId
    <3>1. ASSUME NEW g \in Entities, Given(ids[g])
          PROVE  /\ g[1] \in DOMAIN suites /\ g[2] \in DOMAIN suites[g[1]].ids
                 /\ IsGiven(g[1]) /\ ids[g] = IdAt(g[1], g[2])
      <4>1. g[1] \in DOMAIN suites /\ g[2] \in DOMAIN suites[g[1]].ids
        BY EntitiesAre, SuitesAre, <1>1
      <4>2. bases[g[1]] = suites[g[1]].base
        BY <1>1, <4>1
      <4>3. Static(suites[g[1]]) \/ bases[g[1]] # NoId
        BY <1>1, <2>6, <3>1, UnwrittenId DEF Given
      <4> QED BY <1>1, <4>1, <4>2, <4>3 DEF IdsFollow
    <3>2. <<f[1], f[2]>> # <<e[1], e[2]>>
      <4>1. f[1] # e[1]
        BY <1>1, <2>3, <2>4, EntitiesAre
      <4> QED BY <4>1
    <3>3. Overlap
      BY <2>3, <2>4, <3>1, <3>2 DEF Overlap
    <3> QED BY <2>6, <3>3 DEF Cause
  <2> QED BY <2>5, <2>6
<1> QED BY <1>2, <1>3

LEMMA ChooseRefuses == ASSUME Numbering, Refusing, Choose PROVE Refusing'
<1> DEFINE n == Len(suites[turn].ids)
           base == OpenIdBase(n)
           new == {base + i - 1 : i \in DOMAIN suites[turn].ids}
<1>1. /\ IdsTyped /\ Leads /\ turn \in DOMAIN suites /\ IdsFollow
      /\ stage = "choose" /\ UNCHANGED <<suites, typeBase, wanted>>
      /\ n \in Nat /\ DOMAIN suites[turn].ids = 1 .. n
  BY SuitesAre DEF Numbering, IdsTyped, Refusing, Choose
<1>2. base \in Nat \ {0} /\ DOMAIN dictionary \cap (base .. base + n - 1) = {}
  <2> HIDE DEF n
  <2> QED BY <1>1, OpenBaseIsBase
<1>3. Proceed("check") => GivenFirst' /\ stage' # "rejected"
  BY <1>1 DEF Proceed, GivenFirst
<1>4. CASE bases[turn] # NoId \/ Static(suites[turn])
  <2>1. Proceed("check") /\ UNCHANGED <<ids, bases>>
    BY <1>4 DEF Choose
  <2> QED BY <1>1, <1>3, <2>1, UnnumberedStays, RefusingOf
<1>5. CASE bases[turn] = NoId /\ ~Static(suites[turn])
  <2>1. CASE Numberable(turn, base) /\ new \cap DOMAIN dictionary = {}
    <3>1. SetIdBase(turn, base) /\ Proceed("check")
      BY <1>5, <2>1 DEF Choose
    <3>2. ids' = Numbered(turn, base) /\ bases' = [bases EXCEPT ![turn] = base]
      BY <1>5, <3>1 DEF SetIdBase
    <3>3. IdsFollow'
      <4> HIDE DEF base
      <4> QED BY <1>1, <1>2, <1>5, <3>2, FollowsNumbered
    <3> QED BY <1>1, <1>3, <3>1, <3>3, RefusingOf
  <2>2. CASE ~(Numberable(turn, base) /\ new \cap DOMAIN dictionary = {})
    <3>1. stage' = "rejected" /\ UNCHANGED <<ids, bases>>
      BY <1>5, <2>2 DEF Choose, Reject
    <3>2. Cause
      <4> SUFFICES ASSUME ~Cause PROVE FALSE
        OBVIOUS
      <4>1. \A e \in EntitiesOf(turn) : e \in Entities /\ e[1] = turn
        BY DEF EntitiesOf
      <4>2. \A e \in EntitiesOf(turn) : ids[e] = NoId
        BY <1>1, <1>5, <4>1, UnwrittenId
      <4>3. base + n - 1 <= MaxId
        <5>1. RoomForAll
          BY DEF Cause
        <5> QED BY <1>1, <4>2, <5>1, RoomAtOpenBase
      <4> HIDE DEF base
      <4>4. ASSUME NEW e \in EntitiesOf(turn) PROVE Numbered(turn, base)[e] <= MaxId
        <5>1. Numbered(turn, base)[e] = base + e[2] - 1
          BY <1>1, <1>2, <4>1, NumberedIs
        <5>2. e[2] \in 1 .. n
          BY <1>1, <4>1, EntitiesAre
        <5> HIDE DEF n
        <5> QED BY <1>1, <1>2, <4>3, <5>1, <5>2, IdsAssumption
      <4>5. Numberable(turn, base)
        BY <4>2, <4>4 DEF Numberable
      <4>6. new \subseteq base .. base + n - 1
        <5>1. \A i \in 1 .. n : base + i - 1 \in base .. base + n - 1
          <6> HIDE DEF n
          <6> QED BY <1>1, <1>2
        <5> QED BY <1>1, <5>1
      <4> QED BY <1>2, <2>2, <4>5, <4>6
    <3>3. GivenFirst'
      BY <3>1 DEF GivenFirst
    <3> QED BY <1>1, <3>1, <3>2, <3>3, UnnumberedStays, RefusingOf
  <2> QED BY <2>1, <2>2
<1> QED BY <1>4, <1>5

LEMMA CheckLargestRefuses == ASSUME Numbering, Refusing, CheckLargest PROVE Refusing'
<1>1. /\ stage = "check" /\ UNCHANGED <<suites, typeBase, wanted, turn, ids, bases, dictionary>>
      /\ stage' \in {"resolve", "rejected"} /\ IdsFollow' /\ GivenFirst'
  BY UnnumberedStays DEF CheckLargest, Refusing, GivenFirst
<1>2. stage' = "rejected" => Entities = {}
  <2> SUFFICES ASSUME stage' = "rejected", NEW e \in Entities PROVE FALSE
    OBVIOUS
  <2>1. ids[e] \in DOMAIN dictionary
    BY <1>1 DEF Numbering, Entering, IsEntered
  <2>2. MaxId \in Nat /\ DOMAIN dictionary \in SUBSET (0 .. MaxId)
    BY IdsAssumption DEF Numbering, Leads
  <2>3. Max(DOMAIN dictionary) <= MaxId
    <3> DEFINE held == DOMAIN dictionary
    <3>1. held # {} /\ held \in SUBSET (0 .. MaxId)
      BY <2>1, <2>2
    <3> HIDE DEF held
    <3>2. Max(held) \in held
      BY <2>2, <3>1, MaxIsLargest
    <3> QED BY <2>2, <3>1, <3>2 DEF held
  <2> QED BY <2>1, <2>3 DEF CheckLargest
<1> QED BY <1>1, <1>2, RefusingOf DEF Cause

LEMMA ResolveRefuses ==
    ASSUME Numbering, Refusing, NEW d \in Dependencies, Resolve(d) PROVE Refusing'
<1> DEFINE product == wanted[d][1]
<1>1. /\ stage = "resolve" /\ UNCHANGED <<suites, typeBase, wanted, turn, ids, bases, dictionary>>
      /\ stage' \in {"resolve", "rejected"} /\ IdsFollow' /\ GivenFirst'
  BY UnnumberedStays DEF Resolve, Refusing, GivenFirst
<1>2. product \in Entities
  BY DEF Numbering, IdsTyped
<1>3. ids[product] \in DOMAIN dictionary /\ dictionary[ids[product]] = product
  BY <1>1, <1>2 DEF Numbering, Entering, IsEntered
<1>4. stage' = "rejected" => wanted[d][2] # suites[product[1]].types[product[2]]
  BY <1>1, <1>3 DEF Resolve
<1> QED BY <1>1, <1>4, RefusingOf DEF Cause

LEMMA InitRefuses == IdsInit => Refusing
<1> SUFFICES ASSUME IdsInit PROVE Refusing
  OBVIOUS
<1>1. /\ turn = 1 /\ stage = "set" /\ \A s \in DOMAIN suites : bases[s] = NoId
      /\ \A e \in Entities : ids[e] = suites[e[1]].ids[e[2]]
      /\ \A s \in DOMAIN suites : SuiteLoads(suites[s])
  BY DEF IdsInit
<1>2. IdsTyped
  BY InitNumbering DEF Numbering
<1>3. \A s \in DOMAIN suites : ~(s < 1)
  BY <1>2, SuitesAre
<1>4. \A e \in Entities : e[1] \in DOMAIN suites
  BY <1>2, EntitiesAre, SuitesAre
<1> QED BY <1>1, <1>3, <1>4 DEF Refusing, IdsFollow, GivenFirst, RefusedForCause

LEMMA StepKeepsRefusing == Numbering /\ Refusing /\ [IdsNext]_idVars => Refusing'
<1> SUFFICES ASSUME Numbering, Refusing, [IdsNext]_idVars PROVE Refusing'
  OBVIOUS
<1>1. CASE AllResolved
  <2>1. UNCHANGED <<suites, typeBase, wanted, ids, bases>> /\ stage' = "numbered"
    BY <1>1 DEF AllResolved
  <2>2. IdsFollow' /\ GivenFirst'
    BY <2>1, UnnumberedStays DEF Refusing, GivenFirst
  <2> QED BY <2>1, <2>2, RefusingOf
<1>2. CASE UNCHANGED idVars
  <2>1. UNCHANGED <<suites, typeBase, wanted, stage, turn, ids, bases, dictionary>>
    BY <1>2 DEF idVars
  <2>2. IdsFollow' /\ GivenFirst'
    BY <2>1, UnnumberedStays DEF Refusing, GivenFirst
  <2> QED BY <2>1, <2>2, RefusingOf DEF Refusing, RefusedForCause
<1> QED BY <1>1, <1>2, SetGivenBaseRefuses, ReserveRefuses, ChooseRefuses, CheckLargestRefuses,
           ResolveRefuses DEF IdsNext

\* However many suites an assembly has (assembly._generate_component_ids), it
\* is refused for what is written in it alone: as long as there is room, no
\* base that is chosen gets in the way of an id.
THEOREM RefusalsHaveCauses == IdsSpec => []RefusedForCause
<1>1. IdsInit => Numbering /\ Refusing
  BY InitNumbering, InitRefuses
<1>2. Numbering /\ Refusing /\ [IdsNext]_idVars => (Numbering /\ Refusing)'
  BY StepKeepsNumbering, StepKeepsRefusing
<1>3. Refusing => RefusedForCause
  BY DEF Refusing
<1> QED BY <1>1, <1>2, <1>3, PTL DEF IdsSpec

-----------------------------------------------------------------------------
(* TypeRanges: the ranges that packed types share.                         *)

\* The load of a packed type, before and after it has come to the cache.
Loads == [type : PackedTypes, at : {"Parts", "Cache", "Run", "Save"}, parts : Seq(PackedTypes),
          left : Seq(Names), from : SUBSET PackedTypes]

\* What programs may report, and what the database and a process keep of it.
Reports == {Report(t, n) : t \in PackedTypes, n \in Names}
KeptReports == [range : Reports, by : PackedTypes]
Ranges == [PackedTypes -> [Names -> Reports \cup {NoRange}]]

RangesTyped ==
    /\ shared \in [Names -> KeptReports \cup {NoRange}]
    /\ loading \in [Generators -> Seq(Loads)]
    /\ loaded \in [Generators -> SUBSET PackedTypes]
    /\ ranges \in [Generators -> Ranges]
    /\ follows \in [Generators -> SUBSET PackedTypes]

\* What the cache keeps of a name is what a program reports that uses it, and
\* that may share it.
KeptRight ==
    \A n \in Names : shared[n] # NoRange =>
        /\ n \in Used(shared[n].by) /\ Cacheable(shared[n].by, n)
        /\ shared[n].range = Report(shared[n].by, n)

\* The report of u follows the declaration that t means by n.
Tells(u, t, n) == n \in Used(u) /\ Declaration(u, n) = Declaration(t, n)

\* The field is set, and a report is among these that tells it.
Told(t, n, own, reports) ==
    own[t][n] = Report(t, n) /\ \E u \in reports : Tells(u, t, n)

\* What a process holds of a field is the field's own range, also of a type
\* that the cache has served in part.
OwnRight(own) == \A t \in PackedTypes : \A n \in Names : own[t][n] \in {NoRange, Report(t, n)}

\* The cache has told each field of the load that is not left.
Served(load, own) ==
    \A n \in Used(load.type) :
        (\E i \in DOMAIN load.left : load.left[i] = n) \/ Told(load.type, n, own, load.from)

\* A load that has come to the cache is served in part; one whose program has
\* run depends on its report.
TopRight(load, own, reports) ==
    /\ load.at = "Cache" =>
           Served(load, own) /\ \A i \in DOMAIN load.left : load.left[i] \in Used(load.type)
    /\ load.at = "Save" => load.type \in reports

\* Of the loads of a process only the innermost has come to the cache.
AtParts(stack) == \A i \in 1 .. Len(stack) : stack[i].at = "Parts"

\* What is true of the loads, types, ranges and reports of one process.
ProcessRight(stack, done, own, reports) ==
    /\ OwnRight(own)
    /\ stack # <<>> => TopRight(Head(stack), own, reports) /\ AtParts(Tail(stack))
    /\ \A t \in done : \A n \in Used(t) : Told(t, n, own, reports)

\* The inductive invariant.
RangesKept ==
    /\ RangesTyped /\ KeptRight
    /\ \A p \in Generators : ProcessRight(loading[p], loaded[p], ranges[p], follows[p])

-----------------------------------------------------------------------------

\* The fields of a type have names.
LEMMA UsedAreNames ==
    ASSUME RangesAssumption, NEW t \in PackedTypes PROVE Used(t) \subseteq Names
  BY DEF RangesAssumption, Used

\* Who may share a name means the same by it.
LEMMA SharedAlike ==
    ASSUME RangesAssumption, NEW t \in PackedTypes, NEW u \in PackedTypes,
           NEW n \in Used(t) \cap Used(u), Cacheable(t, n), Cacheable(u, n)
    PROVE  Report(u, n) = Report(t, n) /\ Declaration(u, n) = Declaration(t, n)
<1>1. Letter[t][n] = Letter[u][n]
  BY DEF RangesAssumption
<1>2. n \notin Preamble[t] /\ n \notin Preamble[u]
  BY DEF RangesAssumption, Cacheable
<1> QED BY <1>1, <1>2 DEF Report, Declaration

\* The innermost load and those around it.
LEMMA TopIs ==
    ASSUME NEW stack \in Seq(Loads), stack # <<>>
    PROVE  Head(stack) \in Loads /\ Tail(stack) \in Seq(Loads)
  OBVIOUS

\* A load begins inside the others.
LEMMA OnTop ==
    ASSUME NEW load \in Loads, NEW rest \in Seq(Loads)
    PROVE  /\ <<load>> \o rest \in Seq(Loads) /\ <<load>> \o rest # <<>>
           /\ Head(<<load>> \o rest) = load /\ Tail(<<load>> \o rest) = rest
           /\ load.at = "Parts" /\ AtParts(rest) => AtParts(<<load>> \o rest)
<1> DEFINE whole == <<load>> \o rest
<1>1. <<load>> \in Seq(Loads)
  OBVIOUS
<1>2. whole \in Seq(Loads) /\ whole # <<>> /\ Len(whole) = 1 + Len(rest)
  BY <1>1
<1>3. Head(whole) = load /\ whole[1] = load
  BY <1>1
<1>4. Tail(whole) = rest
  BY <1>1, <1>2
<1>5. \A i \in 2 .. Len(whole) : whole[i] = rest[i - 1]
  BY <1>1, <1>2
<1>6. ASSUME load.at = "Parts", AtParts(rest) PROVE AtParts(whole)
  <2> SUFFICES ASSUME NEW i \in 1 .. Len(whole) PROVE whole[i].at = "Parts"
    BY DEF AtParts
  <2>1. CASE i = 1
    BY <1>3, <1>6, <2>1
  <2>2. CASE i # 1
    <3>1. i \in 2 .. Len(whole) /\ i - 1 \in 1 .. Len(rest)
      BY <1>2, <2>2
    <3> QED BY <1>5, <1>6, <3>1 DEF AtParts
  <2> QED BY <2>1, <2>2
<1> QED BY <1>2, <1>3, <1>4, <1>6

\* A load begins with its parts.
LEMMA FreshLoad ==
    ASSUME RangesAssumption, NEW t \in PackedTypes
    PROVE  Load(t) \in Loads /\ Load(t).at = "Parts"
<1>1. Parts[t] \in Seq(PackedTypes)
  BY DEF RangesAssumption
<1> QED BY <1>1 DEF Load, Loads

\* A step of one process that keeps it right, and the cache, keeps all.
LEMMA OneProcess ==
    ASSUME RangesKept, NEW p \in Generators,
           shared' \in [Names -> KeptReports \cup {NoRange}], KeptRight',
           NEW stack \in Seq(Loads), NEW done \in SUBSET PackedTypes, NEW own \in Ranges,
           NEW reports \in SUBSET PackedTypes,
           ProcessRight(stack, done, own, reports),
           loading' = [loading EXCEPT ![p] = stack], loaded' = [loaded EXCEPT ![p] = done],
           ranges' = [ranges EXCEPT ![p] = own], follows' = [follows EXCEPT ![p] = reports]
    PROVE  RangesKept'
<1> USE DEF RangesKept
<1>1. RangesTyped'
  BY DEF RangesTyped
<1>2. ASSUME NEW q \in Generators
      PROVE  ProcessRight(loading'[q], loaded'[q], ranges'[q], follows'[q])
  <2>1. CASE q = p
    BY <2>1 DEF RangesTyped
  <2>2. CASE q # p
    BY <2>2 DEF RangesTyped
  <2> QED BY <2>1, <2>2
<1> QED BY <1>1, <1>2

\* What is known of the process whose innermost load goes on.
LEMMA TopKnown ==
    ASSUME RangesKept, NEW p \in Generators, loading[p] # <<>>
    PROVE  /\ Inner(p) \in Loads /\ Tail(loading[p]) \in Seq(Loads) /\ AtParts(Tail(loading[p]))
           /\ OwnRight(ranges[p]) /\ TopRight(Inner(p), ranges[p], follows[p])
           /\ loaded[p] \in SUBSET PackedTypes /\ ranges[p] \in Ranges
           /\ follows[p] \in SUBSET PackedTypes
           /\ \A t \in loaded[p] : \A n \in Used(t) : Told(t, n, ranges[p], follows[p])
<1>1. loading[p] \in Seq(Loads)
  BY DEF RangesKept, RangesTyped
<1> QED BY <1>1, TopIs DEF RangesKept, RangesTyped, ProcessRight, Inner

\* A step that changes only the loads of one process.
LEMMA LoadsOnly ==
    ASSUME RangesKept, NEW p \in Generators, NEW stack \in Seq(Loads),
           loading' = [loading EXCEPT ![p] = stack], UNCHANGED <<shared, loaded, ranges, follows>>,
           stack # <<>> => TopRight(Head(stack), ranges[p], follows[p]) /\ AtParts(Tail(stack))
    PROVE  RangesKept'
<1>1. ProcessRight(stack, loaded[p], ranges[p], follows[p])
  BY DEF RangesKept, ProcessRight
<1>2. /\ loaded' = [loaded EXCEPT ![p] = loaded[p]] /\ ranges' = [ranges EXCEPT ![p] = ranges[p]]
      /\ follows' = [follows EXCEPT ![p] = follows[p]]
  BY DEF RangesKept, RangesTyped
<1>3. shared' \in [Names -> KeptReports \cup {NoRange}] /\ KeptRight'
  BY DEF RangesKept, RangesTyped, KeptRight
<1>4. /\ loaded[p] \in SUBSET PackedTypes /\ ranges[p] \in Ranges /\ follows[p] \in SUBSET PackedTypes
  BY DEF RangesKept, RangesTyped
<1> QED BY <1>1, <1>2, <1>3, <1>4, OneProcess

\* A process begins to load a type.
LEMMA BeginKept ==
    ASSUME RangesAssumption, RangesKept, NEW p \in Generators, NEW t \in PackedTypes, Begin(p, t)
    PROVE  RangesKept'
<1> DEFINE stack == <<Load(t)>>
<1>1. stack \in Seq(Loads) /\ Head(stack).at = "Parts" /\ Tail(stack) = <<>>
  BY FreshLoad
<1>2. TopRight(Head(stack), ranges[p], follows[p]) /\ AtParts(Tail(stack))
  BY <1>1 DEF TopRight, AtParts
<1>3. loading' = [loading EXCEPT ![p] = stack] /\ UNCHANGED <<shared, loaded, ranges, follows>>
  BY DEF Begin
<1> HIDE DEF stack
<1> QED BY <1>1, <1>2, <1>3, LoadsOnly

\* A record whose part is loaded already goes on to the next, and otherwise
\* waits below the load of the part.
LEMMA LoadPartKept ==
    ASSUME RangesAssumption, RangesKept, NEW p \in Generators, LoadPart(p) PROVE RangesKept'
<1> DEFINE top == Inner(p)
           part == Head(top.parts)
           less == [top EXCEPT !.parts = Tail(@)]
           rest == <<less>> \o Tail(loading[p])
           stack == IF part \in loaded[p] THEN rest ELSE <<Load(part)>> \o rest
<1>1. loading[p] # <<>> /\ top.at = "Parts" /\ top.parts # <<>>
  BY DEF LoadPart, LoadAt
<1>2. top \in Loads /\ Tail(loading[p]) \in Seq(Loads) /\ AtParts(Tail(loading[p]))
  BY <1>1, TopKnown
<1>3. loading' = [loading EXCEPT ![p] = stack] /\ UNCHANGED <<shared, loaded, ranges, follows>>
  BY DEF LoadPart
<1>4. part \in PackedTypes /\ Tail(top.parts) \in Seq(PackedTypes)
  BY <1>1, <1>2 DEF Loads
<1>5. less \in Loads /\ less.at = "Parts"
  BY <1>1, <1>2, <1>4 DEF Loads
<1>6. rest \in Seq(Loads) /\ rest # <<>> /\ Head(rest) = less /\ Tail(rest) = Tail(loading[p])
  BY <1>2, <1>5, OnTop
<1>7. AtParts(rest)
  BY <1>2, <1>5, OnTop
<1>8. CASE part \in loaded[p]
  <2>1. TopRight(Head(rest), ranges[p], follows[p])
    BY <1>5, <1>6 DEF TopRight
  <2>2. loading' = [loading EXCEPT ![p] = rest]
    BY <1>3, <1>8
  <2> HIDE DEF rest
  <2> QED BY <1>2, <1>3, <1>6, <2>1, <2>2, LoadsOnly
<1>9. CASE part \notin loaded[p]
  <2> DEFINE above == <<Load(part)>> \o rest
  <2>1. Load(part) \in Loads /\ Load(part).at = "Parts"
    BY <1>4, FreshLoad
  <2>2. loading' = [loading EXCEPT ![p] = above]
    BY <1>3, <1>9
  <2> HIDE DEF rest
  <2>3. above \in Seq(Loads) /\ Head(above) = Load(part) /\ Tail(above) = rest
    BY <1>6, <2>1, OnTop
  <2>4. TopRight(Head(above), ranges[p], follows[p])
    BY <2>1, <2>3 DEF TopRight
  <2> HIDE DEF above
  <2> QED BY <1>3, <1>7, <2>2, <2>3, <2>4, LoadsOnly
<1> QED BY <1>8, <1>9

\* The innermost load goes on as another one.
LEMMA BecomesKept ==
    ASSUME RangesKept, NEW p \in Generators, loading[p] # <<>>, NEW load \in Loads, Becomes(p, load),
           UNCHANGED <<shared, loaded, ranges, follows>>, TopRight(load, ranges[p], follows[p])
    PROVE  RangesKept'
<1> DEFINE stack == <<load>> \o Tail(loading[p])
<1>1. Tail(loading[p]) \in Seq(Loads) /\ AtParts(Tail(loading[p]))
  BY TopKnown
<1>2. stack \in Seq(Loads) /\ Head(stack) = load /\ Tail(stack) = Tail(loading[p])
  BY <1>1, OnTop
<1>3. loading' = [loading EXCEPT ![p] = stack]
  BY DEF Becomes
<1> HIDE DEF stack
<1> QED BY <1>1, <1>2, <1>3, LoadsOnly

\* All of its parts are loaded: every field is left to the cache.
LEMMA AskCacheKept ==
    ASSUME RangesAssumption, RangesKept, NEW p \in Generators, AskCache(p) PROVE RangesKept'
<1> DEFINE top == Inner(p)
           load == [top EXCEPT !.at = "Cache", !.left = Validated[top.type]]
<1>1. loading[p] # <<>> /\ Becomes(p, load) /\ UNCHANGED <<shared, loaded, ranges, follows>>
  BY DEF AskCache, LoadAt
<1>2. top \in Loads
  BY <1>1, TopKnown
<1>3. Validated[top.type] \in Seq(Names)
  BY <1>2 DEF RangesAssumption, Loads
<1>4. load \in Loads /\ load.at = "Cache" /\ load.left = Validated[load.type]
  BY <1>2, <1>3 DEF Loads
<1>5. TopRight(load, ranges[p], follows[p])
  BY <1>4 DEF TopRight, Served, Used
<1> HIDE DEF load
<1> QED BY <1>1, <1>4, <1>5, BecomesKept

\* A name that the cache cannot tell.
LEMMA MissKept ==
    ASSUME RangesKept, NEW p \in Generators, Miss(p) PROVE RangesKept'
<1> DEFINE load == [Inner(p) EXCEPT !.at = "Run"]
<1>1. loading[p] # <<>> /\ Becomes(p, load) /\ UNCHANGED <<shared, loaded, ranges, follows>>
  BY DEF Miss, LoadAt
<1>2. Inner(p) \in Loads
  BY <1>1, TopKnown
<1>3. load \in Loads /\ load.at = "Run"
  BY <1>2 DEF Loads
<1>4. TopRight(load, ranges[p], follows[p])
  BY <1>3 DEF TopRight
<1> HIDE DEF load
<1> QED BY <1>1, <1>3, <1>4, BecomesKept

\* What is told stays told when fields are set right and reports are added.
LEMMA ToldStays ==
    ASSUME NEW t, NEW n, NEW own, NEW reports, Told(t, n, own, reports),
           NEW others, NEW more, own[t][n] = others[t][n] \/ others[t][n] = Report(t, n),
           reports \subseteq more
    PROVE  Told(t, n, others, more)
  BY DEF Told

\* What a process has loaded stays told.
LEMMA LoadedStay ==
    ASSUME RangesAssumption, RangesKept, NEW p \in Generators, loading[p] # <<>>,
           NEW own \in Ranges,
           \A t \in PackedTypes, n \in Names :
               own[t][n] = ranges[p][t][n] \/ own[t][n] = Report(t, n),
           NEW reports, follows[p] \subseteq reports
    PROVE  \A t \in loaded[p] : \A n \in Used(t) : Told(t, n, own, reports)
<1> SUFFICES ASSUME NEW t \in loaded[p], NEW n \in Used(t) PROVE Told(t, n, own, reports)
  OBVIOUS
<1>1. Told(t, n, ranges[p], follows[p]) /\ t \in PackedTypes
  BY TopKnown
<1>2. n \in Names
  BY <1>1, UsedAreNames
<1> QED BY <1>1, <1>2, ToldStays

\* The innermost load goes on, with a field that is set or a report more.
LEMMA GoesOn ==
    ASSUME RangesAssumption, RangesKept, NEW p \in Generators, loading[p] # <<>>,
           NEW load \in Loads, Becomes(p, load), NEW own \in Ranges, OwnRight(own),
           \A t \in PackedTypes, n \in Names :
               own[t][n] = ranges[p][t][n] \/ own[t][n] = Report(t, n),
           NEW reports \in SUBSET PackedTypes, follows[p] \subseteq reports,
           TopRight(load, own, reports), UNCHANGED <<shared, loaded>>,
           ranges' = [ranges EXCEPT ![p] = own], follows' = [follows EXCEPT ![p] = reports]
    PROVE  RangesKept'
<1> DEFINE stack == <<load>> \o Tail(loading[p])
<1>1. Tail(loading[p]) \in Seq(Loads) /\ AtParts(Tail(loading[p]))
  BY TopKnown
<1>2. stack \in Seq(Loads) /\ Head(stack) = load /\ Tail(stack) = Tail(loading[p])
  BY <1>1, OnTop
<1>3. loading' = [loading EXCEPT ![p] = stack]
  BY DEF Becomes
<1> HIDE DEF stack
<1>4. \A t \in loaded[p] : \A n \in Used(t) : Told(t, n, own, reports)
  BY LoadedStay
<1>5. ProcessRight(stack, loaded[p], own, reports)
  BY <1>1, <1>2, <1>4 DEF ProcessRight
<1>6. shared' \in [Names -> KeptReports \cup {NoRange}] /\ KeptRight'
  BY DEF RangesKept, RangesTyped, KeptRight
<1>7. loaded[p] \in SUBSET PackedTypes /\ loaded' = [loaded EXCEPT ![p] = loaded[p]]
  BY DEF RangesKept, RangesTyped
<1> QED BY <1>2, <1>3, <1>5, <1>6, <1>7, OneProcess

\* The innermost load is over, with each of its fields told.
LEMMA IsOver ==
    ASSUME RangesAssumption, RangesKept, NEW p \in Generators, loading[p] # <<>>,
           Leave(p), NEW own \in Ranges, OwnRight(own),
           \A t \in PackedTypes, n \in Names :
               own[t][n] = ranges[p][t][n] \/ own[t][n] = Report(t, n),
           NEW reports \in SUBSET PackedTypes, follows[p] \subseteq reports,
           \A n \in Used(Inner(p).type) : Told(Inner(p).type, n, own, reports),
           shared' \in [Names -> KeptReports \cup {NoRange}], KeptRight',
           ranges' = [ranges EXCEPT ![p] = own], follows' = [follows EXCEPT ![p] = reports]
    PROVE  RangesKept'
<1> DEFINE stack == Tail(loading[p])
           done == loaded[p] \cup {Inner(p).type}
<1>1. stack \in Seq(Loads) /\ AtParts(stack) /\ Inner(p) \in Loads /\ loaded[p] \in SUBSET PackedTypes
  BY TopKnown
<1>2. loading' = [loading EXCEPT ![p] = stack] /\ loaded' = [loaded EXCEPT ![p] = done]
  BY DEF Leave
<1>3. done \in SUBSET PackedTypes
  BY <1>1 DEF Loads
<1>4. \A t \in done : \A n \in Used(t) : Told(t, n, own, reports)
  BY LoadedStay
<1> HIDE DEF stack, done
<1>5. stack # <<>> => TopRight(Head(stack), own, reports) /\ AtParts(Tail(stack))
  <2> SUFFICES ASSUME stack # <<>>
               PROVE  TopRight(Head(stack), own, reports) /\ AtParts(Tail(stack))
    OBVIOUS
  <2>1. Len(stack) >= 1 /\ Head(stack) = stack[1]
    BY <1>1
  <2>2. Head(stack).at = "Parts"
    BY <1>1, <2>1 DEF AtParts
  <2>3. \A i \in 1 .. Len(Tail(stack)) : i + 1 \in 1 .. Len(stack) /\ Tail(stack)[i] = stack[i + 1]
    BY <1>1
  <2> QED BY <1>1, <2>2, <2>3 DEF TopRight, AtParts
<1>6. ProcessRight(stack, done, own, reports)
  BY <1>4, <1>5 DEF ProcessRight
<1> QED BY <1>1, <1>2, <1>3, <1>6, OneProcess

\* The cache tells a field by the report of another type, which means the same
\* by the name as it may share it.
LEMMA HitKept ==
    ASSUME RangesAssumption, RangesKept, NEW p \in Generators, Hit(p) PROVE RangesKept'
<1> DEFINE top == Inner(p)
           t == top.type
           n == Head(top.left)
           u == shared[n].by
           own == [ranges[p] EXCEPT ![t][n] = shared[n].range]
           load == [top EXCEPT !.left = Tail(@), !.from = @ \cup {u}]
<1>1. /\ loading[p] # <<>> /\ top.at = "Cache" /\ top.left # <<>> /\ Cacheable(t, n) /\ shared[n] # NoRange
      /\ ranges' = [ranges EXCEPT ![p][t][n] = shared[n].range]
      /\ Becomes(p, load) /\ UNCHANGED <<shared, loaded, follows>>
  BY DEF Hit, LoadAt
<1>2. /\ top \in Loads /\ OwnRight(ranges[p]) /\ TopRight(top, ranges[p], follows[p])
      /\ ranges[p] \in Ranges
  BY <1>1, TopKnown
<1>3. t \in PackedTypes /\ top.left \in Seq(Names) /\ n \in Names /\ Tail(top.left) \in Seq(Names)
  BY <1>1, <1>2 DEF Loads
<1>4. u \in PackedTypes /\ n \in Used(u) /\ Cacheable(u, n) /\ shared[n].range = Report(u, n)
  BY <1>1, <1>3 DEF RangesKept, RangesTyped, KeptRight, KeptReports
<1>5. n \in Used(t) /\ Served(top, ranges[p])
  BY <1>1, <1>2, <1>3 DEF TopRight
<1>6. shared[n].range = Report(t, n) /\ Tells(u, t, n)
  BY <1>1, <1>3, <1>4, <1>5, SharedAlike DEF Tells
<1>7. own \in Ranges /\ ranges' = [ranges EXCEPT ![p] = own]
  <2>1. shared[n].range \in Reports
    BY <1>3, <1>6 DEF Reports
  <2>2. own \in Ranges
    BY <1>2, <1>3, <2>1 DEF Ranges
  <2> QED BY <1>1, <2>2
<1>8. /\ own[t][n] = Report(t, n)
      /\ \A s \in PackedTypes, m \in Names : own[s][m] = ranges[p][s][m] \/ own[s][m] = Report(s, m)
  <2>1. own[t][n] = Report(t, n)
    BY <1>2, <1>3, <1>6 DEF Ranges
  <2>2. ASSUME NEW s \in PackedTypes, NEW m \in Names
        PROVE  own[s][m] = ranges[p][s][m] \/ own[s][m] = Report(s, m)
    <3>1. CASE s = t /\ m = n
      BY <2>1, <3>1
    <3>2. CASE ~(s = t /\ m = n)
      BY <1>2, <1>3, <3>2 DEF Ranges
    <3> QED BY <3>1, <3>2
  <2> QED BY <2>1, <2>2
<1>9. OwnRight(own)
  BY <1>2, <1>8 DEF OwnRight
<1>10. load \in Loads /\ load.type = t /\ load.at = "Cache" /\ load.left = Tail(top.left)
       /\ load.from = top.from \cup {u}
  BY <1>1, <1>2, <1>3, <1>4 DEF Loads
<1>11. Served(load, own)
  <2> SUFFICES ASSUME NEW m \in Used(t), ~ \E i \in DOMAIN load.left : load.left[i] = m
               PROVE  Told(t, m, own, load.from)
    BY <1>10 DEF Served
  <2>1. CASE m = n
    BY <1>6, <1>8, <1>10, <2>1 DEF Told
  <2>2. CASE m # n
    <3>1. ~ \E i \in DOMAIN top.left : top.left[i] = m
      <4> SUFFICES ASSUME NEW i \in DOMAIN top.left, top.left[i] = m PROVE FALSE
        OBVIOUS
      <4>1. i # 1
        BY <1>1, <1>3, <2>2
      <4>2. i - 1 \in DOMAIN Tail(top.left) /\ Tail(top.left)[i - 1] = m
        <5> DEFINE seq == top.left
        <5>1. seq \in Seq(Names) /\ seq # <<>> /\ i \in DOMAIN seq /\ i # 1 /\ seq[i] = m
          BY <1>1, <1>3, <4>1
        <5> HIDE DEF seq
        <5>2. i - 1 \in DOMAIN Tail(seq) /\ Tail(seq)[i - 1] = seq[i]
          BY ONLY <5>1
        <5> QED BY <5>1, <5>2 DEF seq
      <4> QED BY <1>10, <4>2
    <3>2. Told(t, m, ranges[p], top.from)
      BY <1>5, <3>1 DEF Served
    <3>3. m \in Names
      BY <1>3, UsedAreNames
    <3>4. own[t][m] = ranges[p][t][m] \/ own[t][m] = Report(t, m)
      BY <1>3, <1>8, <3>3
    <3>5. top.from \subseteq load.from
      BY <1>10
    <3> HIDE DEF own, load
    <3> QED BY <3>2, <3>4, <3>5, ToldStays
  <2> QED BY <2>1, <2>2
<1>12. \A i \in DOMAIN load.left : load.left[i] \in Used(t)
  <2>1. \A i \in DOMAIN Tail(top.left) : i + 1 \in DOMAIN top.left /\ Tail(top.left)[i] = top.left[i + 1]
    BY <1>1, <1>3
  <2> QED BY <1>1, <1>2, <1>10, <2>1 DEF TopRight
<1>13. TopRight(load, own, follows[p])
  BY <1>10, <1>11, <1>12 DEF TopRight
<1>14. follows[p] \in SUBSET PackedTypes /\ follows' = [follows EXCEPT ![p] = follows[p]]
  BY <1>1 DEF RangesKept, RangesTyped
<1> HIDE DEF own, load
<1> QED BY <1>1, <1>7, <1>8, <1>9, <1>10, <1>13, <1>14, GoesOn

\* The type's own program runs, and the process depends on its report.
LEMMA RunProgramKept ==
    ASSUME RangesAssumption, RangesKept, NEW p \in Generators, RunProgram(p) PROVE RangesKept'
<1> DEFINE load == [Inner(p) EXCEPT !.at = "Save"]
           reports == follows[p] \cup {Inner(p).type}
<1>1. /\ loading[p] # <<>> /\ Becomes(p, load) /\ UNCHANGED <<shared, loaded, ranges>>
      /\ follows' = [follows EXCEPT ![p] = reports]
  BY DEF RunProgram, LoadAt
<1>2. Inner(p) \in Loads /\ follows[p] \in SUBSET PackedTypes /\ OwnRight(ranges[p]) /\ ranges[p] \in Ranges
  BY <1>1, TopKnown
<1>3. load \in Loads /\ load.at = "Save" /\ load.type = Inner(p).type
  BY <1>2 DEF Loads
<1>4. TopRight(load, ranges[p], reports)
  BY <1>3 DEF TopRight
<1>5. reports \in SUBSET PackedTypes
  BY <1>2 DEF Loads
<1>6. ranges' = [ranges EXCEPT ![p] = ranges[p]]
  BY <1>1 DEF RangesKept, RangesTyped
<1>7. follows[p] \subseteq reports
  OBVIOUS
<1> HIDE DEF load, reports
<1> QED BY <1>1, <1>2, <1>3, <1>4, <1>5, <1>6, <1>7, GoesOn

\* The cache has served all: each field is told by a report that it named.
LEMMA AllServedKept ==
    ASSUME RangesAssumption, RangesKept, NEW p \in Generators, AllServed(p) PROVE RangesKept'
<1> DEFINE top == Inner(p)
           reports == follows[p] \cup top.from
<1>1. /\ loading[p] # <<>> /\ top.at = "Cache" /\ top.left = <<>> /\ Leave(p)
      /\ UNCHANGED <<shared, ranges>> /\ follows' = [follows EXCEPT ![p] = reports]
  BY DEF AllServed, LoadAt
<1>2. /\ top \in Loads /\ follows[p] \in SUBSET PackedTypes /\ OwnRight(ranges[p])
      /\ ranges[p] \in Ranges /\ TopRight(top, ranges[p], follows[p])
  BY <1>1, TopKnown
<1>3. \A n \in Used(top.type) : Told(top.type, n, ranges[p], top.from)
  BY <1>1, <1>2 DEF TopRight, Served
<1>4. \A n \in Used(top.type) : Told(top.type, n, ranges[p], reports)
  BY <1>3 DEF Told
<1>5. reports \in SUBSET PackedTypes
  BY <1>2 DEF Loads
<1>6. ranges' = [ranges EXCEPT ![p] = ranges[p]]
  BY <1>1 DEF RangesKept, RangesTyped
<1>7. shared' \in [Names -> KeptReports \cup {NoRange}] /\ KeptRight'
  BY <1>1 DEF RangesKept, RangesTyped, KeptRight
<1>8. follows[p] \subseteq reports
  OBVIOUS
<1> HIDE DEF reports
<1> QED BY <1>1, <1>2, <1>4, <1>5, <1>6, <1>7, <1>8, IsOver

\* The type's own program tells each field that is not set, and shares what
\* it may.
LEMMA SaveAndSetKept ==
    ASSUME RangesAssumption, RangesKept, NEW p \in Generators, SaveAndSet(p) PROVE RangesKept'
<1> DEFINE t == Inner(p).type
           own == [ranges[p] EXCEPT ![t] = [n \in Names |->
                      IF @[n] = NoRange /\ n \in Used(t) THEN Report(t, n) ELSE @[n]]]
<1>1. /\ loading[p] # <<>> /\ Inner(p).at = "Save" /\ Leave(p) /\ UNCHANGED follows
      /\ ranges' = [ranges EXCEPT ![p][t] = [n \in Names |->
             IF @[n] = NoRange /\ n \in Used(t) THEN Report(t, n) ELSE @[n]]]
  BY DEF SaveAndSet, LoadAt
<1>2. /\ Inner(p) \in Loads /\ follows[p] \in SUBSET PackedTypes /\ OwnRight(ranges[p])
      /\ ranges[p] \in Ranges /\ t \in follows[p]
  BY <1>1, TopKnown DEF TopRight
<1>3. t \in PackedTypes /\ Used(t) \subseteq Names
  BY <1>2, UsedAreNames DEF Loads
<1>4. \A n \in Names : Report(t, n) \in Reports
  BY <1>3 DEF Reports
<1>5. own \in Ranges /\ ranges' = [ranges EXCEPT ![p] = own]
  <2>1. own \in Ranges
    BY <1>2, <1>3, <1>4 DEF Ranges
  <2> QED BY <1>1, <2>1
<1>6. \A n \in Used(t) : own[t][n] = Report(t, n)
  BY <1>2, <1>3 DEF Ranges, OwnRight
<1>7. \A s \in PackedTypes, n \in Names : own[s][n] = ranges[p][s][n] \/ own[s][n] = Report(s, n)
  BY <1>2, <1>3 DEF Ranges
<1>8. OwnRight(own)
  BY <1>2, <1>7 DEF OwnRight
<1>9. \A n \in Used(t) : Told(t, n, own, follows[p])
  BY <1>2, <1>6 DEF Told, Tells
<1>10. shared' \in [Names -> KeptReports \cup {NoRange}] /\ KeptRight'
  <2> DEFINE told(n) == [range |-> Report(t, n), by |-> t]
  <2>1. PICK count \in 0 .. Len(Validated[t]) : shared' = [n \in Names |->
            IF Cacheable(t, n) /\ \E i \in 1 .. count : Validated[t][i] = n THEN told(n) ELSE shared[n]]
    BY DEF SaveAndSet
  <2>2. \A n \in Names : told(n) \in KeptReports
    BY <1>3, <1>4 DEF KeptReports
  <2>3. shared' \in [Names -> KeptReports \cup {NoRange}]
    BY <2>1, <2>2 DEF RangesKept, RangesTyped
  <2>4. \A i \in 1 .. count : Validated[t][i] \in Used(t)
    BY <1>3 DEF RangesAssumption, Used
  <2>5. ASSUME NEW n \in Names, shared'[n] # NoRange
        PROVE  n \in Used(shared'[n].by) /\ Cacheable(shared'[n].by, n) /\ shared'[n].range = Report(shared'[n].by, n)
    BY <2>1, <2>4, <2>5 DEF RangesKept, KeptRight
  <2> QED BY <2>3, <2>5 DEF KeptRight
<1>11. follows' = [follows EXCEPT ![p] = follows[p]]
  BY <1>1 DEF RangesKept, RangesTyped
<1> HIDE DEF own
<1> QED BY <1>1, <1>2, <1>5, <1>7, <1>8, <1>9, <1>10, <1>11, IsOver

\* At first nothing is known.
LEMMA RangesInitKept == RangesAssumption /\ RangesInit => RangesKept
<1> SUFFICES ASSUME RangesInit PROVE RangesKept
  OBVIOUS
<1>1. RangesTyped
  BY DEF RangesInit, RangesTyped, Ranges
<1>2. KeptRight
  BY DEF RangesInit, KeptRight
<1>3. ASSUME NEW p \in Generators PROVE ProcessRight(loading[p], loaded[p], ranges[p], follows[p])
  BY DEF RangesInit, ProcessRight, OwnRight
<1> QED BY <1>1, <1>2, <1>3 DEF RangesKept

\* Every step of a process keeps it.
LEMMA RangesNextKept ==
    ASSUME RangesAssumption, RangesKept, [RangesNext]_rangesVars PROVE RangesKept'
<1>1. CASE UNCHANGED rangesVars
  BY <1>1 DEF rangesVars, RangesKept, RangesTyped, KeptRight
<1>2. CASE RangesNext
  <2>1. PICK p \in Generators :
            \/ \E t \in PackedTypes : Begin(p, t)
            \/ LoadPart(p) \/ AskCache(p) \/ Hit(p) \/ Miss(p) \/ AllServed(p)
            \/ RunProgram(p) \/ SaveAndSet(p)
    BY <1>2 DEF RangesNext
  <2> QED BY <2>1, BeginKept, LoadPartKept, AskCacheKept, HitKept, MissKept, AllServedKept,
             RunProgramKept, SaveAndSetKept
<1> QED BY <1>1, <1>2

\* What is loaded is told.
LEMMA RangesKeptIsEnough == RangesKept => RangesAreOwn
  BY DEF RangesKept, ProcessRight, Told, Tells, RangesAreOwn

\* Whatever types are packed into each other, in whatever order the processes
\* of a session load them, and wherever the database fails (packed_type.py
\* above type_ranges_cache_database.py): a range that was shared is the one
\* that the type's own program would have reported, and the process depends on
\* a report of that very Ada type.
THEOREM RangesHold ==
    ASSUME RangesAssumption
    PROVE  RangesInit /\ [][RangesNext]_rangesVars => []RangesAreOwn
<1>1. RangesInit => RangesKept
  BY RangesInitKept
<1>2. RangesKept /\ [RangesNext]_rangesVars => RangesKept'
  BY RangesNextKept
<1>3. RangesKept => RangesAreOwn
  BY RangesKeptIsEnough
<1> QED BY <1>1, <1>2, <1>3, PTL

-----------------------------------------------------------------------------
(* Enums: the numbers of literals.                                          *)

\* The sizes that the instance speaks of are the sizes of the sets.
LEMMA SizesAreOne == \A S : Literals!Cardinality(S) = Cardinality(S)
  BY DEF Literals!Cardinality, Cardinality

\* The least number from one on that is not taken is found among as many
\* as are taken, and one more.
LEMMA LowestIsFree ==
    ASSUME NEW held \in SUBSET Nat, IsFiniteSet(held), NEW from \in Nat, NEW v, v = Literals!Lowest(held, from)
    PROVE  v \in Nat /\ from <= v /\ v \notin held /\ \A w \in from..(v - 1) : w \in held
<1> PICK n : n = Cardinality(held)
  OBVIOUS
<1>1. n \in Nat
  BY FS_CardinalityType
<1> DEFINE Open == {w \in from..(from + n) : w \notin held}
<1>2. Open # {}
  <2> SUFFICES ASSUME Open = {} PROVE FALSE
    OBVIOUS
  <2>1. from..(from + n) \in SUBSET held
    OBVIOUS
  <2>2. Cardinality(from..(from + n)) <= n
    BY <2>1, FS_Subset
  <2>3. from \in Int /\ from + n \in Int
    BY <1>1
  <2>4. Cardinality(from..(from + n)) = n + 1
    <3>1. Cardinality(from..(from + n)) = IF from > from + n THEN 0 ELSE (from + n) - from + 1
      BY <2>3, FS_Interval
    <3>. QED BY ONLY <3>1, <1>1, from \in Nat
  <2>. QED BY ONLY <2>2, <2>4, <1>1
<1>3. Open \in SUBSET Nat
  BY <1>1
<1>4. PICK u \in Open : \A w \in Open : u <= w
  BY <1>2, <1>3, LeastExists
<1>5. u \in from..(from + n) /\ u \notin held /\ u \in Nat
  BY <1>3, <1>4
<1>6. ASSUME NEW w \in from..(u - 1) PROVE w \in held
  <2>1. w \in from..(from + n) /\ ~(u <= w)
    BY ONLY <1>5, <1>1, from \in Nat, w \in from..(u - 1)
  <2>. QED BY <1>4, <2>1
<1>7. v = CHOOSE w \in from..(from + n) : w \notin held /\ \A x \in from..(w - 1) : x \in held
  BY SizesAreOne DEF Literals!Lowest
<1>8. v \in from..(from + n) /\ v \notin held /\ \A x \in from..(v - 1) : x \in held
  BY <1>5, <1>6, <1>7
<1>. QED BY <1>1, <1>8

\* What the numbering keeps after each literal.
NumberingOf(done, literals, k) ==
    done = [i \in 0..k |->
                IF i = 0
                THEN [next |-> 0, taken |-> {l.value : l \in Literals!Given(literals)}, out |-> <<>>]
                ELSE Literals!Numbered(done[i - 1], literals[i])]

LEMMA NumberingUnfolds ==
    ASSUME NEW literals, NEW n \in Nat, Len(literals) = n
    PROVE  \E done : NumberingOf(done, literals, n) /\ Literals!Filled(literals) = done[n].out
<1> DEFINE start == [next |-> 0, taken |-> {l.value : l \in Literals!Given(literals)}, out |-> <<>>]
           next(f, m) == [k \in 0..m |-> IF k = 0 THEN start ELSE Literals!Numbered(f[k - 1], literals[k])]
           Lacking == {m \in 0..n : ~ \E f : f = next(f, m)}
<1>1. Lacking = {}
  <2> SUFFICES ASSUME Lacking # {} PROVE FALSE
    OBVIOUS
  <2>1. PICK m \in Lacking : \A i \in Lacking : m <= i
    <3>1. Lacking \in SUBSET Nat
      OBVIOUS
    <3>. QED BY <3>1, LeastExists
  <2> HIDE DEF start
  <2>2. m # 0
    <3>1. SUFFICES ASSUME m = 0 PROVE FALSE
      OBVIOUS
    <3> DEFINE f == [k \in 0..m |-> start]
    <3>2. f = next(f, m)
      BY <3>1
    <3>. QED BY <3>2
  <2>3. m - 1 \in 0..n /\ m - 1 \notin Lacking /\ m \in 1..n
    <3>1. m \in 0..n /\ m # 0
      BY <2>2
    <3>2. m \in 1..n /\ m - 1 \in 0..n /\ ~(m <= m - 1)
      BY ONLY <3>1, n \in Nat
    <3>. QED BY ONLY <2>1, <3>2
  <2>4. PICK f : f = next(f, m - 1)
    BY <2>3
  <2> DEFINE g == [k \in 0..m |-> IF k < m THEN f[k] ELSE Literals!Numbered(f[k - 1], literals[k])]
  <2>5. \A k \in 0..m : k = 0 \/ (k - 1 \in 0..m /\ g[k - 1] = f[k - 1])
    BY <2>3
  <2>6. ASSUME NEW k \in 0..m PROVE g[k] = next(g, m)[k]
    <3>1. CASE k = m
      <4>1. g[m - 1] = f[m - 1] /\ m # 0 /\ ~(m < m) /\ m \in 0..m
        <5>1. m # 0 /\ ~(m < m) /\ m \in 0..m
          BY ONLY <2>3, n \in Nat
        <5>. QED BY <2>5, <5>1
      <4>2. g[m] = Literals!Numbered(f[m - 1], literals[m])
        BY <4>1
      <4>3. next(g, m)[m] = Literals!Numbered(g[m - 1], literals[m])
        BY <4>1
      <4>. QED BY <3>1, <4>1, <4>2, <4>3
    <3>2. CASE k # m
      <4>1. k \in 0..(m - 1) /\ g[k] = f[k]
        BY <2>3, <3>2
      <4>2. f[k] = next(f, m - 1)[k]
        BY <2>4
      <4>. QED BY <2>5, <4>1, <4>2
    <3>. QED BY <3>1, <3>2
  <2>7. g = next(g, m)
    BY <2>6
  <2>. QED BY <2>7
<1>2. \E f : f = next(f, n)
  <2>1. n \in 0..n
    BY ONLY n \in Nat
  <2> HIDE DEF next
  <2>. QED BY <1>1, <2>1
<1>3. PICK done : done = (CHOOSE f : f = next(f, n))
  OBVIOUS
<1>4. done = next(done, n)
  BY <1>2, <1>3
<1>5. Literals!Filled(literals) = done[n].out
  BY <1>3 DEF Literals!Filled
<1>. QED BY <1>4, <1>5 DEF NumberingOf

\* An enumeration that is taken, of any names.
EnumTaken(LiteralNames, literals) ==
    /\ None \notin Int
    /\ literals \in Seq([name : LiteralNames, value : Int \cup {None}])
    /\ Literals!LiteralsTaken(literals)

NumbersGiven(literals) == {l.value : l \in Literals!Given(literals)}

LEMMA GivenIsFinite ==
    ASSUME NEW LiteralNames, NEW literals, EnumTaken(LiteralNames, literals)
    PROVE  /\ NumbersGiven(literals) \in SUBSET Nat /\ IsFiniteSet(NumbersGiven(literals))
           /\ \A i \in DOMAIN literals : literals[i].value # None => literals[i].value \in NumbersGiven(literals)
           /\ \A v \in NumbersGiven(literals) :
                 \E l \in Literals!Given(literals) : l.value = v
<1> PICK n : n = Len(literals)
  OBVIOUS
<1>1. n \in Nat /\ DOMAIN literals = 1..n
  BY LenProperties DEF EnumTaken
<1>2. Literals!Given(literals) = {l \in {literals[i] : i \in 1..n} : l.value # None}
  BY <1>1 DEF Literals!Given, Literals!Range
<1>3. NumbersGiven(literals) \in SUBSET Nat
  <2> SUFFICES ASSUME NEW i \in 1..n, literals[i].value # None PROVE literals[i].value \in Nat
    BY <1>2 DEF NumbersGiven
  <2>1. literals[i] \in [name : LiteralNames, value : Int \cup {None}]
    BY <1>1, ElementOfSeq DEF EnumTaken
  <2>2. literals[i] \in Literals!Given(literals)
    BY <1>2
  <2>3. literals[i].value >= 0
    BY <2>2 DEF EnumTaken, Literals!LiteralsTaken
  <2>. QED BY <2>1, <2>3
<1>4. IsFiniteSet(NumbersGiven(literals))
  <2> DEFINE f == [i \in 1..n |-> literals[i].value]
             all == {literals[i].value : i \in 1..n}
  <2>1. f \in Surjection(1..n, all)
    BY DEF Surjection
  <2>2. IsFiniteSet(1..n)
    BY <1>1, FS_Interval
  <2>3. IsFiniteSet(all)
    BY <2>1, <2>2, FS_Surjection
  <2>4. NumbersGiven(literals) \in SUBSET all
    BY <1>2 DEF NumbersGiven
  <2>. QED BY <2>3, <2>4, FS_Subset
<1>5. \A i \in 1..n : literals[i].value # None => literals[i].value \in NumbersGiven(literals)
  BY <1>2 DEF NumbersGiven
<1>6. \A v \in NumbersGiven(literals) : \E l \in Literals!Given(literals) : l.value = v
  BY DEF NumbersGiven
<1>. QED BY <1>1, <1>3, <1>4, <1>5, <1>6

\* The literals up to k have their numbers, and those that were left out
\* got what was free, in order.
NumberedUpTo(LiteralNames, literals, out, k) ==
    /\ out \in Seq([name : LiteralNames, value : Nat]) /\ Len(out) = k
    /\ \A i \in 1..k :
          /\ out[i].name = literals[i].name
          /\ literals[i].value # None => out[i].value = literals[i].value
          /\ literals[i].value = None =>
                /\ out[i].value \notin NumbersGiven(literals)
                /\ \A v \in 0..(out[i].value - 1) :
                      \/ v \in NumbersGiven(literals)
                      \/ \E j \in 1..(i - 1) : out[j].value = v
                /\ \A j \in 1..(i - 1) : literals[j].value = None => out[j].value < out[i].value

\* What is known as taken is what the enumeration gives, and what was got.
TakenUpTo(literals, done, k) ==
    /\ done.next \in Nat /\ done.taken \in SUBSET Nat /\ IsFiniteSet(done.taken)
    /\ NumbersGiven(literals) \subseteq done.taken
    /\ \A v \in 0..(done.next - 1) : v \in done.taken
    /\ \A v \in done.taken : v \in NumbersGiven(literals) \/ \E j \in 1..k : done.out[j].value = v
    /\ \A i \in 1..k : literals[i].value = None => done.out[i].value < done.next

LEMMA NumberingStays ==
    ASSUME NEW LiteralNames, NEW literals, EnumTaken(LiteralNames, literals),
           NEW k \in Nat, k + 1 \in DOMAIN literals, NEW done, NEW after,
           after = Literals!Numbered(done, literals[k + 1]),
           NumberedUpTo(LiteralNames, literals, done.out, k), TakenUpTo(literals, done, k)
    PROVE  NumberedUpTo(LiteralNames, literals, after.out, k + 1) /\ TakenUpTo(literals, after, k + 1)
<1> PICK l : l = literals[k + 1]
  OBVIOUS
<1> PICK out : out = done.out
  OBVIOUS
<1> PICK written : written = NumbersGiven(literals)
  OBVIOUS
<1>1. l \in [name : LiteralNames, value : Int \cup {None}]
  BY ElementOfSeq, LenProperties DEF EnumTaken
<1>2. out \in Seq([name : LiteralNames, value : Nat]) /\ Len(out) = k
  BY DEF NumberedUpTo
\* However the literal gets its number, the others keep theirs.
<1>3. \A j \in 1..k : out[j] \in [name : LiteralNames, value : Nat] /\ out[j].value \in Nat
  <2>1. \A j \in 1..k : out[j] \in [name : LiteralNames, value : Nat]
    BY <1>2, ElementOfSeq
  <2>. QED BY <2>1
<1>4. ASSUME NEW m, m \in [name : LiteralNames, value : Nat], after.out = Append(out, m), m.name = l.name,
             l.value # None => m.value = l.value,
             l.value = None =>
                /\ m.value \notin written
                /\ \A v \in 0..(m.value - 1) : v \in written \/ \E j \in 1..k : out[j].value = v
                /\ \A j \in 1..k : literals[j].value = None => out[j].value < m.value
      PROVE  /\ NumberedUpTo(LiteralNames, literals, after.out, k + 1)
             /\ after.out[k + 1] = m /\ \A j \in 1..k : after.out[j] = out[j]
  <2>1. after.out \in Seq([name : LiteralNames, value : Nat]) /\ Len(after.out) = k + 1
    BY <1>2, <1>4, AppendProperties
  <2>2. after.out[k + 1] = m /\ \A j \in 1..k : after.out[j] = out[j]
    BY <1>2, <1>4, AppendProperties
  <2>3. ASSUME NEW i \in 1..(k + 1)
        PROVE  /\ after.out[i].name = literals[i].name
               /\ literals[i].value # None => after.out[i].value = literals[i].value
               /\ literals[i].value = None =>
                    /\ after.out[i].value \notin written
                    /\ \A v \in 0..(after.out[i].value - 1) :
                          v \in written \/ \E j \in 1..(i - 1) : after.out[j].value = v
                    /\ \A j \in 1..(i - 1) : literals[j].value = None => after.out[j].value < after.out[i].value
    <3>1. CASE i = k + 1
      <4>1. i - 1 = k /\ after.out[i] = m /\ literals[i] = l
        BY <2>2, <3>1
      <4>2. m.value \in Nat
        BY <1>4
      <4>3. ASSUME l.value = None, NEW v \in 0..(m.value - 1), v \notin written
            PROVE  \E j \in 1..(i - 1) : after.out[j].value = v
        <5>1. PICK j \in 1..k : out[j].value = v
          BY <1>4, <4>3
        <5>. QED BY <2>2, <4>1, <5>1
      <4>4. l.value = None => \A j \in 1..(i - 1) : literals[j].value = None => after.out[j].value < m.value
        BY <1>4, <2>2, <4>1
      <4>. QED BY <4>1, <4>3, <4>4, <1>4
    <3>2. CASE i \in 1..k
      <4>1. \A j \in 1..(i - 1) : j \in 1..k
        BY <3>2
      <4>2. /\ out[i].name = literals[i].name
            /\ literals[i].value # None => out[i].value = literals[i].value
            /\ literals[i].value = None =>
                 /\ out[i].value \notin written
                 /\ \A v \in 0..(out[i].value - 1) :
                       v \in written \/ \E j \in 1..(i - 1) : out[j].value = v
                 /\ \A j \in 1..(i - 1) : literals[j].value = None => out[j].value < out[i].value
        BY <3>2 DEF NumberedUpTo
      <4>. QED BY <2>2, <3>2, <4>1, <4>2
    <3>. QED BY <3>1, <3>2
  <2>. QED BY <2>1, <2>2, <2>3 DEF NumberedUpTo
<1>5. CASE l.value # None
  <2>1. after = [next |-> done.next, taken |-> done.taken, out |-> Append(out, l)]
    BY <1>5 DEF Literals!Numbered
  <2>2. after.next = done.next /\ after.taken = done.taken /\ after.out = Append(out, l)
    BY <2>1
  <2>3. l.value \in Nat
    BY <1>5, GivenIsFinite
  <2>4. l \in [name : LiteralNames, value : Nat]
    BY <1>1, <2>3
  <2>5. /\ NumberedUpTo(LiteralNames, literals, after.out, k + 1)
        /\ after.out[k + 1] = l /\ \A j \in 1..k : after.out[j] = out[j]
    BY <1>4, <1>5, <2>2, <2>4
  <2>6. ASSUME NEW v \in after.taken
        PROVE  v \in NumbersGiven(literals) \/ \E j \in 1..(k + 1) : after.out[j].value = v
    <3>1. v \in written \/ \E j \in 1..k : out[j].value = v
      BY <2>2 DEF TakenUpTo
    <3>2. \A j \in 1..k : j \in 1..(k + 1)
      OBVIOUS
    <3>. QED BY <2>5, <3>1, <3>2
  <2>7. ASSUME NEW i \in 1..(k + 1), literals[i].value = None PROVE after.out[i].value < after.next
    <3>1. i # k + 1
      BY <1>5, <2>7
    <3>2. i \in 1..k
      BY <3>1
    <3>. QED BY <2>2, <2>5, <2>7, <3>2 DEF TakenUpTo
  <2>. QED BY <2>2, <2>5, <2>6, <2>7 DEF TakenUpTo
<1>6. CASE l.value = None
  <2> PICK v : v = Literals!Lowest(done.taken, done.next)
    OBVIOUS
  <2> PICK m : m = [name |-> l.name, value |-> v]
    OBVIOUS
  <2>1. after = [next |-> v + 1, taken |-> done.taken \cup {v}, out |-> Append(out, m)]
    BY <1>6 DEF Literals!Numbered
  <2>2. after.next = v + 1 /\ after.taken = done.taken \cup {v} /\ after.out = Append(out, m)
    BY <2>1
  <2>3. /\ done.next \in Nat /\ done.taken \in SUBSET Nat /\ IsFiniteSet(done.taken)
        /\ written \subseteq done.taken
        /\ \A w \in 0..(done.next - 1) : w \in done.taken
        /\ \A w \in done.taken : w \in written \/ \E j \in 1..k : out[j].value = w
        /\ \A i \in 1..k : literals[i].value = None => out[i].value < done.next
    BY DEF TakenUpTo
  <2>4. v \in Nat /\ done.next <= v /\ v \notin done.taken /\ \A w \in done.next..(v - 1) : w \in done.taken
    BY <2>3, LowestIsFree
  <2>5. \A w \in 0..(v - 1) : w \in done.taken
    <3>1. \A w \in 0..(v - 1) : w \in 0..(done.next - 1) \/ w \in done.next..(v - 1)
      BY <2>3, <2>4
    <3>. QED BY <2>3, <2>4, <3>1
  <2>6. m \in [name : LiteralNames, value : Nat] /\ m.name = l.name /\ m.value = v
    BY <1>1, <2>4
  <2>7. \A j \in 1..k : literals[j].value = None => out[j].value < v
    <3>1. \A j \in 1..k : out[j].value \in Nat
      BY <1>3
    <3>. QED BY <2>3, <2>4, <3>1
  <2>8. /\ NumberedUpTo(LiteralNames, literals, after.out, k + 1)
        /\ after.out[k + 1] = m /\ \A j \in 1..k : after.out[j] = out[j]
    <3>1. v \notin written
      BY <2>3, <2>4
    <3>2. \A w \in 0..(v - 1) : w \in written \/ \E j \in 1..k : out[j].value = w
      BY <2>3, <2>5
    <3>. QED BY <1>4, <1>6, <2>2, <2>6, <2>7, <3>1, <3>2
  <2>9. after.next \in Nat /\ after.taken \in SUBSET Nat /\ IsFiniteSet(after.taken) /\ written \subseteq after.taken
    BY <2>2, <2>3, <2>4, FS_AddElement
  <2>10. \A w \in 0..(after.next - 1) : w \in after.taken
    <3>1. \A w \in 0..v : w = v \/ w \in 0..(v - 1)
      BY <2>4
    <3>2. after.next - 1 = v
      BY <2>2, <2>4
    <3>. QED BY <2>2, <2>5, <3>1, <3>2
  <2>11. ASSUME NEW w \in after.taken PROVE w \in written \/ \E j \in 1..(k + 1) : after.out[j].value = w
    <3>1. \A j \in 1..k : j \in 1..(k + 1)
      OBVIOUS
    <3>2. CASE w = v
      <4>1. after.out[k + 1].value = v /\ k + 1 \in 1..(k + 1)
        BY <2>6, <2>8
      <4>. QED BY <3>2, <4>1
    <3>3. CASE w \in done.taken
      <4>1. w \in written \/ \E j \in 1..k : out[j].value = w
        BY <2>3, <3>3
      <4>. QED BY <2>8, <3>1, <4>1
    <3>. QED BY <2>2, <3>2, <3>3
  <2>12. ASSUME NEW i \in 1..(k + 1), literals[i].value = None PROVE after.out[i].value < after.next
    <3>1. i = k + 1 \/ i \in 1..k
      OBVIOUS
    <3>2. CASE i = k + 1
      <4>1. after.out[i].value = v
        BY <2>6, <2>8, <3>2
      <4>2. after.next = v + 1
        BY <2>2
      <4>. QED BY ONLY <4>1, <4>2, <2>4
    <3>3. CASE i \in 1..k
      <4>1. out[i].value < v /\ out[i].value \in Nat
        BY <1>3, <2>7, <2>12, <3>3
      <4>2. after.out[i] = out[i]
        BY <2>8, <3>3
      <4>3. after.next = v + 1
        BY <2>2
      <4>. QED BY ONLY <4>1, <4>2, <4>3, <2>4
    <3>. QED BY <3>1, <3>2, <3>3
  <2>. QED BY <2>8, <2>9, <2>10, <2>11, <2>12 DEF TakenUpTo
<1>. QED BY <1>5, <1>6

LEMMA FilledIsNumbered ==
    ASSUME NEW LiteralNames, NEW literals, EnumTaken(LiteralNames, literals)
    PROVE  NumberedUpTo(LiteralNames, literals, Literals!Filled(literals), Len(literals))
<1> PICK n : n = Len(literals)
  OBVIOUS
<1>1. n \in Nat /\ DOMAIN literals = 1..n
  BY LenProperties DEF EnumTaken
<1>2. PICK done : NumberingOf(done, literals, n) /\ Literals!Filled(literals) = done[n].out
  BY <1>1, NumberingUnfolds
<1> DEFINE Right(k) == NumberedUpTo(LiteralNames, literals, done[k].out, k) /\ TakenUpTo(literals, done[k], k)
           Bad == {k \in 0..n : ~Right(k)}
<1>3. Right(0)
  <2>1. done[0] = [next |-> 0, taken |-> NumbersGiven(literals), out |-> <<>>]
    BY <1>1, <1>2 DEF NumberingOf, NumbersGiven
  <2>2. done[0].next = 0 /\ done[0].taken = NumbersGiven(literals) /\ done[0].out = <<>>
    BY <2>1
  <2>3. NumberedUpTo(LiteralNames, literals, <<>>, 0)
    BY EmptySeq DEF NumberedUpTo
  <2>. QED BY <2>2, <2>3, GivenIsFinite DEF TakenUpTo
<1>4. ASSUME NEW k \in 0..(n - 1), Right(k) PROVE Right(k + 1)
  <2>1. k \in Nat /\ k + 1 \in 1..n /\ k + 1 \in 0..n /\ (k + 1) - 1 = k /\ k + 1 # 0
    BY <1>1
  <2>2. done[k + 1] = Literals!Numbered(done[k], literals[k + 1])
    BY <1>2, <2>1 DEF NumberingOf
  <2>. QED BY <1>1, <1>4, <2>1, <2>2, NumberingStays
<1>5. Bad = {}
  <2> SUFFICES ASSUME Bad # {} PROVE FALSE
    OBVIOUS
  <2>1. PICK k \in Bad : \A i \in Bad : k <= i
    <3>1. Bad \in SUBSET Nat
      OBVIOUS
    <3> HIDE DEF Bad
    <3>. QED BY <3>1, LeastExists
  <2>2. k \in 0..n /\ ~Right(k)
    OBVIOUS
  <2> HIDE DEF Right
  <2>3. k # 0
    BY <1>3, <2>2
  <2>4. k - 1 \in 0..(n - 1) /\ k - 1 \in 0..n /\ ~(k <= k - 1) /\ (k - 1) + 1 = k
    BY <1>1, <2>2, <2>3
  <2>5. Right(k - 1)
    BY <2>1, <2>4
  <2>. QED BY <1>4, <2>2, <2>4, <2>5
<1>6. n \in 0..n
  BY <1>1
<1>. QED BY <1>2, <1>5, <1>6

NumbersDiffer(s, n) ==
    /\ DOMAIN s = 1..n
    /\ \A i \in 1..n : s[i].value \in Nat
    /\ \A i, j \in 1..n : i # j => s[i].value # s[j].value

SortedBy(s, n, at) ==
    /\ Literals!Sorted(s) = [k \in 1..n |-> s[at[k]]]
    /\ \A i \in 1..n : \E k \in 1..n : at[k] = i
    /\ \A k \in 1..(n - 1) : s[at[k]].value < s[at[k + 1]].value

\* A sequence whose numbers differ, sorted by them.
LEMMA SortedIs ==
    ASSUME NEW s, NEW n \in Nat, NumbersDiffer(s, n)
    PROVE  \E at \in [1..n -> 1..n] : SortedBy(s, n, at)
<1> USE DEF NumbersDiffer
<1> DEFINE NotBehind(i) == {j \in 1..n : s[j].value < s[i].value \/ (s[j].value = s[i].value /\ j <= i)}
           place == [i \in 1..n |-> Cardinality(NotBehind(i))]
           at == [k \in 1..n |-> CHOOSE i \in 1..n : Literals!PlaceAmong(s, i) = k]
<1>1. IsFiniteSet(1..n) /\ Cardinality(1..n) = n
  BY FS_Interval
<1>2. ASSUME NEW i \in 1..n
      PROVE  Literals!PlaceAmong(s, i) = place[i] /\ IsFiniteSet(NotBehind(i)) /\ place[i] \in 1..n
  <2>1. NotBehind(i) \in SUBSET (1..n)
    OBVIOUS
  <2>2. Literals!PlaceAmong(s, i) = Cardinality(NotBehind(i))
    BY SizesAreOne DEF Literals!PlaceAmong
  <2>3. i \in NotBehind(i)
    BY <1>2
  <2> HIDE DEF NotBehind
  <2>4. IsFiniteSet(NotBehind(i)) /\ Cardinality(NotBehind(i)) <= n
    BY <1>1, <2>1, FS_Subset
  <2>5. Cardinality(NotBehind(i)) \in Nat /\ Cardinality(NotBehind(i)) # 0
    BY <2>3, <2>4, FS_CardinalityType, FS_EmptySet
  <2>. QED BY <2>2, <2>4, <2>5
<1>3. ASSUME NEW i \in 1..n, NEW j \in 1..n, s[i].value < s[j].value PROVE place[i] < place[j]
  <2>1. NotBehind(i) \in SUBSET NotBehind(j) /\ j \in NotBehind(j) /\ j \notin NotBehind(i)
    BY <1>3
  <2> HIDE DEF NotBehind
  <2>2. IsFiniteSet(NotBehind(j))
    BY <1>2
  <2>3. Cardinality(NotBehind(i)) <= Cardinality(NotBehind(j))
        /\ Cardinality(NotBehind(i)) # Cardinality(NotBehind(j))
    BY <2>1, <2>2, FS_Subset
  <2>4. place[i] \in 1..n /\ place[j] \in 1..n
    BY <1>2
  <2>. QED BY <2>3, <2>4
<1> HIDE DEF place
<1>4. place \in Injection(1..n, 1..n)
  <2>1. place \in [1..n -> 1..n]
    BY <1>2 DEF place
  <2>2. ASSUME NEW i \in 1..n, NEW j \in 1..n, i # j PROVE place[i] # place[j]
    <3>1. s[i].value < s[j].value \/ s[j].value < s[i].value
      BY <2>2
    <3>2. place[i] < place[j] \/ place[j] < place[i]
      BY <1>3, <3>1
    <3>3. place[i] \in 1..n /\ place[j] \in 1..n
      BY <1>2
    <3>. QED BY ONLY <3>2, <3>3, n \in Nat
  <2>. QED BY <2>1, <2>2 DEF Injection, IsInjective
<1>5. place \in Surjection(1..n, 1..n)
  BY <1>1, <1>4, FS_Injection
<1>6. ASSUME NEW k \in 1..n PROVE at[k] \in 1..n /\ place[at[k]] = k
  <2>1. \E i \in 1..n : Literals!PlaceAmong(s, i) = k
    BY <1>2, <1>5 DEF Surjection
  <2>2. at[k] \in 1..n /\ Literals!PlaceAmong(s, at[k]) = k
    BY <2>1
  <2>. QED BY <1>2, <2>2
<1>7. Literals!Sorted(s) = [k \in 1..n |-> s[at[k]]]
  BY DEF Literals!Sorted
<1> HIDE DEF at
<1>8. at \in [1..n -> 1..n]
  BY <1>6 DEF at
<1>9. ASSUME NEW i \in 1..n PROVE \E k \in 1..n : at[k] = i
  <2>1. place[i] \in 1..n
    BY <1>2
  <2>2. place[at[place[i]]] = place[i] /\ at[place[i]] \in 1..n
    BY <1>6, <2>1
  <2>. QED BY <1>4, <2>1, <2>2 DEF Injection, IsInjective
<1>10. ASSUME NEW k \in 1..(n - 1) PROVE s[at[k]].value < s[at[k + 1]].value
  <2>1. k \in 1..n /\ k + 1 \in 1..n /\ k + 1 # k
    OBVIOUS
  <2>2. at[k] \in 1..n /\ at[k + 1] \in 1..n /\ place[at[k]] = k /\ place[at[k + 1]] = k + 1
    BY <1>6, <2>1
  <2>3. at[k] # at[k + 1]
    BY <2>1, <2>2
  <2>4. ~(s[at[k + 1]].value < s[at[k]].value)
    <3>1. ~(k + 1 < k)
      OBVIOUS
    <3>. QED BY <1>3, <2>2, <3>1
  <2>5. s[at[k]].value \in Nat /\ s[at[k + 1]].value \in Nat /\ s[at[k]].value # s[at[k + 1]].value
    BY <2>2, <2>3
  <2>. QED BY <2>4, <2>5
<1>. QED BY <1>7, <1>8, <1>9, <1>10 DEF SortedBy

LEMMA LiteralsAreNumbered ==
    ASSUME NEW LiteralNames, NEW literals \in Seq([name : LiteralNames, value : Int \cup {None}]), None \notin Int
    PROVE  Literals!EnumsKeepNumbers(literals)
<1> SUFFICES ASSUME Literals!LiteralsTaken(literals) PROVE Literals!EnumsKeepNumbers(literals)
  BY DEF Literals!EnumsKeepNumbers
<1>1. EnumTaken(LiteralNames, literals)
  BY DEF EnumTaken
<1> PICK n : n = Len(literals)
  OBVIOUS
<1> PICK s : s = Literals!Filled(literals)
  OBVIOUS
<1> PICK written : written = NumbersGiven(literals)
  OBVIOUS
<1>2. n \in Nat /\ DOMAIN literals = 1..n
  BY LenProperties
<1>3. NumberedUpTo(LiteralNames, literals, s, n)
  BY <1>1, FilledIsNumbered
<1>4. s \in Seq([name : LiteralNames, value : Nat]) /\ Len(s) = n /\ DOMAIN s = 1..n
  BY <1>2, <1>3, LenProperties DEF NumberedUpTo
<1>5. \A i \in 1..n : s[i] \in [name : LiteralNames, value : Nat] /\ s[i].value \in Nat
  <2>1. \A i \in 1..n : s[i] \in [name : LiteralNames, value : Nat]
    BY <1>4, ElementOfSeq
  <2>. QED BY <2>1
<1>6. \A i, j \in 1..n : i # j =>
         /\ literals[i].name # literals[j].name
         /\ literals[i].value # literals[j].value \/ literals[i].value = None
  BY <1>2 DEF Literals!LiteralsTaken
<1>7. ASSUME NEW i \in 1..n, NEW j \in 1..n, i # j PROVE s[i].value # s[j].value
  <2>1. CASE literals[i].value = None /\ literals[j].value = None
    <3>1. i \in 1..(j - 1) \/ j \in 1..(i - 1)
      BY <1>7
    <3>2. s[i].value < s[j].value \/ s[j].value < s[i].value
      BY <1>3, <2>1, <3>1 DEF NumberedUpTo
    <3>. QED BY <1>5, <3>2
  <2>2. CASE literals[i].value = None /\ literals[j].value # None
    <3>1. s[i].value \notin written /\ s[j].value = literals[j].value
      BY <1>3, <2>2 DEF NumberedUpTo
    <3>2. literals[j].value \in written
      BY <1>1, <1>2, <2>2, GivenIsFinite
    <3>. QED BY <3>1, <3>2
  <2>3. CASE literals[i].value # None /\ literals[j].value = None
    <3>1. s[j].value \notin written /\ s[i].value = literals[i].value
      BY <1>3, <2>3 DEF NumberedUpTo
    <3>2. literals[i].value \in written
      BY <1>1, <1>2, <2>3, GivenIsFinite
    <3>. QED BY <3>1, <3>2
  <2>4. CASE literals[i].value # None /\ literals[j].value # None
    BY <1>3, <1>6, <1>7, <2>4 DEF NumberedUpTo
  <2>. QED BY <2>1, <2>2, <2>3, <2>4
<1>8. \A i \in 1..n : s[i].value \in Nat
  BY <1>5
<1>9. \A i, j \in 1..n : i # j => s[i].value # s[j].value
  BY <1>7
<1>10. NumbersDiffer(s, n)
  BY <1>4, <1>9, <1>8 DEF NumbersDiffer
<1>11. PICK at \in [1..n -> 1..n] : SortedBy(s, n, at)
  BY <1>2, <1>10, SortedIs
<1>12. /\ Literals!Sorted(s) = [k \in 1..n |-> s[at[k]]]
       /\ \A i \in 1..n : \E k \in 1..n : at[k] = i
       /\ \A k \in 1..(n - 1) : s[at[k]].value < s[at[k + 1]].value
  BY <1>11 DEF SortedBy
<1> DEFINE enum == Literals!EnumOf(literals)
<1>13. enum = [k \in 1..n |-> s[at[k]]]
  BY <1>12 DEF Literals!EnumOf
<1> HIDE DEF enum
<1>14. Len(enum) = n /\ DOMAIN enum = 1..n
  BY <1>2, <1>13
<1>15. Literals!Range(enum) = {s[i] : i \in 1..n}
  <2>1. Literals!Range(enum) = {enum[x] : x \in 1..n}
    BY <1>14 DEF Literals!Range
  <2>2. \A k \in 1..n : enum[k] = s[at[k]] /\ at[k] \in 1..n
    BY <1>13
  <2>3. \A i \in 1..n : \E k \in 1..n : at[k] = i
    BY <1>12
  <2>4. \A x \in Literals!Range(enum) : \E i \in 1..n : x = s[i]
    BY <2>1, <2>2
  <2>5. ASSUME NEW i \in 1..n PROVE s[i] \in Literals!Range(enum)
    <3>1. PICK k \in 1..n : at[k] = i
      BY <2>3
    <3>2. enum[k] = s[i]
      BY <2>2, <3>1
    <3>. QED BY <2>1, <3>2
  <2>. QED BY <2>4, <2>5
<1>16. \A i \in 1..n : s[i].name = literals[i].name
  BY <1>3 DEF NumberedUpTo
<1>17. {m.name : m \in Literals!Range(enum)} = {l.name : l \in Literals!Range(literals)}
  <2>1. Literals!Range(literals) = {literals[i] : i \in 1..n}
    BY <1>2 DEF Literals!Range
  <2>2. {m.name : m \in Literals!Range(enum)} = {s[i].name : i \in 1..n}
    BY <1>15
  <2>3. {l.name : l \in Literals!Range(literals)} = {literals[i].name : i \in 1..n}
    BY <2>1
  <2>4. {s[i].name : i \in 1..n} = {literals[i].name : i \in 1..n}
    BY <1>16
  <2>. QED BY <2>2, <2>3, <2>4
<1>18. \A k \in 1..(n - 1) : enum[k].value < enum[k + 1].value
  <2>1. \A k \in 1..(n - 1) : k \in 1..n /\ k + 1 \in 1..n
    BY <1>2
  <2>. QED BY <1>12, <1>13, <2>1
<1> DEFINE Num(l) == (CHOOSE m \in Literals!Range(enum) : m.name = l.name).value
<1>19. ASSUME NEW i \in 1..n PROVE Num(literals[i]) = s[i].value
  <2> PICK m : m = CHOOSE x \in Literals!Range(enum) : x.name = literals[i].name
    OBVIOUS
  <2>1. s[i] \in Literals!Range(enum) /\ s[i].name = literals[i].name
    BY <1>15, <1>16
  <2>2. m \in Literals!Range(enum) /\ m.name = literals[i].name
    BY <2>1
  <2>3. PICK j \in 1..n : m = s[j]
    BY <1>15, <2>2
  <2>4. j = i
    BY <1>6, <1>16, <2>2, <2>3
  <2>. QED BY <2>3, <2>4
<1> HIDE DEF Num
<1>20. ASSUME NEW l \in Literals!Given(literals) PROVE Num(l) = l.value
  <2>1. PICK i \in 1..n : l = literals[i] /\ l.value # None
    BY <1>2 DEF Literals!Given, Literals!Range
  <2>. QED BY <1>3, <1>19, <2>1 DEF NumberedUpTo
<1>21. ASSUME NEW i \in 1..n, literals[i].value = None, NEW v \in 0..(Num(literals[i]) - 1)
       PROVE  \/ \E l \in Literals!Given(literals) : l.value = v
              \/ \E j \in 1..(i - 1) : Num(literals[j]) = v
  <2>1. v \in 0..(s[i].value - 1)
    BY <1>19, <1>21
  <2>2. v \in written \/ \E j \in 1..(i - 1) : s[j].value = v
    BY <1>3, <1>21, <2>1 DEF NumberedUpTo
  <2>3. \A j \in 1..(i - 1) : j \in 1..n
    BY <1>2
  <2>4. v \in written => \E l \in Literals!Given(literals) : l.value = v
    BY <1>1, GivenIsFinite
  <2>. QED BY <1>19, <2>2, <2>3, <2>4
<1>22. \A i \in DOMAIN literals : literals[i].value = None =>
          \A v \in 0..(Num(literals[i]) - 1) :
             \/ \E l \in Literals!Given(literals) : l.value = v
             \/ \E j \in 1..(i - 1) : Num(literals[j]) = v
  BY <1>2, <1>21
<1>23. /\ Len(enum) = Len(literals)
       /\ {m.name : m \in Literals!Range(enum)} = {l.name : l \in Literals!Range(literals)}
       /\ \A k \in 1..(Len(enum) - 1) : enum[k].value < enum[k + 1].value
       /\ \A l \in Literals!Given(literals) : Num(l) = l.value
       /\ \A i \in DOMAIN literals : literals[i].value = None =>
             \A v \in 0..(Num(literals[i]) - 1) :
                \/ \E l \in Literals!Given(literals) : l.value = v
                \/ \E j \in 1..(i - 1) : Num(literals[j]) = v
  BY <1>14, <1>17, <1>18, <1>20, <1>22
<1>. QED BY <1>23 DEF Literals!EnumsKeepNumbers, Num, enum

(* A literal keeps the number that the enumeration gives it, no two have    *)
(* the same, and those that give none get what is free from below, in their *)
(* order: the numbers of an enumeration that is loaded (gen/models/enums.py)*)
(* for any literals.                                                        *)
THEOREM NumbersAreKept ==
    ASSUME NEW LiteralNames, None \notin Int,
           given.kind = "enum" => given.literals \in Seq([name : LiteralNames, value : Int \cup {None}])
    PROVE  EnumsKeepNumbers
BY LiteralsAreNumbered DEF EnumsKeepNumbers

-----------------------------------------------------------------------------
(* CommandSequences: sequences that call each other.                        *)

\* The calls of each of N; what one of them waits for, and a set of them of
\* which each waits for another.
CallsOf(calls, N) ==
    /\ IsFiniteSet(N) /\ DOMAIN calls = N
    /\ \A n \in N : Len(calls[n]) \in Nat /\ DOMAIN calls[n] = 1..Len(calls[n])

Waits(calls, n) == Calling!Range(calls[n]) \cap DOMAIN calls

Circle(calls) ==
    \E S \in SUBSET DOMAIN calls : S # {} /\ \A n \in S : Waits(calls, n) \cap S # {}

\* A path of the search, each sequence called by the one before it.
OnPath(calls, path) ==
    /\ path \in Seq(DOMAIN calls)
    /\ \A i, j \in 1..Len(path) : path[i] = path[j] => i = j
    /\ \A i \in 1..(Len(path) - 1) : path[i + 1] \in Waits(calls, path[i])

\* Those that are finished wait for none but each other, and for no circle.
Done(calls, finished) ==
    /\ finished \in SUBSET DOMAIN calls
    /\ \A n \in finished : Waits(calls, n) \subseteq finished
    /\ \A S \in SUBSET finished : S # {} => \E n \in S : Waits(calls, n) \cap S = {}

\* What is found is a circle, or more that are finished.
Finds(calls, found, more) ==
    /\ found \in [cycle : BOOLEAN, finished : SUBSET DOMAIN calls]
    /\ found.cycle => Circle(calls)
    /\ ~found.cycle => more \subseteq found.finished /\ Done(calls, found.finished)

VisitsRight(calls, visit, deeper) ==
    \A name \in DOMAIN calls, path \in Seq(DOMAIN calls), finished \in SUBSET DOMAIN calls :
        /\ OnPath(calls, Append(path, name)) /\ Done(calls, finished)
        /\ Cardinality(DOMAIN calls) <= Len(path) + deeper
        => Finds(calls, visit[name][path][finished], finished \cup {name})

\* No path is longer than there are sequences.
LEMMA PathsAreShort ==
    ASSUME NEW calls, NEW N, CallsOf(calls, N), NEW path, OnPath(calls, path)
    PROVE  Len(path) \in Nat /\ Len(path) <= Cardinality(N)
<1> PICK n : n = Len(path)
  OBVIOUS
<1>1. path \in Seq(N) /\ n \in Nat /\ DOMAIN path = 1..n /\ \A i \in 1..n : path[i] \in N
  BY LenProperties, ElementOfSeq DEF OnPath, CallsOf
<1>2. path \in [1..n -> N]
  BY <1>1, SeqDef, LenProperties
<1>3. path \in Injection(1..n, N)
  <2>1. \A i, j \in 1..n : path[i] = path[j] => i = j
    BY DEF OnPath
  <2>. QED BY <1>2, <2>1 DEF Injection, IsInjective
<1>4. Cardinality(1..n) <= Cardinality(N)
  BY <1>3, FS_Injection DEF CallsOf
<1>5. Cardinality(1..n) = n
  <2>1. Cardinality(1..n) = IF 1 > n THEN 0 ELSE n - 1 + 1
    <3>1. 1 \in Int /\ n \in Int
      BY <1>1
    <3>. QED BY ONLY <3>1, FS_Interval
  <2>. QED BY ONLY <1>1, <2>1
<1>. QED BY <1>1, <1>4, <1>5

\* One call leads to a circle, to what is finished, or deeper.
LEMMA CallIsFollowed ==
    ASSUME NEW calls, NEW N, CallsOf(calls, N), NEW visit, NEW deeper \in Nat,
           VisitsRight(calls, visit, deeper),
           NEW here, OnPath(calls, here), Cardinality(N) <= Len(here) + deeper,
           NEW name \in N, here # <<>>, here[Len(here)] = name,
           NEW found, NEW more, Finds(calls, found, more),
           NEW callee \in Calling!Range(calls[name])
    PROVE  Finds(calls, Calling!Follow(visit, calls, here, found, callee), more \cup ({callee} \cap N))
<1> PICK n : n = Len(here)
  OBVIOUS
<1>1. DOMAIN calls = N /\ here \in Seq(N) /\ n \in Nat /\ n # 0 /\ DOMAIN here = 1..n
  BY LenProperties, EmptySeq DEF OnPath, CallsOf
<1>2. CASE found.cycle \/ callee \notin N
  <2>1. Calling!Follow(visit, calls, here, found, callee) = found
    BY <1>1, <1>2 DEF Calling!Follow
  <2>2. CASE found.cycle
    BY <2>1, <2>2 DEF Finds
  <2>3. CASE callee \notin N
    <3>1. {callee} \cap N = {}
      BY <2>3
    <3>. QED BY <2>1, <3>1
  <2>. QED BY <1>2, <2>2, <2>3
<1>3. CASE ~found.cycle /\ callee \in N /\ callee \in Calling!Range(here)
  <2>1. Calling!Follow(visit, calls, here, found, callee) = [found EXCEPT !.cycle = TRUE]
    BY <1>1, <1>3 DEF Calling!Follow, Calling!ClosesCycle
  <2>2. PICK i \in 1..n : callee = here[i]
    BY <1>1, <1>3 DEF Calling!Range
  <2> DEFINE S == {here[j] : j \in i..n}
  <2>3. S \in SUBSET N /\ callee \in S
    <3>1. \A j \in i..n : j \in 1..n /\ here[j] \in N
      BY <1>1, ElementOfSeq
    <3>2. i \in i..n
      BY <1>1
    <3>. QED BY <2>2, <3>1, <3>2
  <2>4. ASSUME NEW m \in S PROVE Waits(calls, m) \cap S # {}
    <3>1. PICK j \in i..n : m = here[j]
      OBVIOUS
    <3>2. CASE j = n
      <4>1. m = name
        BY <3>1, <3>2
      <4>. QED BY <1>1, <1>3, <2>3, <4>1 DEF Waits
    <3>3. CASE j # n
      <4>1. j + 1 \in i..n /\ j \in 1..(n - 1)
        BY <1>1, <3>3
      <4>2. here[j + 1] \in Waits(calls, here[j]) /\ here[j + 1] \in S
        BY <4>1 DEF OnPath
      <4>. QED BY <3>1, <4>2
    <3>. QED BY <3>2, <3>3
  <2> HIDE DEF S
  <2>5. Circle(calls)
    BY <1>1, <2>3, <2>4 DEF Circle
  <2>. QED BY <1>1, <2>1, <2>5 DEF Finds
<1>4. CASE ~found.cycle /\ callee \in N /\ callee \notin Calling!Range(here) /\ callee \in found.finished
  <2>1. Calling!Follow(visit, calls, here, found, callee) = found
    BY <1>1, <1>4 DEF Calling!Follow, Calling!ClosesCycle
  <2>. QED BY <1>4, <2>1 DEF Finds
<1>5. CASE ~found.cycle /\ callee \in N /\ callee \notin Calling!Range(here) /\ callee \notin found.finished
  <2>1. Calling!Follow(visit, calls, here, found, callee) = visit[callee][here][found.finished]
    BY <1>1, <1>5 DEF Calling!Follow, Calling!ClosesCycle
  <2>2. OnPath(calls, Append(here, callee))
    <3>1. /\ Append(here, callee) \in Seq(N) /\ Len(Append(here, callee)) = n + 1
          /\ Append(here, callee)[n + 1] = callee
          /\ \A i \in 1..n : Append(here, callee)[i] = here[i]
      BY <1>1, <1>5, AppendProperties
    <3> DEFINE longer == Append(here, callee)
    <3> HIDE DEF longer
    <3>2. \A i \in 1..n : here[i] # callee
      BY <1>1, <1>5 DEF Calling!Range
    <3>3. ASSUME NEW i \in 1..(n + 1), NEW j \in 1..(n + 1), longer[i] = longer[j] PROVE i = j
      <4>1. /\ i \in 1..n \/ i = n + 1
            /\ j \in 1..n \/ j = n + 1
        BY <1>1
      <4>2. \A k, l \in 1..n : here[k] = here[l] => k = l
        BY DEF OnPath
      <4>. QED BY <3>1, <3>2, <3>3, <4>1, <4>2 DEF longer
    <3>4. ASSUME NEW i \in 1..n PROVE longer[i + 1] \in Waits(calls, longer[i])
      <4>1. CASE i = n
        <5>1. callee \in Waits(calls, name)
          BY <1>1, <1>5 DEF Waits
        <5>. QED BY <3>1, <4>1, <5>1 DEF longer
      <4>2. CASE i # n
        <5>1. i \in 1..(n - 1) /\ i + 1 \in 1..n
          BY <1>1, <4>2
        <5>2. here[i + 1] \in Waits(calls, here[i])
          BY <5>1 DEF OnPath
        <5>. QED BY <3>1, <5>1, <5>2 DEF longer
      <4>. QED BY <4>1, <4>2
    <3>5. longer \in Seq(DOMAIN calls) /\ Len(longer) = n + 1 /\ (n + 1) - 1 = n
      BY <1>1, <3>1 DEF longer
    <3>6. OnPath(calls, longer)
      BY <3>3, <3>4, <3>5 DEF OnPath
    <3>. QED BY <3>6 DEF longer
  <2>3. found.finished \in SUBSET N /\ Done(calls, found.finished) /\ more \subseteq found.finished
    BY <1>1, <1>5 DEF Finds
  <2>4. Finds(calls, visit[callee][here][found.finished], found.finished \cup {callee})
    BY <1>1, <1>5, <2>2, <2>3 DEF VisitsRight
  <2>. QED BY <2>1, <2>3, <2>4 DEF Finds
<1>. QED BY <1>2, <1>3, <1>4, <1>5

\* The steps of VisitWith.
FollowedTo(after, visit, calls, name, here, finished, n) ==
    after = [k \in 0..n |->
                IF k = 0 THEN [cycle |-> FALSE, finished |-> finished]
                ELSE Calling!Follow(visit, calls, here, after[k - 1], calls[name][k])]

\* The function of VisitWith unfolds.
LEMMA VisitUnfolds ==
    ASSUME NEW visit, NEW calls, NEW name, NEW path, NEW finished, NEW n \in Nat, Len(calls[name]) = n
    PROVE  \E after :
              /\ FollowedTo(after, visit, calls, name, Append(path, name), finished, n)
              /\ Calling!VisitWith(visit, calls, name, path, finished)
                    = [after[n] EXCEPT !.finished = @ \cup {name}]
<1> DEFINE one(f, k) == IF k = 0 THEN [cycle |-> FALSE, finished |-> finished]
                       ELSE Calling!Follow(visit, calls, Append(path, name), f[k - 1], calls[name][k])
           next(f, m) == [k \in 0..m |-> one(f, k)]
           Lacking == {m \in 0..n : ~ \E f : f = next(f, m)}
<1>1. n \in Nat
  OBVIOUS
<1>2. ASSUME NEW f, NEW g, NEW k, k = 0 \/ f[k - 1] = g[k - 1]
      PROVE  one(f, k) = one(g, k)
  <2>1. CASE k = 0
    BY <2>1
  <2>2. CASE k # 0
    BY <1>2, <2>2
  <2>. QED BY <2>1, <2>2
<1> HIDE DEF one
<1>3. Lacking = {}
  <2> SUFFICES ASSUME Lacking # {} PROVE FALSE
    OBVIOUS
  <2>1. PICK m \in Lacking : \A i \in Lacking : m <= i
    <3>1. Lacking \in SUBSET Nat
      OBVIOUS
    <3> HIDE DEF Lacking
    <3>. QED BY <3>1, LeastExists
  <2>2. m # 0
    <3>1. SUFFICES ASSUME m = 0 PROVE FALSE
      OBVIOUS
    <3> DEFINE f == [k \in 0..m |-> one(0, k)]
    <3>2. \A k \in 0..m : one(0, k) = one(f, k)
      BY <1>2, <3>1
    <3>3. f = next(f, m)
      BY <3>2
    <3>. QED BY <3>3
  <2>3. m - 1 \in 0..n /\ m - 1 \notin Lacking /\ m \in 1..n
    <3>1. m \in 0..n /\ m # 0
      BY <2>2
    <3>2. m \in 1..n /\ m - 1 \in 0..n /\ ~(m <= m - 1)
      BY ONLY <1>1, <3>1
    <3>. QED BY ONLY <2>1, <3>2
  <2>4. PICK f : f = next(f, m - 1)
    BY <2>3
  <2> DEFINE g == [k \in 0..m |-> IF k < m THEN f[k] ELSE one(f, k)]
  <2>5. ASSUME NEW k \in 0..m PROVE k = 0 \/ g[k - 1] = f[k - 1]
    BY <1>1, <2>3
  <2>6. ASSUME NEW k \in 0..m PROVE g[k] = one(g, k)
    <3>1. one(g, k) = one(f, k)
      <4>1. k = 0 \/ g[k - 1] = f[k - 1]
        BY <2>5
      <4> HIDE DEF g
      <4>. QED BY <1>2, <4>1
    <3>2. CASE k < m
      <4>1. k \in 0..(m - 1) /\ g[k] = f[k]
        BY <1>1, <2>3, <3>2
      <4>2. f[k] = one(f, k)
        BY <2>4, <4>1
      <4>. QED BY <3>1, <4>1, <4>2
    <3>3. CASE ~(k < m)
      BY <3>1, <3>3
    <3>. QED BY <3>2, <3>3
  <2>7. g = [k \in 0..m |-> g[k]]
    OBVIOUS
  <2>8. g = next(g, m)
    <3> HIDE DEF g
    <3>. QED BY <2>6, <2>7
  <2>. QED BY <2>8
<1>4. \E f : f = next(f, n)
  <2>1. n \in 0..n
    BY <1>1
  <2> HIDE DEF next
  <2>. QED BY <1>3, <2>1
<1>5. PICK f : f = (CHOOSE h : h = next(h, n))
  OBVIOUS
<1>6. f = next(f, n)
  BY <1>4, <1>5
<1>7. Calling!VisitWith(visit, calls, name, path, finished) = [f[n] EXCEPT !.finished = @ \cup {name}]
  BY <1>5 DEF Calling!VisitWith, one
<1>. QED BY <1>6, <1>7 DEF one, FollowedTo

LEMMA VisitWithIsRight ==
    ASSUME NEW calls, NEW N, CallsOf(calls, N), NEW visit, NEW deeper \in Nat,
           VisitsRight(calls, visit, deeper),
           NEW name \in N, NEW path \in Seq(N), NEW finished \in SUBSET N,
           OnPath(calls, Append(path, name)), Done(calls, finished),
           Cardinality(N) <= Len(path) + deeper + 1
    PROVE  Finds(calls, Calling!VisitWith(visit, calls, name, path, finished), finished \cup {name})
<1> PICK n : n = Len(calls[name])
  OBVIOUS
<1> PICK here : here = Append(path, name)
  OBVIOUS
<1>1. n \in Nat /\ DOMAIN calls = N /\ DOMAIN calls[name] = 1..n
  BY DEF CallsOf
<1>2. /\ Len(path) \in Nat /\ Len(here) = Len(path) + 1 /\ here[Len(here)] = name /\ here # <<>>
      /\ Cardinality(N) <= Len(here) + deeper
  <2>1. Len(path) \in Nat /\ Len(here) = Len(path) + 1 /\ here[Len(path) + 1] = name
    BY LenProperties, AppendProperties
  <2>2. Cardinality(N) \in Nat
    BY FS_CardinalityType DEF CallsOf
  <2>3. Len(here) # 0 /\ Cardinality(N) <= Len(here) + deeper
    BY <2>1, <2>2
  <2>. QED BY <2>1, <2>3, EmptySeq
<1>3. PICK after : /\ FollowedTo(after, visit, calls, name, here, finished, n)
                   /\ Calling!VisitWith(visit, calls, name, path, finished)
                         = [after[n] EXCEPT !.finished = @ \cup {name}]
  BY <1>1, VisitUnfolds
<1> DEFINE Called(k) == {calls[name][j] : j \in 1..k} \cap N
           Wrong == {k \in 0..n : ~Finds(calls, after[k], finished \cup Called(k))}
<1>4. Wrong = {}
  <2> SUFFICES ASSUME Wrong # {} PROVE FALSE
    OBVIOUS
  <2>1. PICK k \in Wrong : \A i \in Wrong : k <= i
    <3>1. Wrong \in SUBSET Nat
      BY <1>1
    <3> HIDE DEF Wrong
    <3>. QED BY <3>1, LeastExists
  <2>2. k \in 0..n /\ ~Finds(calls, after[k], finished \cup Called(k))
    OBVIOUS
  <2>3. CASE k = 0
    <3>1. after[k] = [cycle |-> FALSE, finished |-> finished]
      BY <1>3, <2>2, <2>3 DEF FollowedTo
    <3>2. Called(k) = {}
      BY <2>3
    <3> HIDE DEF Called
    <3>. QED BY <1>1, <2>2, <3>1, <3>2 DEF Finds
  <2>4. CASE k # 0
    <3>1. k - 1 \in 0..n /\ k \in 1..n /\ ~(k <= k - 1)
      BY <1>1, <2>2, <2>4
    <3>2. Finds(calls, after[k - 1], finished \cup Called(k - 1))
      BY <2>1, <3>1
    <3>3. after[k] = Calling!Follow(visit, calls, here, after[k - 1], calls[name][k])
      BY <1>3, <2>2, <2>4 DEF FollowedTo
    <3>4. calls[name][k] \in Calling!Range(calls[name])
      BY <1>1, <3>1 DEF Calling!Range
    <3>5. Finds(calls, after[k], (finished \cup Called(k - 1)) \cup ({calls[name][k]} \cap N))
      <4> PICK more : more = finished \cup Called(k - 1)
        OBVIOUS
      <4> PICK callee : callee = calls[name][k]
        OBVIOUS
      <4> HIDE DEF Called, Wrong
      <4>1. Finds(calls, after[k - 1], more) /\ callee \in Calling!Range(calls[name])
        BY <3>2, <3>4
      <4>2. Finds(calls, Calling!Follow(visit, calls, here, after[k - 1], callee), more \cup ({callee} \cap N))
        BY <1>2, <4>1, CallIsFollowed
      <4>. QED BY <3>3, <4>2
    <3>6. (finished \cup Called(k - 1)) \cup ({calls[name][k]} \cap N) = finished \cup Called(k)
      <4>1. \A j \in 1..k : j = k \/ j \in 1..(k - 1)
        BY <1>1, <3>1
      <4>2. (\A j \in 1..(k - 1) : j \in 1..k) /\ k \in 1..k
        BY <1>1, <3>1
      <4>3. Called(k) = Called(k - 1) \cup ({calls[name][k]} \cap N)
        <5>1. ASSUME NEW c PROVE c \in Called(k) => c \in Called(k - 1) \cup ({calls[name][k]} \cap N)
          BY ONLY <4>1, <5>1
        <5>2. ASSUME NEW c PROVE c \in Called(k - 1) \cup ({calls[name][k]} \cap N) => c \in Called(k)
          BY ONLY <4>2, <5>2
        <5> HIDE DEF Called
        <5>. QED BY <5>1, <5>2
      <4> HIDE DEF Called
      <4>. QED BY <4>3
    <3>. QED BY <2>2, <3>5, <3>6
  <2>. QED BY <2>3, <2>4
<1> PICK found : found = after[n]
  OBVIOUS
<1>5. Finds(calls, found, finished \cup Waits(calls, name))
  <2>1. n \in 0..n
    BY <1>1
  <2>2. Called(n) = Waits(calls, name)
    BY <1>1 DEF Waits, Calling!Range
  <2>. QED BY <1>4, <2>1, <2>2
<1> HIDE DEF Called, Wrong
<1> DEFINE result == [found EXCEPT !.finished = @ \cup {name}]
<1>6. /\ result \in [cycle : BOOLEAN, finished : SUBSET N] /\ result.cycle = found.cycle
      /\ result.finished = found.finished \cup {name}
  BY <1>1, <1>5 DEF Finds
<1>7. ASSUME ~found.cycle PROVE Done(calls, found.finished \cup {name})
  <2>1. Done(calls, found.finished) /\ Waits(calls, name) \subseteq found.finished
    BY <1>5, <1>7 DEF Finds
  <2>2. found.finished \cup {name} \in SUBSET N
    BY <1>1, <2>1 DEF Done
  <2>3. ASSUME NEW m \in found.finished \cup {name} PROVE Waits(calls, m) \subseteq found.finished \cup {name}
    BY <2>1 DEF Done
  <2>4. ASSUME NEW S \in SUBSET (found.finished \cup {name}), S # {}
        PROVE  \E m \in S : Waits(calls, m) \cap S = {}
    <3>1. CASE S \cap found.finished # {}
      <4>1. PICK m \in S \cap found.finished : Waits(calls, m) \cap (S \cap found.finished) = {}
        BY <2>1, <3>1 DEF Done
      <4>2. Waits(calls, m) \subseteq found.finished
        BY <2>1, <4>1 DEF Done
      <4>. QED BY <4>1, <4>2
    <3>2. CASE S \cap found.finished = {}
      <4>1. name \in S
        BY <2>4, <3>2
      <4>2. Waits(calls, name) \cap S = {}
        BY <2>1, <3>2
      <4>. QED BY <4>1, <4>2
    <3>. QED BY <3>1, <3>2
  <2>. QED BY <1>1, <2>2, <2>3, <2>4 DEF Done
<1>8. Calling!VisitWith(visit, calls, name, path, finished) = result
  BY <1>3
<1> HIDE DEF result
<1>9. Finds(calls, result, finished \cup {name})
  BY <1>1, <1>5, <1>6, <1>7 DEF Finds
<1>. QED BY <1>8, <1>9

\* The function of Visit unfolds.
LEMMA VisitsUnfold ==
    ASSUME NEW calls, NEW n \in Nat, Calling!Cardinality(DOMAIN calls) = n
    PROVE  \E visit :
              /\ visit = [deeper \in 0..n |->
                    [name \in DOMAIN calls |-> [path \in Seq(DOMAIN calls) |->
                        [finished \in SUBSET DOMAIN calls |->
                            IF deeper = 0 THEN [cycle |-> FALSE, finished |-> finished]
                            ELSE Calling!VisitWith(visit[deeper - 1], calls, name, path, finished)]]]]
              /\ Calling!Visit(calls) = visit[n]
<1> DEFINE one(f, k) == [name \in DOMAIN calls |-> [path \in Seq(DOMAIN calls) |->
                           [finished \in SUBSET DOMAIN calls |->
                               IF k = 0 THEN [cycle |-> FALSE, finished |-> finished]
                               ELSE Calling!VisitWith(f[k - 1], calls, name, path, finished)]]]
           next(f, m) == [k \in 0..m |-> one(f, k)]
           Lacking == {m \in 0..n : ~ \E f : f = next(f, m)}
<1>1. n \in Nat
  OBVIOUS
<1>2. ASSUME NEW f, NEW g, NEW k, k = 0 \/ f[k - 1] = g[k - 1]
      PROVE  one(f, k) = one(g, k)
  <2>1. CASE k = 0
    BY <2>1
  <2>2. CASE k # 0
    BY <1>2, <2>2
  <2>. QED BY <2>1, <2>2
<1> HIDE DEF one
<1>3. Lacking = {}
  <2> SUFFICES ASSUME Lacking # {} PROVE FALSE
    OBVIOUS
  <2>1. PICK m \in Lacking : \A i \in Lacking : m <= i
    <3>1. Lacking \in SUBSET Nat
      OBVIOUS
    <3> HIDE DEF Lacking
    <3>. QED BY <3>1, LeastExists
  <2>2. m # 0
    <3>1. SUFFICES ASSUME m = 0 PROVE FALSE
      OBVIOUS
    <3> DEFINE f == [k \in 0..m |-> one(0, k)]
    <3>2. \A k \in 0..m : one(0, k) = one(f, k)
      BY <1>2, <3>1
    <3>3. f = next(f, m)
      BY <3>2
    <3>. QED BY <3>3
  <2>3. m - 1 \in 0..n /\ m - 1 \notin Lacking /\ m \in 1..n
    <3>1. m \in 0..n /\ m # 0
      BY <2>2
    <3>2. m \in 1..n /\ m - 1 \in 0..n /\ ~(m <= m - 1)
      BY ONLY <1>1, <3>1
    <3>. QED BY ONLY <2>1, <3>2
  <2>4. PICK f : f = next(f, m - 1)
    BY <2>3
  <2> DEFINE g == [k \in 0..m |-> IF k < m THEN f[k] ELSE one(f, k)]
  <2>5. ASSUME NEW k \in 0..m PROVE k = 0 \/ g[k - 1] = f[k - 1]
    BY <1>1, <2>3
  <2>6. ASSUME NEW k \in 0..m PROVE g[k] = one(g, k)
    <3>1. one(g, k) = one(f, k)
      <4>1. k = 0 \/ g[k - 1] = f[k - 1]
        BY <2>5
      <4> HIDE DEF g
      <4>. QED BY <1>2, <4>1
    <3>2. CASE k < m
      <4>1. k \in 0..(m - 1) /\ g[k] = f[k]
        BY <1>1, <2>3, <3>2
      <4>2. f[k] = one(f, k)
        BY <2>4, <4>1
      <4>. QED BY <3>1, <4>1, <4>2
    <3>3. CASE ~(k < m)
      BY <3>1, <3>3
    <3>. QED BY <3>2, <3>3
  <2>7. g = [k \in 0..m |-> g[k]]
    OBVIOUS
  <2>8. g = next(g, m)
    <3> HIDE DEF g
    <3>. QED BY <2>6, <2>7
  <2>. QED BY <2>8
<1>4. \E f : f = next(f, n)
  <2>1. n \in 0..n
    BY <1>1
  <2> HIDE DEF next
  <2>. QED BY <1>3, <2>1
<1>5. PICK f : f = (CHOOSE h : h = next(h, n))
  OBVIOUS
<1>6. f = next(f, n)
  BY <1>4, <1>5
<1>7. Calling!Visit(calls) = f[n]
  BY <1>5 DEF Calling!Visit, one
<1>. QED BY <1>6, <1>7 DEF one

\* A visit finds a circle, or finishes what it visits.
LEMMA VisitIsRight ==
    ASSUME NEW calls, NEW N, CallsOf(calls, N)
    PROVE  VisitsRight(calls, Calling!Visit(calls), Cardinality(N))
<1> PICK n : n = Cardinality(N)
  OBVIOUS
<1>1. n \in Nat /\ DOMAIN calls = N /\ Calling!Cardinality(N) = n
  BY FS_CardinalityType DEF CallsOf, Calling!Cardinality, Cardinality
<1>2. PICK visit :
         /\ visit = [deeper \in 0..n |->
               [name \in DOMAIN calls |-> [path \in Seq(DOMAIN calls) |->
                   [finished \in SUBSET DOMAIN calls |->
                       IF deeper = 0 THEN [cycle |-> FALSE, finished |-> finished]
                       ELSE Calling!VisitWith(visit[deeper - 1], calls, name, path, finished)]]]]
         /\ Calling!Visit(calls) = visit[n]
  BY <1>1, VisitsUnfold
<1> DEFINE Wrong == {d \in 0..n : ~VisitsRight(calls, visit[d], d)}
<1>3. Wrong = {}
  <2> SUFFICES ASSUME Wrong # {} PROVE FALSE
    OBVIOUS
  <2>1. PICK d \in Wrong : \A i \in Wrong : d <= i
    <3>1. Wrong \in SUBSET Nat
      BY <1>1
    <3> HIDE DEF Wrong
    <3>. QED BY <3>1, LeastExists
  <2>2. d \in 0..n /\ ~VisitsRight(calls, visit[d], d)
    OBVIOUS
  <2>3. ASSUME NEW name \in N, NEW path \in Seq(N), NEW finished \in SUBSET N,
               OnPath(calls, Append(path, name)), Done(calls, finished),
               Cardinality(N) <= Len(path) + d
        PROVE  Finds(calls, visit[d][name][path][finished], finished \cup {name})
    <3>1. Len(path) \in Nat /\ Len(Append(path, name)) = Len(path) + 1
      BY LenProperties, AppendProperties
    <3>2. Len(Append(path, name)) <= n
      BY <2>3, PathsAreShort
    <3>3. d \in 1..n /\ d - 1 \in 0..n /\ ~(d <= d - 1) /\ d # 0
      BY <1>1, <2>2, <2>3, <3>1, <3>2
    <3>4. visit[d][name][path][finished] = Calling!VisitWith(visit[d - 1], calls, name, path, finished)
      <4>1. visit[d] = [m \in DOMAIN calls |-> [p \in Seq(DOMAIN calls) |-> [f \in SUBSET DOMAIN calls |->
                IF d = 0 THEN [cycle |-> FALSE, finished |-> f]
                ELSE Calling!VisitWith(visit[d - 1], calls, m, p, f)]]]
        BY <1>2, <2>2
      <4> HIDE DEF Wrong
      <4>2. visit[d][name] = [p \in Seq(DOMAIN calls) |-> [f \in SUBSET DOMAIN calls |->
                IF d = 0 THEN [cycle |-> FALSE, finished |-> f]
                ELSE Calling!VisitWith(visit[d - 1], calls, name, p, f)]]
        BY <1>1, <4>1
      <4>3. visit[d][name][path] = [f \in SUBSET DOMAIN calls |->
                IF d = 0 THEN [cycle |-> FALSE, finished |-> f]
                ELSE Calling!VisitWith(visit[d - 1], calls, name, path, f)]
        BY <1>1, <4>2
      <4>. QED BY <1>1, <3>3, <4>3
    <3>5. VisitsRight(calls, visit[d - 1], d - 1)
      BY <2>1, <3>3
    <3>6. d - 1 \in Nat /\ Cardinality(N) <= Len(path) + (d - 1) + 1
      BY <1>1, <2>3, <3>1, <3>3
    <3> HIDE DEF Wrong
    <3>. QED BY <2>3, <3>4, <3>5, <3>6, VisitWithIsRight
  <2>. QED BY <1>1, <2>2, <2>3 DEF VisitsRight
<1>4. n \in 0..n
  BY <1>1
<1>. QED BY <1>2, <1>3, <1>4

\* The steps of Search.
SearchedTo(after, calls, names, n) ==
    after = [k \in 0..n |->
                IF k = 0 THEN [cycle |-> FALSE, finished |-> {}]
                ELSE IF after[k - 1].cycle \/ names[k] \in after[k - 1].finished THEN after[k - 1]
                ELSE Calling!Visit(calls)[names[k]][<<>>][after[k - 1].finished]]

\* The function of Search unfolds.
LEMMA SearchUnfolds ==
    ASSUME NEW calls, NEW names, NEW n \in Nat, Len(names) = n
    PROVE  \E after : SearchedTo(after, calls, names, n) /\ Calling!Search(calls, names) = after[n]
<1> DEFINE one(f, k) == IF k = 0 THEN [cycle |-> FALSE, finished |-> {}]
                       ELSE IF f[k - 1].cycle \/ names[k] \in f[k - 1].finished THEN f[k - 1]
                       ELSE Calling!Visit(calls)[names[k]][<<>>][f[k - 1].finished]
           next(f, m) == [k \in 0..m |-> one(f, k)]
           Lacking == {m \in 0..n : ~ \E f : f = next(f, m)}
<1>1. n \in Nat
  OBVIOUS
<1>2. ASSUME NEW f, NEW g, NEW k, k = 0 \/ f[k - 1] = g[k - 1]
      PROVE  one(f, k) = one(g, k)
  <2>1. CASE k = 0
    BY <2>1
  <2>2. CASE k # 0
    BY <1>2, <2>2
  <2>. QED BY <2>1, <2>2
<1> HIDE DEF one
<1>3. Lacking = {}
  <2> SUFFICES ASSUME Lacking # {} PROVE FALSE
    OBVIOUS
  <2>1. PICK m \in Lacking : \A i \in Lacking : m <= i
    <3>1. Lacking \in SUBSET Nat
      OBVIOUS
    <3> HIDE DEF Lacking
    <3>. QED BY <3>1, LeastExists
  <2>2. m # 0
    <3>1. SUFFICES ASSUME m = 0 PROVE FALSE
      OBVIOUS
    <3> DEFINE f == [k \in 0..m |-> one(0, k)]
    <3>2. \A k \in 0..m : one(0, k) = one(f, k)
      BY <1>2, <3>1
    <3>3. f = next(f, m)
      BY <3>2
    <3>. QED BY <3>3
  <2>3. m - 1 \in 0..n /\ m - 1 \notin Lacking /\ m \in 1..n
    <3>1. m \in 0..n /\ m # 0
      BY <2>2
    <3>2. m \in 1..n /\ m - 1 \in 0..n /\ ~(m <= m - 1)
      BY ONLY <1>1, <3>1
    <3>. QED BY ONLY <2>1, <3>2
  <2>4. PICK f : f = next(f, m - 1)
    BY <2>3
  <2> DEFINE g == [k \in 0..m |-> IF k < m THEN f[k] ELSE one(f, k)]
  <2>5. ASSUME NEW k \in 0..m PROVE k = 0 \/ g[k - 1] = f[k - 1]
    BY <1>1, <2>3
  <2>6. ASSUME NEW k \in 0..m PROVE g[k] = one(g, k)
    <3>1. one(g, k) = one(f, k)
      <4>1. k = 0 \/ g[k - 1] = f[k - 1]
        BY <2>5
      <4> HIDE DEF g
      <4>. QED BY <1>2, <4>1
    <3>2. CASE k < m
      <4>1. k \in 0..(m - 1) /\ g[k] = f[k]
        BY <1>1, <2>3, <3>2
      <4>2. f[k] = one(f, k)
        BY <2>4, <4>1
      <4>. QED BY <3>1, <4>1, <4>2
    <3>3. CASE ~(k < m)
      BY <3>1, <3>3
    <3>. QED BY <3>2, <3>3
  <2>7. g = [k \in 0..m |-> g[k]]
    OBVIOUS
  <2>8. g = next(g, m)
    <3> HIDE DEF g
    <3>. QED BY <2>6, <2>7
  <2>. QED BY <2>8
<1>4. \E f : f = next(f, n)
  <2>1. n \in 0..n
    BY <1>1
  <2> HIDE DEF next
  <2>. QED BY <1>3, <2>1
<1>5. PICK f : f = (CHOOSE h : h = next(h, n))
  OBVIOUS
<1>6. f = next(f, n)
  BY <1>4, <1>5
<1>7. Calling!Search(calls, names) = f[n]
  BY <1>5 DEF Calling!Search, one
<1>. QED BY <1>6, <1>7 DEF one, SearchedTo

\* The search finds a circle just when there is one, in whatever order it
\* begins with each.
LEMMA SearchIsRight ==
    ASSUME NEW calls, NEW N, CallsOf(calls, N), NEW names \in Seq(N), Calling!Range(names) = N
    PROVE  Calling!Search(calls, names).cycle <=> Circle(calls)
<1> PICK n : n = Len(names)
  OBVIOUS
<1>1. n \in Nat /\ DOMAIN names = 1..n /\ DOMAIN calls = N /\ Cardinality(N) \in Nat
  BY LenProperties, FS_CardinalityType DEF CallsOf
<1>2. PICK after : SearchedTo(after, calls, names, n) /\ Calling!Search(calls, names) = after[n]
  BY <1>1, SearchUnfolds
<1> DEFINE Named(k) == {names[j] : j \in 1..k}
           Wrong == {k \in 0..n : ~Finds(calls, after[k], Named(k))}
<1>3. Wrong = {}
  <2> SUFFICES ASSUME Wrong # {} PROVE FALSE
    OBVIOUS
  <2>1. PICK k \in Wrong : \A i \in Wrong : k <= i
    <3>1. Wrong \in SUBSET Nat
      BY <1>1
    <3> HIDE DEF Wrong
    <3>. QED BY <3>1, LeastExists
  <2>2. k \in 0..n /\ ~Finds(calls, after[k], Named(k))
    OBVIOUS
  <2>3. CASE k = 0
    <3>1. after[k] = [cycle |-> FALSE, finished |-> {}]
      BY <1>2, <2>2, <2>3 DEF SearchedTo
    <3>2. Named(k) = {}
      BY <2>3
    <3> HIDE DEF Named
    <3>3. Done(calls, {})
      BY DEF Done
    <3>. QED BY <1>1, <2>2, <3>1, <3>2, <3>3 DEF Finds
  <2>4. CASE k # 0
    <3>1. k - 1 \in 0..n /\ k \in 1..n /\ ~(k <= k - 1)
      BY <1>1, <2>2, <2>4
    <3>2. Finds(calls, after[k - 1], Named(k - 1))
      BY <2>1, <3>1
    <3>3. Named(k) = Named(k - 1) \cup {names[k]}
      <4>1. \A j \in 1..k : j = k \/ j \in 1..(k - 1)
        BY <1>1, <3>1
      <4>2. \A j \in 1..(k - 1) : j \in 1..k
        BY <1>1, <3>1
      <4>. QED BY <3>1, <4>1, <4>2
    <3>4. names[k] \in N
      BY <1>1, <3>1, ElementOfSeq
    <3> PICK found : found = after[k - 1]
      OBVIOUS
    <3>5. after[k] = IF found.cycle \/ names[k] \in found.finished THEN found
                     ELSE Calling!Visit(calls)[names[k]][<<>>][found.finished]
      BY <1>2, <2>2, <2>4 DEF SearchedTo
    <3> HIDE DEF Named, Wrong
    <3>6. CASE found.cycle \/ names[k] \in found.finished
      BY <2>2, <3>2, <3>3, <3>5, <3>6 DEF Finds
    <3>7. CASE ~(found.cycle \/ names[k] \in found.finished)
      <4>1. Done(calls, found.finished) /\ found.finished \in SUBSET N /\ Named(k - 1) \subseteq found.finished
        BY <1>1, <3>2, <3>7 DEF Finds
      <4>2. OnPath(calls, Append(<<>>, names[k]))
        <5>1. <<>> \in Seq(N) /\ Append(<<>>, names[k]) \in Seq(N) /\ Len(Append(<<>>, names[k])) = 1
          BY <3>4, EmptySeq, AppendProperties
        <5>2. \A i, j \in 1..1 : i = j
          OBVIOUS
        <5>3. 1..(1 - 1) = {}
          OBVIOUS
        <5>. QED BY <1>1, <5>1, <5>2, <5>3 DEF OnPath
      <4>3. <<>> \in Seq(N) /\ Cardinality(N) <= Len(<<>>) + Cardinality(N)
        BY <1>1, EmptySeq
      <4>4. VisitsRight(calls, Calling!Visit(calls), Cardinality(N))
        BY VisitIsRight
      <4>5. Finds(calls, Calling!Visit(calls)[names[k]][<<>>][found.finished], found.finished \cup {names[k]})
        BY <1>1, <3>4, <4>1, <4>2, <4>3, <4>4 DEF VisitsRight
      <4>. QED BY <2>2, <3>3, <3>5, <3>7, <4>1, <4>5 DEF Finds
    <3>. QED BY <3>6, <3>7
  <2>. QED BY <2>3, <2>4
<1> PICK found : found = after[n]
  OBVIOUS
<1>4. Finds(calls, found, N)
  <2>1. n \in 0..n /\ Named(n) = N
    BY <1>1 DEF Calling!Range
  <2> HIDE DEF Named
  <2>. QED BY <1>3, <2>1
<1> HIDE DEF Named, Wrong
<1>5. CASE found.cycle
  BY <1>2, <1>4, <1>5 DEF Finds
<1>6. CASE ~found.cycle
  <2>1. Done(calls, found.finished) /\ found.finished = N
    BY <1>1, <1>4, <1>6 DEF Finds
  <2>2. ~Circle(calls)
    BY <1>1, <2>1 DEF Done, Circle
  <2>. QED BY <1>2, <1>6, <2>2
<1>. QED BY <1>5, <1>6

\* A set of names is gone through in some order.
LEMMA SetsAreOrdered ==
    ASSUME NEW N, IsFiniteSet(N)
    PROVE  Calling!SetToSeq(N) \in Seq(N) /\ Calling!Range(Calling!SetToSeq(N)) = N
<1> PICK n : n = Cardinality(N)
  OBVIOUS
<1>1. n \in Nat /\ Calling!Cardinality(N) = n /\ ExistsBijection(1..n, N)
  BY FS_CardinalityType DEF Calling!Cardinality, Cardinality
<1>2. PICK f : f \in Bijection(1..n, N)
  BY <1>1 DEF ExistsBijection
<1>3. f \in [1..n -> N] /\ Calling!IsInjective(f)
  BY <1>2 DEF Bijection, Injection, IsInjective, Calling!IsInjective
<1>4. Calling!SetToSeq(N) = (CHOOSE g \in [1..n -> N] : Calling!IsInjective(g))
  BY <1>1 DEF Calling!SetToSeq
<1>5. PICK g : g = Calling!SetToSeq(N)
  OBVIOUS
<1>6. g \in [1..n -> N] /\ Calling!IsInjective(g)
  BY <1>3, <1>4, <1>5
<1>7. g \in Injection(1..n, N)
  BY <1>6 DEF Injection, IsInjective, Calling!IsInjective
<1>8. IsFiniteSet(1..n) /\ Cardinality(1..n) = n
  <2>1. IsFiniteSet(1..n) /\ Cardinality(1..n) = IF 1 > n THEN 0 ELSE n - 1 + 1
    <3>1. 1 \in Int /\ n \in Int
      BY <1>1
    <3>. QED BY ONLY <3>1, FS_Interval
  <2>. QED BY ONLY <1>1, <2>1
<1>9. g \in Surjection(1..n, N)
  BY <1>7, <1>8, FS_Injection
<1>10. Calling!Range(g) = N
  BY <1>6, <1>9 DEF Surjection, Calling!Range
<1>11. g \in Seq(N)
  BY <1>1, <1>6, SeqDef
<1>. QED BY <1>5, <1>10, <1>11

\* Names of a suite are Ada's: they differ in more than the case of letters.
SequencesOf(suite, R) ==
    /\ suite.sequences \in Seq(R)
    /\ \A r \in R : Len(r.steps) \in Nat /\ DOMAIN r.steps = 1..Len(r.steps) /\ r.name # None
    /\ \A i, j \in DOMAIN suite.sequences :
          Lower(suite.sequences[i].name) = Lower(suite.sequences[j].name) => i = j

LEMMA CalledByName ==
    ASSUME NEW suite, NEW R, SequencesOf(suite, R), NEW callee \in Calling!SequenceNames(suite), NEW name
    PROVE  Calling!Called(suite, name) = callee <=> Lower(name) = Lower(callee)
<1> DEFINE same == {i \in DOMAIN suite.sequences : Lower(suite.sequences[i].name) = Lower(name)}
<1>1. PICK n \in DOMAIN suite.sequences : suite.sequences[n].name = callee
  BY DEF Calling!SequenceNames
<1>2. /\ \A i, j \in same : i = j
      /\ \A i \in DOMAIN suite.sequences : i <= i /\ suite.sequences[i].name # None
  <2>1. \A i, j \in same : i = j
    BY DEF SequencesOf
  <2>2. \A i \in DOMAIN suite.sequences : i <= i /\ suite.sequences[i].name # None
    BY LenProperties, ElementOfSeq DEF SequencesOf
  <2>. QED BY <2>1, <2>2
<1>3. ASSUME NEW i \in same PROVE Calling!Called(suite, name) = suite.sequences[i].name
  <2>1. same # {} /\ i = (CHOOSE k \in same : \A j \in same : j <= k)
    <3>1. \A j \in same : j <= i
      BY <1>2
    <3> HIDE DEF same
    <3>2. PICK m : m = (CHOOSE k \in same : \A j \in same : j <= k)
      OBVIOUS
    <3>3. m \in same
      BY <3>1, <3>2
    <3>. QED BY <1>2, <3>2, <3>3
  <2>. QED BY <2>1 DEF Calling!Called
<1>4. CASE same = {}
  <2>1. Calling!Called(suite, name) = None
    BY <1>4 DEF Calling!Called
  <2>2. Lower(name) # Lower(callee)
    BY <1>1, <1>4
  <2>. QED BY <1>1, <1>2, <2>1, <2>2
<1>5. CASE same # {}
  <2>1. PICK i \in same : TRUE
    BY <1>5
  <2>2. Calling!Called(suite, name) = suite.sequences[i].name /\ Lower(suite.sequences[i].name) = Lower(name)
    BY <1>3
  <2>3. ASSUME Lower(name) = Lower(callee) PROVE suite.sequences[i].name = callee
    <3>1. n \in same
      BY <1>1, <2>3
    <3>. QED BY <1>1, <1>2, <3>1
  <2>4. ASSUME suite.sequences[i].name = callee PROVE Lower(name) = Lower(callee)
    BY <2>2, <2>4
  <2>. QED BY <2>2, <2>3, <2>4
<1>. QED BY <1>4, <1>5

\* The calls of the search are what is waited for.
LEMMA CallsAreAwaited ==
    ASSUME NEW whole, NEW suite, NEW R, SequencesOf(suite, R),
           NEW N, N = Calling!DeferredNames(suite), NEW calls, calls = Calling!DeferredCalls(whole, suite)
    PROVE  /\ CallsOf(calls, N) /\ N \subseteq Calling!SequenceNames(suite)
           /\ \A name \in N : Waits(calls, name) = Calling!Awaited(whole, suite, name)
<1>1. N \subseteq Calling!SequenceNames(suite)
  BY DEF Calling!DeferredNames
<1>2. IsFiniteSet(N)
  <2> DEFINE all == Calling!SequenceNames(suite)
             name == [i \in DOMAIN suite.sequences |-> suite.sequences[i].name]
  <2>1. Len(suite.sequences) \in Nat /\ DOMAIN suite.sequences = 1..Len(suite.sequences)
    BY LenProperties DEF SequencesOf
  <2>2. IsFiniteSet(DOMAIN suite.sequences)
    <3>1. 1 \in Int /\ Len(suite.sequences) \in Int
      BY <2>1
    <3>2. IsFiniteSet(1..Len(suite.sequences))
      BY ONLY <3>1, FS_Interval
    <3>. QED BY <2>1, <3>2
  <2>3. name \in Surjection(DOMAIN suite.sequences, all)
    BY DEF Surjection, Calling!SequenceNames
  <2>4. IsFiniteSet(all)
    BY <2>2, <2>3, FS_Surjection
  <2>. QED BY <1>1, <2>4, FS_Subset
<1>3. ASSUME NEW name \in N
      PROVE  /\ Calling!Sequence(suite, name) \in R
             /\ calls[name] = Calling!Calls(whole, suite, name)
  <2>1. PICK i \in DOMAIN suite.sequences : suite.sequences[i].name = name
    BY <1>1 DEF Calling!SequenceNames
  <2>2. PICK j \in DOMAIN suite.sequences : Calling!Sequence(suite, name) = suite.sequences[j]
    BY <2>1 DEF Calling!Sequence
  <2>3. suite.sequences[j] \in R
    BY ElementOfSeq, LenProperties DEF SequencesOf
  <2>. QED BY <2>2, <2>3 DEF Calling!DeferredCalls
<1>4. DOMAIN calls = N
  BY DEF Calling!DeferredCalls
<1>5. ASSUME NEW name \in N
      PROVE  Len(calls[name]) \in Nat /\ DOMAIN calls[name] = 1..Len(calls[name])
  <2> PICK n : n = Len(Calling!Sequence(suite, name).steps)
    OBVIOUS
  <2>1. n \in Nat /\ DOMAIN Calling!Sequence(suite, name).steps = 1..n
    BY <1>3 DEF SequencesOf
  <2>2. DOMAIN calls[name] = 1..n
    BY <1>3, <2>1 DEF Calling!Calls
  <2>3. Len(calls[name]) = n
    <3>1. calls[name] = [i \in 1..n |-> calls[name][i]]
      BY <1>3, <2>1 DEF Calling!Calls
    <3>. QED BY <2>1, <3>1
  <2>. QED BY <2>1, <2>2, <2>3
<1>6. ASSUME NEW name \in N, NEW callee
      PROVE  callee \in Waits(calls, name) <=> callee \in Calling!Awaited(whole, suite, name)
  <2>1. CASE callee \notin N
    BY <1>4, <2>1 DEF Waits, Calling!Awaited
  <2>2. CASE callee \in N
    <3> PICK own : own = Calling!Sequence(suite, name)
      OBVIOUS
    <3> DEFINE Made(i) == /\ own.steps[i].command # None /\ own.waits
                          /\ Calling!Configured(whole[own.steps[i].command[1]], suite)
    <3>1. calls[name] = [i \in DOMAIN own.steps |->
             IF Made(i) THEN Calling!Called(suite, own.steps[i].command[2]) ELSE None]
      BY <1>3 DEF Calling!Calls
    <3>2. callee \in Calling!SequenceNames(suite) /\ callee # None
      <4>1. callee \in Calling!SequenceNames(suite)
        BY <1>1, <2>2
      <4>2. PICK i \in DOMAIN suite.sequences : suite.sequences[i].name = callee
        BY <4>1 DEF Calling!SequenceNames
      <4>3. suite.sequences[i] \in R
        BY ElementOfSeq, LenProperties DEF SequencesOf
      <4>. QED BY <4>1, <4>2, <4>3 DEF SequencesOf
    <3>3. \A i \in DOMAIN own.steps :
             calls[name][i] = callee <=> Made(i) /\ Lower(own.steps[i].command[2]) = Lower(callee)
      <4> SUFFICES ASSUME NEW i \in DOMAIN own.steps
                   PROVE  calls[name][i] = callee <=> Made(i) /\ Lower(own.steps[i].command[2]) = Lower(callee)
        OBVIOUS
      <4>1. calls[name][i] = IF Made(i) THEN Calling!Called(suite, own.steps[i].command[2]) ELSE None
        BY <3>1
      <4>2. Calling!Called(suite, own.steps[i].command[2]) = callee
               <=> Lower(own.steps[i].command[2]) = Lower(callee)
        BY <3>2, CalledByName
      <4> HIDE DEF Made
      <4>. QED BY <3>2, <4>1, <4>2
    <3>4. DOMAIN calls[name] = DOMAIN own.steps
      BY <3>1
    <3>5. callee \in Waits(calls, name) <=> \E i \in DOMAIN own.steps : calls[name][i] = callee
      BY <1>4, <2>2, <3>4 DEF Waits, Calling!Range
    <3>6. callee \in Calling!Awaited(whole, suite, name)
             <=> \E i \in DOMAIN own.steps : Made(i) /\ Lower(own.steps[i].command[2]) = Lower(callee)
      BY <2>2 DEF Calling!Awaited
    <3> HIDE DEF Made
    <3>. QED BY <3>3, <3>5, <3>6
  <2>. QED BY <2>1, <2>2
<1>7. ASSUME NEW name \in N PROVE Waits(calls, name) = Calling!Awaited(whole, suite, name)
  BY <1>6
<1>. QED BY <1>1, <1>2, <1>4, <1>5, <1>7 DEF CallsOf

LEMMA CyclesAreFound ==
    ASSUME NEW whole, NEW suite, NEW R, SequencesOf(suite, R)
    PROVE  Calling!SequencesEnd(whole, suite)
<1> PICK N : N = Calling!DeferredNames(suite)
  OBVIOUS
<1> PICK calls : calls = Calling!DeferredCalls(whole, suite)
  OBVIOUS
<1> DEFINE Awaits(name) == Calling!Awaited(whole, suite, name)
           All == Calling!SequenceNames(suite)
           Ends == \A names \in SUBSET All : names # {} => \E name \in names : Awaits(name) \cap names = {}
<1>1. CallsOf(calls, N) /\ N \subseteq All /\ \A name \in N : Waits(calls, name) = Awaits(name)
  BY CallsAreAwaited
<1>2. Calling!CycleFound(whole, suite) <=> Circle(calls)
  <2>1. Calling!SetToSeq(N) \in Seq(N) /\ Calling!Range(Calling!SetToSeq(N)) = N
    BY <1>1, SetsAreOrdered DEF CallsOf
  <2>2. Calling!Search(calls, Calling!SetToSeq(N)).cycle <=> Circle(calls)
    BY <1>1, <2>1, SearchIsRight
  <2>. QED BY <2>2 DEF Calling!CycleFound
<1>3. \A name : Awaits(name) \subseteq N
  BY DEF Calling!Awaited
<1>4. DOMAIN calls = N
  BY <1>1 DEF CallsOf
<1> HIDE DEF Awaits, All
<1>5. ASSUME Circle(calls) PROVE ~Ends
  <2>1. PICK S \in SUBSET N : S # {} /\ \A n \in S : Waits(calls, n) \cap S # {}
    BY <1>4, <1>5 DEF Circle
  <2>2. S \in SUBSET All /\ \A n \in S : Awaits(n) \cap S # {}
    BY <1>1, <2>1
  <2>. QED BY <2>1, <2>2
<1>6. ASSUME ~Circle(calls), NEW names \in SUBSET All, names # {}
      PROVE  \E name \in names : Awaits(name) \cap names = {}
  <2>1. CASE names \cap N = {}
    BY <1>3, <1>6, <2>1
  <2>2. CASE names \cap N # {}
    <3>1. names \cap N \in SUBSET DOMAIN calls
      BY <1>4
    <3>2. PICK n \in names \cap N : Waits(calls, n) \cap (names \cap N) = {}
      BY <1>6, <2>2, <3>1 DEF Circle
    <3>. QED BY <1>1, <1>3, <3>2
  <2>. QED BY <2>1, <2>2
<1>7. ~Calling!CycleFound(whole, suite) <=> Ends
  BY <1>2, <1>5, <1>6
<1>. QED BY <1>7 DEF Calling!SequencesEnd, Calling!SuiteResolves, All, Awaits

(* A suite whose steps resolve is refused just when some of its sequences   *)
(* each wait for the end of another of them (command_sequences.py), however *)
(* many there are and whatever they call, in whatever order the search goes *)
(* through them.                                                            *)
THEOREM SequencesAlwaysEnd ==
    ASSUME NEW R, given.kind = "sequences" => SequencesOf(given.suite, R)
    PROVE  SequencesEnd
BY CyclesAreFound DEF SequencesEnd

-----------------------------------------------------------------------------
(* AssemblyLists: the types of an assembly in the order they are listed.   *)

\* Types T made of each other, none of itself: what one is made of ranks lower.
TypesMade(T, madeOf, rank) ==
    /\ IsFiniteSet(T) /\ madeOf \in [T -> Seq(T)] /\ rank \in [T -> Nat]
    /\ \A t \in T : \A i \in DOMAIN madeOf[t] : rank[madeOf[t][i]] < rank[t]

\* Each type is listed once, and after those it is made of.
Good(T, madeOf, order) ==
    /\ order \in Seq(T)
    /\ \A i, j \in 1..Len(order) : order[i] = order[j] => i = j
    /\ \A i \in 1..Len(order) : \A p \in Ordering!Range(madeOf[order[i]]) :
          \E j \in 1..(i - 1) : order[j] = p

\* What a list that is searched for t becomes.
Grown(T, madeOf, order, least, most, new) ==
    /\ Good(T, madeOf, new)
    /\ Ordering!Range(order) \cup least \subseteq Ordering!Range(new)
    /\ Ordering!Range(new) \subseteq Ordering!Range(order) \cup most

SearchesRight(T, madeOf, search, deeper) ==
    \A t \in T, order \in Seq(T) :
        Good(T, madeOf, order) /\ Cardinality(Ordering!Reached(madeOf, {t})) <= deeper =>
            Grown(T, madeOf, order, Ordering!Range(madeOf[t]), Ordering!Reached(madeOf, {t}),
                  search[t][order])

LEMMA ReachedIsClosed ==
    ASSUME NEW T, NEW madeOf, DOMAIN madeOf = T, \A t \in T : Ordering!Range(madeOf[t]) \subseteq T,
           NEW from \in SUBSET T
    PROVE  /\ Ordering!Reached(madeOf, from) \in SUBSET T
           /\ from \subseteq Ordering!Reached(madeOf, from)
           /\ \A t \in Ordering!Reached(madeOf, from) :
                 Ordering!Range(madeOf[t]) \subseteq Ordering!Reached(madeOf, from)
           /\ \A all \in SUBSET T :
                 from \subseteq all /\ (\A u \in all : Ordering!Range(madeOf[u]) \subseteq all)
                 => Ordering!Reached(madeOf, from) \subseteq all
<1> DEFINE R == Ordering!Reached(madeOf, from)
           Closed(all) == from \subseteq all /\ \A u \in all : Ordering!Range(madeOf[u]) \subseteq all
<1>1. \A t : t \in R <=> t \in T /\ \A all \in SUBSET T : Closed(all) => t \in all
  BY DEF Ordering!Reached
<1> HIDE DEF R
<1>2. ASSUME NEW t \in R, NEW p \in Ordering!Range(madeOf[t]) PROVE p \in R
  <2>1. t \in T /\ p \in T
    BY <1>1, <1>2
  <2>2. ASSUME NEW all \in SUBSET T, Closed(all) PROVE p \in all
    <3>1. t \in all
      BY <1>1, <2>2
    <3>. QED BY <1>2, <2>2, <3>1
  <2> HIDE DEF Closed
  <2>. QED BY <1>1, <2>1, <2>2
<1>3. R \in SUBSET T /\ from \subseteq R
  BY <1>1
<1>4. \A all \in SUBSET T : Closed(all) => R \subseteq all
  <2> HIDE DEF Closed
  <2>. QED BY <1>1
<1>. QED BY <1>2, <1>3, <1>4 DEF R

\* A type is within more types than one it is made of.
LEMMA PartsReachLess ==
    ASSUME NEW T, NEW madeOf, NEW rank, TypesMade(T, madeOf, rank), NEW t \in T,
           NEW p \in Ordering!Range(madeOf[t])
    PROVE  /\ p \in T /\ Ordering!Reached(madeOf, {p}) \subseteq Ordering!Reached(madeOf, {t})
           /\ Cardinality(Ordering!Reached(madeOf, {p})) \in Nat
           /\ Cardinality(Ordering!Reached(madeOf, {t})) \in Nat
           /\ Cardinality(Ordering!Reached(madeOf, {p})) < Cardinality(Ordering!Reached(madeOf, {t}))
<1> PICK below : below = Ordering!Reached(madeOf, {p})
  OBVIOUS
<1> PICK all : all = Ordering!Reached(madeOf, {t})
  OBVIOUS
<1>1. /\ DOMAIN madeOf = T /\ \A u \in T : Ordering!Range(madeOf[u]) \subseteq T
      /\ \A u \in T : \A q \in Ordering!Range(madeOf[u]) : rank[q] < rank[u]
  <2>1. ASSUME NEW u \in T, NEW q \in Ordering!Range(madeOf[u]) PROVE q \in T /\ rank[q] < rank[u]
    <3>1. PICK i \in DOMAIN madeOf[u] : q = madeOf[u][i]
      BY DEF Ordering!Range
    <3>2. madeOf[u] \in Seq(T)
      BY DEF TypesMade
    <3>3. madeOf[u][i] \in T
      BY <3>2, LenProperties, ElementOfSeq
    <3>. QED BY <3>1, <3>3 DEF TypesMade
  <2>. QED BY <2>1 DEF TypesMade
<1>2. p \in T /\ {p} \in SUBSET T /\ {t} \in SUBSET T
  BY <1>1
<1>3. t \in all /\ p \in all /\ all \in SUBSET T /\ \A u \in all : Ordering!Range(madeOf[u]) \subseteq all
  BY <1>1, <1>2, ReachedIsClosed
<1>4. below \subseteq all
  BY <1>1, <1>2, <1>3, ReachedIsClosed
<1>5. t \notin below
  <2> DEFINE lower == {u \in T : rank[u] <= rank[p]}
  <2>1. \A u \in T : rank[u] \in Nat
    BY DEF TypesMade
  <2>2. ASSUME NEW u \in lower PROVE Ordering!Range(madeOf[u]) \subseteq lower
    BY <1>1, <1>2, <2>1
  <2>3. {p} \subseteq lower /\ lower \in SUBSET T
    BY <1>2, <2>1
  <2>4. t \notin lower
    BY <1>1, <1>2, <2>1
  <2> HIDE DEF lower
  <2>5. below \subseteq lower
    BY <1>1, <1>2, <2>2, <2>3, ReachedIsClosed
  <2>. QED BY <2>4, <2>5
<1>6. IsFiniteSet(all) /\ IsFiniteSet(below)
  <2>1. IsFiniteSet(all)
    BY <1>3, FS_Subset DEF TypesMade
  <2>. QED BY <1>4, <2>1, FS_Subset
<1>7. Cardinality(all) \in Nat /\ Cardinality(below) \in Nat
  BY <1>6, FS_CardinalityType
<1>8. Cardinality(below) <= Cardinality(all) /\ Cardinality(below) # Cardinality(all)
  <2>1. below \in SUBSET all /\ below # all
    BY <1>3, <1>4, <1>5
  <2>2. Cardinality(below) <= Cardinality(all) /\ (Cardinality(all) = Cardinality(below) => all = below)
    BY <1>6, <2>1, FS_Subset
  <2>3. Cardinality(all) # Cardinality(below)
    BY <2>1, <2>2
  <2>. QED BY <1>7, <2>2, <2>3
<1>9. Cardinality(below) < Cardinality(all)
  BY ONLY <1>7, <1>8
<1>. QED BY <1>2, <1>4, <1>7, <1>9

\* A type whose parts are listed is listed after them.
LEMMA ListedIsGood ==
    ASSUME NEW T, NEW madeOf, NEW order, Good(T, madeOf, order), NEW t \in T,
           Ordering!Range(madeOf[t]) \subseteq Ordering!Range(order)
    PROVE  /\ Good(T, madeOf, Ordering!Listed(order, t))
           /\ Ordering!Range(Ordering!Listed(order, t)) = Ordering!Range(order) \cup {t}
<1> PICK n : n = Len(order)
  OBVIOUS
<1>1. order \in Seq(T) /\ n \in Nat /\ DOMAIN order = 1..n
  BY LenProperties DEF Good
<1>2. CASE t \in Ordering!Range(order)
  BY <1>2 DEF Ordering!Listed
<1>3. CASE t \notin Ordering!Range(order)
  <2> PICK longer : longer = Append(order, t)
    OBVIOUS
  <2>1. Ordering!Listed(order, t) = longer
    BY <1>3 DEF Ordering!Listed
  <2>2. /\ longer \in Seq(T) /\ Len(longer) = n + 1 /\ longer[n + 1] = t
        /\ \A i \in 1..n : longer[i] = order[i]
    BY <1>1, AppendProperties
  <2>3. DOMAIN longer = 1..(n + 1) /\ \A i \in 1..(n + 1) : i \in 1..n \/ i = n + 1
    BY <1>1, <2>2, LenProperties
  <2>4. \A i \in 1..n : i \in 1..(n + 1) /\ order[i] # t
    BY <1>1, <1>3 DEF Ordering!Range
  <2>5. ASSUME NEW i \in 1..(n + 1), NEW j \in 1..(n + 1), longer[i] = longer[j] PROVE i = j
    <3>1. \A k, l \in 1..n : order[k] = order[l] => k = l
      BY DEF Good
    <3>. QED BY <2>2, <2>3, <2>4, <2>5, <3>1
  <2>6. ASSUME NEW i \in 1..(n + 1), NEW p \in Ordering!Range(madeOf[longer[i]])
        PROVE  \E j \in 1..(i - 1) : longer[j] = p
    <3>1. CASE i = n + 1
      <4>1. PICK j \in 1..n : order[j] = p
        <5>1. p \in Ordering!Range(madeOf[t])
          BY <2>2, <2>6, <3>1
        <5>2. p \in Ordering!Range(order)
          BY <5>1
        <5>. QED BY <1>1, <5>2 DEF Ordering!Range
      <4>2. j \in 1..(i - 1)
        BY <1>1, <3>1
      <4>. QED BY <2>2, <4>1, <4>2
    <3>2. CASE i # n + 1
      <4>1. i \in 1..n /\ longer[i] = order[i]
        BY <2>2, <2>3, <3>2
      <4>2. PICK j \in 1..(i - 1) : order[j] = p
        BY <2>6, <4>1 DEF Good
      <4>3. j \in 1..n
        BY <1>1, <4>1
      <4>. QED BY <2>2, <4>2, <4>3
    <3>. QED BY <3>1, <3>2
  <2>7. Good(T, madeOf, longer)
    BY <2>2, <2>5, <2>6 DEF Good
  <2>8. Ordering!Range(longer) = Ordering!Range(order) \cup {t}
    <3>1. n + 1 \in 1..(n + 1)
      BY <1>1
    <3>. QED BY <1>1, <2>2, <2>3, <2>4, <3>1 DEF Ordering!Range
  <2>. QED BY <2>1, <2>7, <2>8
<1>. QED BY <1>2, <1>3

\* The steps of Searched.
SearchedBy(after, search, madeOf, order, t, n) ==
    after = [k \in 0..n |->
                IF k = 0 THEN order
                ELSE Ordering!Listed(search[madeOf[t][k]][after[k - 1]], madeOf[t][k])]

\* The function of Searched unfolds.
LEMMA SearchedUnfolds ==
    ASSUME NEW search, NEW madeOf, NEW order, NEW t, NEW n \in Nat, Len(madeOf[t]) = n
    PROVE  \E after :
              /\ SearchedBy(after, search, madeOf, order, t, n)
              /\ Ordering!Searched(search, madeOf, order, t) = after[n]
<1> DEFINE one(f, k) == IF k = 0 THEN order
                       ELSE Ordering!Listed(search[madeOf[t][k]][f[k - 1]], madeOf[t][k])
           next(f, m) == [k \in 0..m |-> one(f, k)]
           Lacking == {m \in 0..n : ~ \E f : f = next(f, m)}
<1>1. n \in Nat
  OBVIOUS
<1>2. ASSUME NEW f, NEW g, NEW k, k = 0 \/ f[k - 1] = g[k - 1]
      PROVE  one(f, k) = one(g, k)
  <2>1. CASE k = 0
    BY <2>1
  <2>2. CASE k # 0
    BY <1>2, <2>2
  <2>. QED BY <2>1, <2>2
<1> HIDE DEF one
<1>3. Lacking = {}
  <2> SUFFICES ASSUME Lacking # {} PROVE FALSE
    OBVIOUS
  <2>1. PICK m \in Lacking : \A i \in Lacking : m <= i
    <3>1. Lacking \in SUBSET Nat
      OBVIOUS
    <3> HIDE DEF Lacking
    <3>. QED BY <3>1, LeastExists
  <2>2. m # 0
    <3>1. SUFFICES ASSUME m = 0 PROVE FALSE
      OBVIOUS
    <3> DEFINE f == [k \in 0..m |-> one(0, k)]
    <3>2. \A k \in 0..m : one(0, k) = one(f, k)
      BY <1>2, <3>1
    <3>3. f = next(f, m)
      BY <3>2
    <3>. QED BY <3>3
  <2>3. m - 1 \in 0..n /\ m - 1 \notin Lacking /\ m \in 1..n
    <3>1. m \in 0..n /\ m # 0
      BY <2>2
    <3>2. m \in 1..n /\ m - 1 \in 0..n /\ ~(m <= m - 1)
      BY ONLY <1>1, <3>1
    <3>. QED BY ONLY <2>1, <3>2
  <2>4. PICK f : f = next(f, m - 1)
    BY <2>3
  <2> DEFINE g == [k \in 0..m |-> IF k < m THEN f[k] ELSE one(f, k)]
  <2>5. ASSUME NEW k \in 0..m PROVE k = 0 \/ g[k - 1] = f[k - 1]
    BY <1>1, <2>3
  <2>6. ASSUME NEW k \in 0..m PROVE g[k] = one(g, k)
    <3>1. one(g, k) = one(f, k)
      <4>1. k = 0 \/ g[k - 1] = f[k - 1]
        BY <2>5
      <4> HIDE DEF g
      <4>. QED BY <1>2, <4>1
    <3>2. CASE k < m
      <4>1. k \in 0..(m - 1) /\ g[k] = f[k]
        BY <1>1, <2>3, <3>2
      <4>2. f[k] = one(f, k)
        BY <2>4, <4>1
      <4>. QED BY <3>1, <4>1, <4>2
    <3>3. CASE ~(k < m)
      BY <3>1, <3>3
    <3>. QED BY <3>2, <3>3
  <2>7. g = [k \in 0..m |-> g[k]]
    OBVIOUS
  <2>8. g = next(g, m)
    <3> HIDE DEF g
    <3>. QED BY <2>6, <2>7
  <2>. QED BY <2>8
<1>4. \E f : f = next(f, n)
  <2>1. n \in 0..n
    BY <1>1
  <2> HIDE DEF next
  <2>. QED BY <1>3, <2>1
<1>5. PICK f : f = (CHOOSE h : h = next(h, n))
  OBVIOUS
<1>6. f = next(f, n)
  BY <1>4, <1>5
<1>7. Ordering!Searched(search, madeOf, order, t) = f[n]
  BY <1>5 DEF Ordering!Searched, one
<1>. QED BY <1>6, <1>7 DEF one, SearchedBy

LEMMA SearchedIsRight ==
    ASSUME NEW T, NEW madeOf, NEW rank, TypesMade(T, madeOf, rank),
           NEW search, NEW deeper \in Nat, SearchesRight(T, madeOf, search, deeper),
           NEW t \in T, NEW order, Good(T, madeOf, order),
           Cardinality(Ordering!Reached(madeOf, {t})) <= deeper + 1
    PROVE  Grown(T, madeOf, order, Ordering!Range(madeOf[t]), Ordering!Reached(madeOf, {t}),
                 Ordering!Searched(search, madeOf, order, t))
<1> PICK n : n = Len(madeOf[t])
  OBVIOUS
<1> PICK all : all = Ordering!Reached(madeOf, {t})
  OBVIOUS
<1>1. n \in Nat /\ madeOf[t] \in Seq(T) /\ DOMAIN madeOf[t] = 1..n
  BY LenProperties DEF TypesMade
<1>2. PICK after :
         /\ SearchedBy(after, search, madeOf, order, t, n)
         /\ Ordering!Searched(search, madeOf, order, t) = after[n]
  BY <1>1, SearchedUnfolds
<1> DEFINE Found(k) == {madeOf[t][j] : j \in 1..k}
           Wrong == {k \in 0..n : ~Grown(T, madeOf, order, Found(k), all, after[k])}
<1>3. Wrong = {}
  <2> SUFFICES ASSUME Wrong # {} PROVE FALSE
    OBVIOUS
  <2>1. PICK k \in Wrong : \A i \in Wrong : k <= i
    <3>1. Wrong \in SUBSET Nat
      BY <1>1
    <3> HIDE DEF Wrong
    <3>. QED BY <3>1, LeastExists
  <2>2. k \in 0..n /\ ~Grown(T, madeOf, order, Found(k), all, after[k])
    OBVIOUS
  <2>3. CASE k = 0
    <3>1. after[k] = order /\ Found(k) = {}
      BY <1>2, <2>2, <2>3 DEF SearchedBy
    <3> HIDE DEF Found, Wrong
    <3>. QED BY <2>2, <3>1 DEF Grown
  <2>4. CASE k # 0
    <3>1. k - 1 \in 0..n /\ k \in 1..n /\ ~(k <= k - 1)
      BY <1>1, <2>2, <2>4
    <3>2. Grown(T, madeOf, order, Found(k - 1), all, after[k - 1])
      BY <2>1, <3>1
    <3> PICK p : p = madeOf[t][k]
      OBVIOUS
    <3> PICK so : so = after[k - 1]
      OBVIOUS
    <3>3. after[k] = Ordering!Listed(search[p][so], p)
      BY <1>2, <2>2, <2>4 DEF SearchedBy
    <3>4. p \in Ordering!Range(madeOf[t])
      BY <1>1, <3>1 DEF Ordering!Range
    <3>5. Found(k) = Found(k - 1) \cup {p}
      <4>1. \A j \in 1..k : j = k \/ j \in 1..(k - 1)
        BY <1>1, <3>1
      <4>2. \A j \in 1..(k - 1) : j \in 1..k
        BY <1>1, <3>1
      <4>. QED BY <3>1, <4>1, <4>2
    <3> HIDE DEF Found, Wrong
    <3>6. /\ p \in T /\ Ordering!Reached(madeOf, {p}) \subseteq all
          /\ Cardinality(Ordering!Reached(madeOf, {p})) <= deeper
      <4>1. /\ p \in T /\ Ordering!Reached(madeOf, {p}) \subseteq Ordering!Reached(madeOf, {t})
            /\ Cardinality(Ordering!Reached(madeOf, {p})) \in Nat
            /\ Cardinality(Ordering!Reached(madeOf, {t})) \in Nat
            /\ Cardinality(Ordering!Reached(madeOf, {p})) < Cardinality(Ordering!Reached(madeOf, {t}))
        BY <3>4, PartsReachLess
      <4>2. \A a, b \in Nat : a < b /\ b <= deeper + 1 => a <= deeper
        OBVIOUS
      <4>. QED BY <4>1, <4>2
    <3>7. p \in all
      <4>1. \A u \in T : Ordering!Range(madeOf[u]) \subseteq T
        <5> SUFFICES ASSUME NEW u \in T PROVE Ordering!Range(madeOf[u]) \subseteq T
          OBVIOUS
        <5>1. madeOf[u] \in Seq(T)
          BY DEF TypesMade
        <5>. QED BY <5>1, LenProperties, ElementOfSeq DEF Ordering!Range
      <4>2. p \in Ordering!Reached(madeOf, {p})
        <5>1. {p} \in SUBSET T /\ DOMAIN madeOf = T
          BY <3>6 DEF TypesMade
        <5>2. {p} \subseteq Ordering!Reached(madeOf, {p})
          BY <4>1, <5>1, ReachedIsClosed
        <5>. QED BY <5>2
      <4>. QED BY <3>6, <4>2
    <3>8. Grown(T, madeOf, so, Ordering!Range(madeOf[p]), Ordering!Reached(madeOf, {p}), search[p][so])
      <4>1. Good(T, madeOf, so) /\ so \in Seq(T)
        BY <3>2 DEF Grown, Good
      <4>. QED BY <3>6, <4>1 DEF SearchesRight
    <3> PICK new : new = search[p][so]
      OBVIOUS
    <3>9. /\ Good(T, madeOf, Ordering!Listed(new, p))
          /\ Ordering!Range(Ordering!Listed(new, p)) = Ordering!Range(new) \cup {p}
      <4>1. Good(T, madeOf, new) /\ Ordering!Range(madeOf[p]) \subseteq Ordering!Range(new)
        BY <3>8 DEF Grown
      <4>. QED BY <3>6, <4>1, ListedIsGood
    <3>10. /\ Ordering!Range(order) \cup Found(k - 1) \subseteq Ordering!Range(so)
           /\ Ordering!Range(so) \subseteq Ordering!Range(order) \cup all
           /\ Ordering!Range(so) \subseteq Ordering!Range(new)
           /\ Ordering!Range(new) \subseteq Ordering!Range(so) \cup Ordering!Reached(madeOf, {p})
      BY <3>2, <3>8 DEF Grown
    <3>11. Grown(T, madeOf, order, Found(k), all, Ordering!Listed(new, p))
      BY <3>5, <3>6, <3>7, <3>9, <3>10 DEF Grown
    <3>. QED BY <2>2, <3>3, <3>11
  <2>. QED BY <2>3, <2>4
<1>4. n \in 0..n /\ Found(n) = Ordering!Range(madeOf[t])
  BY <1>1 DEF Ordering!Range
<1> HIDE DEF Found
<1>. QED BY <1>2, <1>3, <1>4

\* The function of Search unfolds.
LEMMA TypeSearchUnfolds ==
    ASSUME NEW madeOf, NEW n \in Nat, Ordering!Cardinality(DOMAIN madeOf) = n
    PROVE  \E search :
              /\ search = [deeper \in 0..n |-> [t \in DOMAIN madeOf |-> [order \in Seq(DOMAIN madeOf) |->
                    IF deeper = 0 THEN order
                    ELSE Ordering!Searched(search[deeper - 1], madeOf, order, t)]]]
              /\ Ordering!Search(madeOf) = search[n]
<1> DEFINE one(f, k) == [t \in DOMAIN madeOf |-> [order \in Seq(DOMAIN madeOf) |->
                           IF k = 0 THEN order ELSE Ordering!Searched(f[k - 1], madeOf, order, t)]]
           next(f, m) == [k \in 0..m |-> one(f, k)]
           Lacking == {m \in 0..n : ~ \E f : f = next(f, m)}
<1>1. n \in Nat
  OBVIOUS
<1>2. ASSUME NEW f, NEW g, NEW k, k = 0 \/ f[k - 1] = g[k - 1]
      PROVE  one(f, k) = one(g, k)
  <2>1. CASE k = 0
    BY <2>1
  <2>2. CASE k # 0
    BY <1>2, <2>2
  <2>. QED BY <2>1, <2>2
<1> HIDE DEF one
<1>3. Lacking = {}
  <2> SUFFICES ASSUME Lacking # {} PROVE FALSE
    OBVIOUS
  <2>1. PICK m \in Lacking : \A i \in Lacking : m <= i
    <3>1. Lacking \in SUBSET Nat
      OBVIOUS
    <3> HIDE DEF Lacking
    <3>. QED BY <3>1, LeastExists
  <2>2. m # 0
    <3>1. SUFFICES ASSUME m = 0 PROVE FALSE
      OBVIOUS
    <3> DEFINE f == [k \in 0..m |-> one(0, k)]
    <3>2. \A k \in 0..m : one(0, k) = one(f, k)
      BY <1>2, <3>1
    <3>3. f = next(f, m)
      BY <3>2
    <3>. QED BY <3>3
  <2>3. m - 1 \in 0..n /\ m - 1 \notin Lacking /\ m \in 1..n
    <3>1. m \in 0..n /\ m # 0
      BY <2>2
    <3>2. m \in 1..n /\ m - 1 \in 0..n /\ ~(m <= m - 1)
      BY ONLY <1>1, <3>1
    <3>. QED BY ONLY <2>1, <3>2
  <2>4. PICK f : f = next(f, m - 1)
    BY <2>3
  <2> DEFINE g == [k \in 0..m |-> IF k < m THEN f[k] ELSE one(f, k)]
  <2>5. ASSUME NEW k \in 0..m PROVE k = 0 \/ g[k - 1] = f[k - 1]
    BY <1>1, <2>3
  <2>6. ASSUME NEW k \in 0..m PROVE g[k] = one(g, k)
    <3>1. one(g, k) = one(f, k)
      <4>1. k = 0 \/ g[k - 1] = f[k - 1]
        BY <2>5
      <4> HIDE DEF g
      <4>. QED BY <1>2, <4>1
    <3>2. CASE k < m
      <4>1. k \in 0..(m - 1) /\ g[k] = f[k]
        BY <1>1, <2>3, <3>2
      <4>2. f[k] = one(f, k)
        BY <2>4, <4>1
      <4>. QED BY <3>1, <4>1, <4>2
    <3>3. CASE ~(k < m)
      BY <3>1, <3>3
    <3>. QED BY <3>2, <3>3
  <2>7. g = [k \in 0..m |-> g[k]]
    OBVIOUS
  <2>8. g = next(g, m)
    <3> HIDE DEF g
    <3>. QED BY <2>6, <2>7
  <2>. QED BY <2>8
<1>4. \E f : f = next(f, n)
  <2>1. n \in 0..n
    BY <1>1
  <2> HIDE DEF next
  <2>. QED BY <1>3, <2>1
<1>5. PICK f : f = (CHOOSE h : h = next(h, n))
  OBVIOUS
<1>6. f = next(f, n)
  BY <1>4, <1>5
<1>7. Ordering!Search(madeOf) = f[n]
  BY <1>5 DEF Ordering!Search, one
<1>. QED BY <1>6, <1>7 DEF one

LEMMA TypeSearchIsRight ==
    ASSUME NEW T, NEW madeOf, NEW rank, TypesMade(T, madeOf, rank)
    PROVE  \A t \in T, order \in Seq(T) : Good(T, madeOf, order) =>
              Grown(T, madeOf, order, Ordering!Range(madeOf[t]), Ordering!Reached(madeOf, {t}),
                    Ordering!Search(madeOf)[t][order])
<1> PICK n : n = Cardinality(T)
  OBVIOUS
<1>1. n \in Nat /\ DOMAIN madeOf = T /\ Ordering!Cardinality(T) = n
  BY FS_CardinalityType DEF TypesMade, Ordering!Cardinality, Cardinality
<1>2. PICK search :
         /\ search = [deeper \in 0..n |-> [t \in DOMAIN madeOf |-> [order \in Seq(DOMAIN madeOf) |->
               IF deeper = 0 THEN order
               ELSE Ordering!Searched(search[deeper - 1], madeOf, order, t)]]]
         /\ Ordering!Search(madeOf) = search[n]
  BY <1>1, TypeSearchUnfolds
<1>3. \A u \in T : Ordering!Range(madeOf[u]) \subseteq T
  <2> SUFFICES ASSUME NEW u \in T PROVE Ordering!Range(madeOf[u]) \subseteq T
    OBVIOUS
  <2>1. madeOf[u] \in Seq(T)
    BY DEF TypesMade
  <2>. QED BY <2>1, LenProperties, ElementOfSeq DEF Ordering!Range
<1>4. ASSUME NEW t \in T
      PROVE  /\ Cardinality(Ordering!Reached(madeOf, {t})) \in Nat
             /\ 1 <= Cardinality(Ordering!Reached(madeOf, {t}))
             /\ Cardinality(Ordering!Reached(madeOf, {t})) <= n
  <2> PICK all : all = Ordering!Reached(madeOf, {t})
    OBVIOUS
  <2>1. {t} \in SUBSET T
    OBVIOUS
  <2>2. all \in SUBSET T /\ t \in all
    BY <1>1, <1>3, <2>1, ReachedIsClosed
  <2>3. IsFiniteSet(all) /\ Cardinality(all) <= n
    BY <2>2, FS_Subset DEF TypesMade
  <2>4. Cardinality(all) \in Nat /\ Cardinality(all) # 0
    BY <2>2, <2>3, FS_CardinalityType, FS_EmptySet
  <2>. QED BY <2>3, <2>4
<1> DEFINE Wrong == {d \in 0..n : ~SearchesRight(T, madeOf, search[d], d)}
<1>5. Wrong = {}
  <2> SUFFICES ASSUME Wrong # {} PROVE FALSE
    OBVIOUS
  <2>1. PICK d \in Wrong : \A i \in Wrong : d <= i
    <3>1. Wrong \in SUBSET Nat
      BY <1>1
    <3> HIDE DEF Wrong
    <3>. QED BY <3>1, LeastExists
  <2>2. d \in 0..n /\ ~SearchesRight(T, madeOf, search[d], d)
    OBVIOUS
  <2>3. ASSUME NEW t \in T, NEW order \in Seq(T), Good(T, madeOf, order),
               Cardinality(Ordering!Reached(madeOf, {t})) <= d
        PROVE  Grown(T, madeOf, order, Ordering!Range(madeOf[t]), Ordering!Reached(madeOf, {t}),
                     search[d][t][order])
    <3>1. d \in 1..n /\ d - 1 \in 0..n /\ ~(d <= d - 1) /\ d # 0
      BY <1>1, <1>4, <2>2, <2>3
    <3>2. search[d][t][order] = Ordering!Searched(search[d - 1], madeOf, order, t)
      <4>1. search[d] = [u \in DOMAIN madeOf |-> [o \in Seq(DOMAIN madeOf) |->
               IF d = 0 THEN o ELSE Ordering!Searched(search[d - 1], madeOf, o, u)]]
        BY <1>2, <2>2
      <4> HIDE DEF Wrong
      <4>2. search[d][t] = [o \in Seq(DOMAIN madeOf) |->
               IF d = 0 THEN o ELSE Ordering!Searched(search[d - 1], madeOf, o, t)]
        BY <1>1, <4>1
      <4>. QED BY <1>1, <3>1, <4>2
    <3>3. SearchesRight(T, madeOf, search[d - 1], d - 1)
      BY <2>1, <3>1
    <3>4. d - 1 \in Nat /\ Cardinality(Ordering!Reached(madeOf, {t})) <= (d - 1) + 1
      BY <1>1, <1>4, <2>3, <3>1
    <3> HIDE DEF Wrong
    <3>. QED BY <2>3, <3>2, <3>3, <3>4, SearchedIsRight
  <2>. QED BY <2>2, <2>3 DEF SearchesRight
<1>6. SearchesRight(T, madeOf, search[n], n)
  BY <1>1, <1>5
<1> HIDE DEF Wrong
<1>. QED BY <1>2, <1>4, <1>6 DEF SearchesRight

\* The function of TypesInOrder unfolds.
LEMMA TypesUnfold ==
    ASSUME NEW madeOf, NEW types, NEW n \in Nat, Len(types) = n
    PROVE  \E order :
              /\ order = [k \in 0..n |-> IF k = 0 THEN <<>>
                            ELSE Ordering!Listed(Ordering!Search(madeOf)[types[k]][order[k - 1]], types[k])]
              /\ Ordering!TypesInOrder(madeOf, types) = order[n]
<1> DEFINE one(f, k) == IF k = 0 THEN <<>>
                       ELSE Ordering!Listed(Ordering!Search(madeOf)[types[k]][f[k - 1]], types[k])
           next(f, m) == [k \in 0..m |-> one(f, k)]
           Lacking == {m \in 0..n : ~ \E f : f = next(f, m)}
<1>1. n \in Nat
  OBVIOUS
<1>2. ASSUME NEW f, NEW g, NEW k, k = 0 \/ f[k - 1] = g[k - 1]
      PROVE  one(f, k) = one(g, k)
  <2>1. CASE k = 0
    BY <2>1
  <2>2. CASE k # 0
    BY <1>2, <2>2
  <2>. QED BY <2>1, <2>2
<1> HIDE DEF one
<1>3. Lacking = {}
  <2> SUFFICES ASSUME Lacking # {} PROVE FALSE
    OBVIOUS
  <2>1. PICK m \in Lacking : \A i \in Lacking : m <= i
    <3>1. Lacking \in SUBSET Nat
      OBVIOUS
    <3> HIDE DEF Lacking
    <3>. QED BY <3>1, LeastExists
  <2>2. m # 0
    <3>1. SUFFICES ASSUME m = 0 PROVE FALSE
      OBVIOUS
    <3> DEFINE f == [k \in 0..m |-> one(0, k)]
    <3>2. \A k \in 0..m : one(0, k) = one(f, k)
      BY <1>2, <3>1
    <3>3. f = next(f, m)
      BY <3>2
    <3>. QED BY <3>3
  <2>3. m - 1 \in 0..n /\ m - 1 \notin Lacking /\ m \in 1..n
    <3>1. m \in 0..n /\ m # 0
      BY <2>2
    <3>2. m \in 1..n /\ m - 1 \in 0..n /\ ~(m <= m - 1)
      BY ONLY <1>1, <3>1
    <3>. QED BY ONLY <2>1, <3>2
  <2>4. PICK f : f = next(f, m - 1)
    BY <2>3
  <2> DEFINE g == [k \in 0..m |-> IF k < m THEN f[k] ELSE one(f, k)]
  <2>5. ASSUME NEW k \in 0..m PROVE k = 0 \/ g[k - 1] = f[k - 1]
    BY <1>1, <2>3
  <2>6. ASSUME NEW k \in 0..m PROVE g[k] = one(g, k)
    <3>1. one(g, k) = one(f, k)
      <4>1. k = 0 \/ g[k - 1] = f[k - 1]
        BY <2>5
      <4> HIDE DEF g
      <4>. QED BY <1>2, <4>1
    <3>2. CASE k < m
      <4>1. k \in 0..(m - 1) /\ g[k] = f[k]
        BY <1>1, <2>3, <3>2
      <4>2. f[k] = one(f, k)
        BY <2>4, <4>1
      <4>. QED BY <3>1, <4>1, <4>2
    <3>3. CASE ~(k < m)
      BY <3>1, <3>3
    <3>. QED BY <3>2, <3>3
  <2>7. g = [k \in 0..m |-> g[k]]
    OBVIOUS
  <2>8. g = next(g, m)
    <3> HIDE DEF g
    <3>. QED BY <2>6, <2>7
  <2>. QED BY <2>8
<1>4. \E f : f = next(f, n)
  <2>1. n \in 0..n
    BY <1>1
  <2> HIDE DEF next
  <2>. QED BY <1>3, <2>1
<1>5. PICK f : f = (CHOOSE h : h = next(h, n))
  OBVIOUS
<1>6. f = next(f, n)
  BY <1>4, <1>5
<1>7. Ordering!TypesInOrder(madeOf, types) = f[n]
  BY <1>5 DEF Ordering!TypesInOrder, one
<1>. QED BY <1>6, <1>7 DEF one

LEMMA TypesAreInOrder ==
    ASSUME NEW T, NEW madeOf, NEW rank, TypesMade(T, madeOf, rank), NEW types \in Seq(T)
    PROVE  Ordering!TypesComeFirst(madeOf, types)
<1> PICK n : n = Len(types)
  OBVIOUS
<1> PICK all : all = Ordering!Reached(madeOf, Ordering!Range(types))
  OBVIOUS
<1>1. /\ n \in Nat /\ DOMAIN types = 1..n /\ \A i \in 1..n : types[i] \in T
      /\ DOMAIN madeOf = T
  BY LenProperties, ElementOfSeq DEF TypesMade
<1>2. \A u \in T : Ordering!Range(madeOf[u]) \subseteq T
  <2> SUFFICES ASSUME NEW u \in T PROVE Ordering!Range(madeOf[u]) \subseteq T
    OBVIOUS
  <2>1. madeOf[u] \in Seq(T)
    BY DEF TypesMade
  <2>. QED BY <2>1, LenProperties, ElementOfSeq DEF Ordering!Range
<1>3. /\ Ordering!Range(types) \in SUBSET T /\ all \in SUBSET T /\ Ordering!Range(types) \subseteq all
      /\ \A t \in all : Ordering!Range(madeOf[t]) \subseteq all
      /\ \A c \in SUBSET T : Ordering!Range(types) \subseteq c
            /\ (\A u \in c : Ordering!Range(madeOf[u]) \subseteq c) => all \subseteq c
  <2>1. Ordering!Range(types) \in SUBSET T
    BY <1>1 DEF Ordering!Range
  <2>. QED BY <1>1, <1>2, <2>1, ReachedIsClosed
<1>4. PICK order :
         /\ order = [k \in 0..n |-> IF k = 0 THEN <<>>
                       ELSE Ordering!Listed(Ordering!Search(madeOf)[types[k]][order[k - 1]], types[k])]
         /\ Ordering!TypesInOrder(madeOf, types) = order[n]
  BY <1>1, TypesUnfold
<1> DEFINE Named(k) == {types[j] : j \in 1..k}
           Fine(k) == Grown(T, madeOf, <<>>, Named(k), all, order[k])
           Wrong == {k \in 0..n : ~Fine(k)}
<1>5. Wrong = {}
  <2> SUFFICES ASSUME Wrong # {} PROVE FALSE
    OBVIOUS
  <2>1. PICK k \in Wrong : \A i \in Wrong : k <= i
    <3>1. Wrong \in SUBSET Nat
      BY <1>1
    <3> HIDE DEF Wrong
    <3>. QED BY <3>1, LeastExists
  <2>2. k \in 0..n /\ ~Fine(k)
    OBVIOUS
  <2>3. CASE k = 0
    <3>1. order[k] = <<>> /\ Named(k) = {}
      BY <1>4, <2>2, <2>3
    <3>2. Good(T, madeOf, <<>>)
      <4>1. <<>> \in Seq(T) /\ Len(<<>>) = 0 /\ 1..0 = {}
        BY EmptySeq
      <4>. QED BY <4>1 DEF Good
    <3> HIDE DEF Named
    <3>. QED BY <2>2, <3>1, <3>2 DEF Grown
  <2>4. CASE k # 0
    <3>1. k - 1 \in 0..n /\ k \in 1..n /\ ~(k <= k - 1)
      BY <1>1, <2>2, <2>4
    <3>2. Fine(k - 1)
      BY <2>1, <3>1
    <3> PICK t : t = types[k]
      OBVIOUS
    <3> PICK so : so = order[k - 1]
      OBVIOUS
    <3> PICK new : new = Ordering!Search(madeOf)[t][so]
      BY ONLY TRUE
    <3>3. order[k] = Ordering!Listed(new, t)
      BY <1>4, <2>2, <2>4
    <3>4. t \in T /\ t \in Ordering!Range(types)
      BY <1>1, <3>1 DEF Ordering!Range
    <3>5. Named(k) = Named(k - 1) \cup {t}
      <4>1. \A j \in 1..k : j = k \/ j \in 1..(k - 1)
        BY <1>1, <3>1
      <4>2. \A j \in 1..(k - 1) : j \in 1..k
        BY <1>1, <3>1
      <4>. QED BY <3>1, <4>1, <4>2
    <3> HIDE DEF Named, Wrong
    <3>6. Grown(T, madeOf, so, Ordering!Range(madeOf[t]), Ordering!Reached(madeOf, {t}), new)
      <4>1. Good(T, madeOf, so) /\ so \in Seq(T)
        BY <3>2 DEF Grown, Good
      <4>. QED BY <3>4, <4>1, TypeSearchIsRight
    <3>7. Ordering!Reached(madeOf, {t}) \subseteq all
      <4>1. {t} \in SUBSET T /\ {t} \subseteq all
        BY <1>3, <3>4
      <4>. QED BY <1>1, <1>2, <1>3, <4>1, ReachedIsClosed
    <3>8. /\ Good(T, madeOf, Ordering!Listed(new, t))
          /\ Ordering!Range(Ordering!Listed(new, t)) = Ordering!Range(new) \cup {t}
      <4>1. Good(T, madeOf, new) /\ Ordering!Range(madeOf[t]) \subseteq Ordering!Range(new)
        BY <3>6 DEF Grown
      <4>. QED BY <3>4, <4>1, ListedIsGood
    <3>9. /\ Ordering!Range(<<>>) \cup Named(k - 1) \subseteq Ordering!Range(so)
          /\ Ordering!Range(so) \subseteq Ordering!Range(<<>>) \cup all
          /\ Ordering!Range(so) \subseteq Ordering!Range(new)
          /\ Ordering!Range(new) \subseteq Ordering!Range(so) \cup Ordering!Reached(madeOf, {t})
      BY <3>2, <3>6 DEF Grown
    <3>10. t \in all
      BY <1>3, <3>4
    <3>11. Fine(k)
      BY <3>3, <3>5, <3>7, <3>8, <3>9, <3>10 DEF Grown
    <3>. QED BY <2>2, <3>11
  <2>. QED BY <2>3, <2>4
<1> PICK last : last = order[n]
  OBVIOUS
<1>6. Good(T, madeOf, last) /\ Ordering!Range(types) \subseteq Ordering!Range(last) /\ Ordering!Range(last) \subseteq all
  <2>1. n \in 0..n /\ Named(n) = Ordering!Range(types) /\ Ordering!Range(<<>>) = {}
    BY <1>1 DEF Ordering!Range
  <2> HIDE DEF Named
  <2>. QED BY <1>5, <2>1 DEF Grown
<1> HIDE DEF Named, Fine, Wrong
<1>7. last \in Seq(T) /\ Len(last) \in Nat /\ DOMAIN last = 1..Len(last)
  BY <1>6, LenProperties DEF Good
<1>8. ASSUME NEW i \in DOMAIN last, NEW p \in Ordering!Range(madeOf[last[i]])
      PROVE  p \in Ordering!Range(SubSeq(last, 1, i - 1)) /\ p \in Ordering!Range(last)
  <2>1. PICK j \in 1..(i - 1) : last[j] = p
    <3>1. i \in 1..Len(last)
      BY <1>7
    <3>2. \A k \in 1..Len(last) : \A q \in Ordering!Range(madeOf[last[k]]) :
             \E j \in 1..(k - 1) : last[j] = q
      BY <1>6 DEF Good
    <3>. QED BY ONLY <1>8, <3>1, <3>2
  <2>2. j \in DOMAIN last /\ i - 1 \in 0..Len(last)
    BY <1>7
  <2>3. j \in DOMAIN SubSeq(last, 1, i - 1) /\ SubSeq(last, 1, i - 1)[j] = p
    BY <1>7, <2>1, <2>2, SubSeqProperties
  <2>. QED BY <2>1, <2>2, <2>3 DEF Ordering!Range
<1>9. Ordering!Range(last) = all
  <2>1. Ordering!Range(last) \in SUBSET T
    BY <1>3, <1>6
  <2>2. \A u \in Ordering!Range(last) : Ordering!Range(madeOf[u]) \subseteq Ordering!Range(last)
    <3> SUFFICES ASSUME NEW u \in Ordering!Range(last), NEW p \in Ordering!Range(madeOf[u])
                 PROVE  p \in Ordering!Range(last)
      OBVIOUS
    <3>1. PICK i \in DOMAIN last : u = last[i]
      BY DEF Ordering!Range
    <3>. QED BY <1>8, <3>1
  <2>3. all \subseteq Ordering!Range(last)
    BY <1>3, <1>6, <2>1, <2>2
  <2>. QED BY <1>6, <2>3
<1>10. Ordering!IsInjective(last)
  BY <1>6, <1>7 DEF Good, Ordering!IsInjective
<1>11. Ordering!TypesInOrder(madeOf, types) = last
  BY <1>4
<1>. QED BY <1>8, <1>9, <1>10, <1>11 DEF Ordering!TypesComeFirst, Ordering!AllTypes

(* The complex types of an assembly, and all that these are made of, are   *)
(* listed once each, and none before one that it is made of (assembly.py,  *)
(* _load_complex_types): for any types, as long as none is made of itself. *)
THEOREM TypesAlwaysComeFirst ==
    ASSUME NEW T, NEW rank,
           given.kind = "types" => TypesMade(T, given.madeOf, rank) /\ given.types \in Seq(T)
    PROVE  TypesComeFirst
BY TypesAreInOrder DEF TypesComeFirst

=============================================================================
