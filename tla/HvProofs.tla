------------------------------- MODULE HvProofs -------------------------------
(***************************************************************************)
(* Proofs about the hypervisor: the memory (HvMm), the PCI bus (HvPci) and *)
(* the interrupts (HvIrq) that it gives its guests.  Each component is an  *)
(* instance of its module; what its constants are assumed to be is a       *)
(* hypothesis of its theorem.                                              *)
(***************************************************************************)
EXTENDS QueueLemmas

USE ZenonT(10), SMTT(30)

-----------------------------------------------------------------------------
(***************************************************************************)
(* The memory of a guest (HvMm).                                           *)
(***************************************************************************)
CONSTANTS Tables, Entries, LAPIC, Files, Values, Codes, MAX_PAGES
VARIABLES page_areas, mem, tables, ept, emulated, rip, ram

mm == INSTANCE HvMm

\* The local APIC has a page of its own; a guest does not write what an EPT table
\* holds by other means than its own memory.
MmConstants == LAPIC \in mm!Pages /\ "table" \notin Values

Bytes == Values \cup {"file", "zero"}
Area == [gpage : mm!Pages \cup {mm!NoPage}, internal : BOOLEAN]
Memory == [areas : Seq(Area), mem : Seq(Bytes \cup {"table"}), tables : SUBSET Tables, ept : [mm!Pages -> Nat]]

\* s: the areas, memory and tables of the server; r: what the guest expects.  A page
\* that is mapped has one area, and an area that is the guest's is mapped, except
\* that of the APIC; what is not mapped has not been written.
Good(s, r) ==
    /\ s \in Memory /\ r \in [mm!Pages -> Bytes] /\ Len(s.mem) = Len(s.areas) /\ s.ept[LAPIC] = 0
    /\ \A p \in mm!Pages : s.ept[p] # 0 =>
         /\ s.ept[p] \in 1..Len(s.areas) /\ s.areas[s.ept[p]] = [gpage |-> p, internal |-> FALSE]
         /\ s.mem[s.ept[p]] = r[p]
    /\ \A p \in mm!Pages : s.ept[p] = 0 => r[p] = mm!Fill(p)
    /\ \A n \in 1..Len(s.areas) : s.areas[n].internal \/ s.areas[n].gpage = LAPIC \/ s.ept[s.areas[n].gpage] = n

\* Good, part by part.
LEMMA GoodParts ==
    ASSUME NEW s, NEW r, Good(s, r)
    PROVE  /\ s \in Memory /\ s.areas \in Seq(Area) /\ s.mem \in Seq(Bytes \cup {"table"})
           /\ s.tables \in SUBSET Tables /\ s.ept \in [mm!Pages -> Nat] /\ r \in [mm!Pages -> Bytes]
           /\ Len(s.areas) \in Nat /\ Len(s.mem) = Len(s.areas) /\ s.ept[LAPIC] = 0
<1>1. s \in Memory /\ r \in [mm!Pages -> Bytes] /\ Len(s.mem) = Len(s.areas) /\ s.ept[LAPIC] = 0
  BY DEF Good
<1>2. /\ s.areas \in Seq(Area) /\ s.mem \in Seq(Bytes \cup {"table"})
      /\ s.tables \in SUBSET Tables /\ s.ept \in [mm!Pages -> Nat]
  BY <1>1 DEF Memory
<1> QED BY SMTT(30), <1>1, <1>2

\* A new area at the end.
Grown(s, a, c) == [s EXCEPT !.areas = Append(@, a), !.mem = Append(@, c)]
LEMMA AllocEffect ==
    ASSUME NEW s \in Memory, NEW a \in Area, NEW c \in Bytes \cup {"table"},
           NEW t, t = Grown(s, a, c)
    PROVE  /\ t \in Memory /\ t.tables = s.tables /\ t.ept = s.ept
           /\ t.areas = Append(s.areas, a) /\ t.mem = Append(s.mem, c)
           /\ Len(t.areas) = Len(s.areas) + 1 /\ Len(t.mem) = Len(s.mem) + 1
           /\ t.areas[Len(s.areas) + 1] = a /\ t.mem[Len(s.mem) + 1] = c
           /\ \A n \in 1..Len(s.areas) : t.areas[n] = s.areas[n]
           /\ \A n \in 1..Len(s.mem) : t.mem[n] = s.mem[n]
<1> DEFINE C == Bytes \cup {"table"}
<1>1. s.areas \in Seq(Area) /\ s.mem \in Seq(C) /\ s.tables \in SUBSET Tables /\ s.ept \in [mm!Pages -> Nat]
  BY DEF Memory
<1> DEFINE ar == Append(s.areas, a)
           me == Append(s.mem, c)
<1>3a. t = [s EXCEPT !.areas = ar, !.mem = me]
  BY DEF Grown
<1> HIDE DEF ar, me, C
<1>3b. /\ t.areas = ar /\ t.mem = me /\ t.tables = s.tables /\ t.ept = s.ept
  BY <1>3a DEF Memory
<1>3. /\ t.areas = Append(s.areas, a) /\ t.mem = Append(s.mem, c) /\ t.tables = s.tables /\ t.ept = s.ept
  BY <1>3b DEF ar, me
<1>4. /\ Append(s.areas, a) \in Seq(Area) /\ Len(Append(s.areas, a)) = Len(s.areas) + 1
      /\ Append(s.areas, a)[Len(s.areas) + 1] = a
      /\ \A n \in 1..Len(s.areas) : Append(s.areas, a)[n] = s.areas[n]
  BY SMTT(30), <1>1, AppendProperties
<1>5. /\ Append(s.mem, c) \in Seq(C) /\ Len(Append(s.mem, c)) = Len(s.mem) + 1
      /\ Append(s.mem, c)[Len(s.mem) + 1] = c
      /\ \A n \in 1..Len(s.mem) : Append(s.mem, c)[n] = s.mem[n]
  <2>1. c \in C
    BY DEF C
  <2> QED BY SMTT(30), <1>1, <2>1, AppendProperties
<1>6. t \in Memory
  <2>1. ar \in Seq(Area) /\ me \in Seq(Bytes \cup {"table"})
    BY <1>4, <1>5 DEF ar, me, C
  <2> QED BY <1>3a, <2>1 DEF Memory
<1> QED BY <1>3, <1>4, <1>5, <1>6

\* An area that is not the guest's, or that of the APIC, changes nothing for it.
LEMMA AllocGood ==
    ASSUME MmConstants, NEW s, NEW r, Good(s, r), NEW a \in Area, NEW c \in Bytes \cup {"table"},
           a.internal \/ a.gpage = LAPIC,
           NEW t, t = Grown(s, a, c)
    PROVE  Good(t, r)
<1>1. /\ s \in Memory /\ Len(s.areas) \in Nat /\ Len(s.mem) = Len(s.areas) /\ s.ept[LAPIC] = 0
      /\ s.ept \in [mm!Pages -> Nat] /\ r \in [mm!Pages -> Bytes]
  BY GoodParts
<1>2. /\ t \in Memory /\ t.ept = s.ept
      /\ Len(t.areas) = Len(s.areas) + 1 /\ Len(t.mem) = Len(s.mem) + 1
      /\ t.areas[Len(s.areas) + 1] = a
      /\ \A n \in 1..Len(s.areas) : t.areas[n] = s.areas[n]
      /\ \A n \in 1..Len(s.mem) : t.mem[n] = s.mem[n]
  BY SMTT(30), <1>1, AllocEffect
<1>3. ASSUME NEW q \in mm!Pages, t.ept[q] # 0
      PROVE  /\ t.ept[q] \in 1..Len(t.areas) /\ t.areas[t.ept[q]] = [gpage |-> q, internal |-> FALSE]
             /\ t.mem[t.ept[q]] = r[q]
  <2>1. /\ s.ept[q] \in 1..Len(s.areas) /\ s.areas[s.ept[q]] = [gpage |-> q, internal |-> FALSE]
        /\ s.mem[s.ept[q]] = r[q]
    BY <1>2, <1>3 DEF Good
  <2> QED BY SMTT(30), <1>1, <1>2, <2>1
<1>4. ASSUME NEW n \in 1..Len(t.areas)
      PROVE  t.areas[n].internal \/ t.areas[n].gpage = LAPIC \/ t.ept[t.areas[n].gpage] = n
  <2>1. CASE n = Len(s.areas) + 1
    BY <1>2, <2>1
  <2>2. CASE n \in 1..Len(s.areas)
    BY <1>2, <2>2 DEF Good
  <2> QED BY SMTT(30), <1>1, <1>2, <2>1, <2>2
<1>5. \A q \in mm!Pages : t.ept[q] = 0 => r[q] = mm!Fill(q)
  BY <1>2 DEF Good
<1> QED BY <1>1, <1>2, <1>3, <1>4, <1>5 DEF Good

\* The server finds the page that is mapped.
LEMMA ResolveGood ==
    ASSUME MmConstants, NEW s, NEW r, Good(s, r), NEW p \in mm!Pages, p # LAPIC
    PROVE  mm!resolve_guest_paddr(s, p) = s.ept[p]
<1> DEFINE found == {n \in DOMAIN s.areas : ~s.areas[n].internal /\ s.areas[n].gpage = p}
<1>1. s.areas \in Seq(Area) /\ DOMAIN s.areas = 1..Len(s.areas) /\ Len(s.areas) \in Nat
  BY SMTT(30), GoodParts
<1>2. \A n \in found : n = s.ept[p] /\ n \in Nat /\ n # 0
  BY SMTT(30), <1>1 DEF Good
<1>3. s.ept[p] # 0 => s.ept[p] \in found
  <2> SUFFICES ASSUME s.ept[p] # 0 PROVE s.ept[p] \in found
    OBVIOUS
  <2>1. s.ept[p] \in 1..Len(s.areas) /\ s.areas[s.ept[p]] = [gpage |-> p, internal |-> FALSE]
    BY DEF Good
  <2> QED BY SMTT(30), <1>1, <2>1
<1>4. mm!resolve_guest_paddr(s, p) = IF found = {} THEN 0 ELSE mm!Min(found)
  BY DEF mm!resolve_guest_paddr
<1> HIDE DEF found
<1>5. CASE found = {}
  BY <1>3, <1>4, <1>5
<1>6. CASE found # {}
  <2>1. found \subseteq Nat
    BY <1>2
  <2>2. Min(found) \in found
    BY <1>6, <2>1, MinProperties
  <2>3. mm!Min(found) = Min(found)
    BY DEF mm!Min, Min
  <2> QED BY <1>2, <1>4, <1>6, <2>2, <2>3
<1> QED BY <1>5, <1>6

\* A page is filled and mapped.
LEMMA MapGood ==
    ASSUME MmConstants, NEW s, NEW r, Good(s, r), NEW p \in mm!Pages, p # LAPIC, s.ept[p] = 0
    PROVE  Good(mm!MapPage(s, p), r) /\ mm!MapPage(s, p).ept[p] # 0
<1> DEFINE a == [gpage |-> p, internal |-> FALSE]
           c == mm!Fill(p)
           f == Grown(s, a, c)
           k == Len(s.areas) + 1
           g == [f EXCEPT !.ept[p] = k]
<1>1. /\ s \in Memory /\ Len(s.areas) \in Nat /\ Len(s.mem) = Len(s.areas) /\ s.ept[LAPIC] = 0
      /\ s.ept \in [mm!Pages -> Nat] /\ r \in [mm!Pages -> Bytes]
  BY GoodParts
<1>2. c \in Bytes \cup {"table"} /\ a \in Area
  BY DEF mm!Fill, Bytes, Area
<1>m. f = mm!alloc_page(s, p, FALSE, mm!Fill(p))
  BY DEF mm!alloc_page, Grown
<1>a. f = Grown(s, a, c)
  OBVIOUS
<1> HIDE DEF a, c, f
<1>3. /\ f \in Memory /\ f.ept = s.ept /\ f.tables = s.tables
      /\ Len(f.areas) = Len(s.areas) + 1 /\ Len(f.mem) = Len(s.mem) + 1
      /\ f.areas[Len(s.areas) + 1] = a /\ f.mem[Len(s.mem) + 1] = c
      /\ \A n \in 1..Len(s.areas) : f.areas[n] = s.areas[n]
      /\ \A n \in 1..Len(s.mem) : f.mem[n] = s.mem[n]
  <2>1. s \in Memory
    BY <1>1
  <2> QED BY SMTT(30), <2>1, <1>2, <1>a, AllocEffect
<1>4. Len(f.areas) = k /\ k \in Nat /\ k # 0
  BY SMTT(30), <1>1, <1>3
<1> HIDE DEF k
\* Mapping before the walk gives the same.
<1>5. /\ g.ept = [s.ept EXCEPT ![p] = k] /\ g.areas = f.areas /\ g.mem = f.mem /\ g.tables = f.tables /\ g \in Memory
  BY <1>1, <1>3, <1>4 DEF Memory
<1> HIDE DEF g
<1>6. Good(g, r)
  <2>1. ASSUME NEW q \in mm!Pages, g.ept[q] # 0
        PROVE  /\ g.ept[q] \in 1..Len(g.areas) /\ g.areas[g.ept[q]] = [gpage |-> q, internal |-> FALSE]
               /\ g.mem[g.ept[q]] = r[q]
    <3>1. CASE q = p
      <4>1. r[p] = mm!Fill(p)
        BY DEF Good
      <4>2. g.ept[q] = k /\ k \in 1..Len(g.areas)
        BY SMTT(30), <1>1, <1>3, <1>4, <1>5, <3>1
      <4>3. f.areas[k] = [gpage |-> p, internal |-> FALSE] /\ f.mem[k] = mm!Fill(p)
        BY <1>1, <1>3 DEF k, a, c
      <4> QED BY <1>5, <3>1, <4>1, <4>2, <4>3
    <3>2. CASE q # p
      <4>1. g.ept[q] = s.ept[q]
        BY <1>1, <1>5, <3>2
      <4>2. /\ s.ept[q] \in 1..Len(s.areas) /\ s.areas[s.ept[q]] = [gpage |-> q, internal |-> FALSE]
            /\ s.mem[s.ept[q]] = r[q]
        BY <2>1, <4>1 DEF Good
      <4> QED BY SMTT(30), <1>1, <1>3, <1>5, <4>1, <4>2
    <3> QED BY <3>1, <3>2
  <2>2. ASSUME NEW n \in 1..Len(g.areas)
        PROVE  g.areas[n].internal \/ g.areas[n].gpage = LAPIC \/ g.ept[g.areas[n].gpage] = n
    <3>1. CASE n = k
      <4>1. g.areas[n].gpage = p
        BY SMTT(30), <1>1, <1>3, <1>5, <3>1 DEF k, a
      <4> QED BY <1>1, <1>5, <3>1, <4>1
    <3>2. CASE n \in 1..Len(s.areas)
      <4>1. g.areas[n] = s.areas[n]
        BY <1>3, <1>5, <3>2
      <4>2. s.areas[n].internal \/ s.areas[n].gpage = LAPIC \/ s.ept[s.areas[n].gpage] = n
        BY <3>2 DEF Good
      <4>3. CASE s.ept[s.areas[n].gpage] = n /\ ~s.areas[n].internal
        <5> DEFINE u == s.areas[n].gpage
        <5>1. u # p
          BY SMTT(30), <3>2, <4>3
        <5>2. u \in mm!Pages \cup {mm!NoPage}
          <6>1. s.areas[n] \in Area
            BY SMTT(30), <1>1, <3>2 DEF Memory
          <6> QED BY <6>1 DEF Area
        <5> HIDE DEF u
        <5>3. g.ept[u] = s.ept[u]
          BY SMTT(30), <1>1, <1>5, <5>1
        <5> QED BY <4>1, <4>3, <5>3 DEF u
      <4> QED BY <4>1, <4>2, <4>3
    <3> QED BY SMTT(30), <1>1, <1>4, <1>5, <3>1, <3>2 DEF k
  <2>3. ASSUME NEW q \in mm!Pages, g.ept[q] = 0 PROVE r[q] = mm!Fill(q)
    <3>1. q # p
      BY <1>1, <1>4, <1>5, <2>3
    <3>2. s.ept[q] = 0
      BY <1>1, <1>5, <2>3, <3>1
    <3> QED BY <3>2 DEF Good
  <2>4. Len(g.mem) = Len(g.areas)
    BY <1>1, <1>3, <1>5
  <2>5. g.ept[LAPIC] = 0
    BY <1>1, <1>5 DEF MmConstants
  <2> QED BY <1>1, <1>5, <2>1, <2>2, <2>3, <2>4, <2>5 DEF Good
<1>7. CASE p[1] \in s.tables
  <2>1. mm!MapPage(s, p) = g
    BY <1>3, <1>4, <1>7, <1>m DEF mm!MapPage, mm!ept_traverse, g
  <2> QED BY <1>1, <1>4, <1>5, <1>6, <2>1
<1>8. CASE p[1] \notin s.tables
  <2> DEFINE b == [gpage |-> mm!NoPage, internal |-> TRUE]
             h == Grown(g, b, "table")
             hf == Grown(f, b, "table")
             tb == hf.tables \cup {p[1]}
             ep == [s.ept EXCEPT ![p] = k]
             w == mm!MapPage(s, p)
  <2>1. w = [[hf EXCEPT !.tables = @ \cup {p[1]}] EXCEPT !.ept[p] = k]
    BY <1>3, <1>4, <1>8, <1>m DEF mm!MapPage, mm!ept_traverse, mm!alloc_page, Grown
  <2>f. b \in Area /\ b.internal /\ "table" \in Bytes \cup {"table"}
    BY DEF Area
  <2>g. /\ h = Grown(g, b, "table")
        /\ hf = Grown(f, b, "table")
    OBVIOUS
  <2> HIDE DEF b, h, hf
  <2>2. Good(h, r)
    BY <1>6, <2>f, <2>g, AllocGood
  <2>3. /\ h \in Memory /\ h.ept = g.ept /\ h.tables = g.tables
        /\ h.areas = Append(g.areas, b) /\ h.mem = Append(g.mem, "table")
    BY SMTT(30), <1>5, <2>f, <2>g, AllocEffect
  <2>4. hf \in Memory /\ hf.ept = s.ept /\ hf.tables = s.tables
        /\ hf.areas = Append(f.areas, b) /\ hf.mem = Append(f.mem, "table")
    BY SMTT(30), <1>3, <2>f, <2>g, AllocEffect
  <2>a. hf.areas = h.areas /\ hf.mem = h.mem
    BY <1>5, <2>3, <2>4
  <2>5. p[1] \in Tables
    BY DEF mm!Pages
  <2>b. w = [hf EXCEPT !.tables = tb, !.ept = ep]
    BY <2>1, <2>4 DEF Memory
  <2>c. tb \in SUBSET Tables /\ ep \in [mm!Pages -> Nat]
    BY <1>1, <1>4, <2>4, <2>5 DEF Memory
  <2>d. h.ept = ep
    BY <1>5, <2>3
  <2> HIDE DEF w, tb, ep
  <2>e. w.areas = h.areas /\ w.mem = h.mem /\ w.ept = h.ept
    BY <2>4, <2>a, <2>b, <2>d DEF Memory
  <2>6. w \in Memory
    BY <2>4, <2>b, <2>c DEF Memory
  <2>7. Good(w, r)
    BY SMTT(30), <2>2, <2>e, <2>6 DEF Good
  <2>8. w.ept[p] # 0
    BY <1>1, <1>4, <1>5, <2>3, <2>e
  <2> QED BY <2>7, <2>8 DEF w
<1> QED BY <1>7, <1>8

\* A page that is mapped is written.
LEMMA WriteGood ==
    ASSUME MmConstants, NEW s, NEW r, Good(s, r), NEW p \in mm!Pages, s.ept[p] # 0, NEW v \in Values
    PROVE  Good([s EXCEPT !.mem[s.ept[p]] = v], [r EXCEPT ![p] = v])
<1> DEFINE e == s.ept[p]
           t == [s EXCEPT !.mem[e] = v]
           u == [r EXCEPT ![p] = v]
<1>1. /\ s \in Memory /\ Len(s.areas) \in Nat /\ Len(s.mem) = Len(s.areas) /\ s.ept[LAPIC] = 0
      /\ s.ept \in [mm!Pages -> Nat] /\ r \in [mm!Pages -> Bytes] /\ s.mem \in Seq(Bytes \cup {"table"})
  BY GoodParts
<1>2. e \in 1..Len(s.areas) /\ s.areas[e] = [gpage |-> p, internal |-> FALSE]
  BY DEF Good
<1>3. v \in Bytes \cup {"table"} /\ v \in Bytes
  BY DEF Bytes
<1> DEFINE me == [s.mem EXCEPT ![e] = v]
<1>4a. t = [s EXCEPT !.mem = me]
  BY <1>1 DEF Memory
<1> HIDE DEF t, me
<1>4b. t.mem = me /\ t.areas = s.areas /\ t.ept = s.ept /\ t.tables = s.tables
  BY <1>1, <1>4a DEF Memory
<1>4. t.mem = [s.mem EXCEPT ![e] = v] /\ t.areas = s.areas /\ t.ept = s.ept /\ t.tables = s.tables
  BY <1>4b DEF me
<1>5. t.mem \in Seq(Bytes \cup {"table"}) /\ Len(t.mem) = Len(s.mem)
  <2> DEFINE C == Bytes \cup {"table"}
  <2>1. s.mem \in Seq(C) /\ v \in C /\ e \in 1..Len(s.mem)
    BY <1>1, <1>2, <1>3
  <2> HIDE DEF C, e
  <2>2. [s.mem EXCEPT ![e] = v] \in Seq(C) /\ Len([s.mem EXCEPT ![e] = v]) = Len(s.mem)
    BY SMTT(30), <2>1, ExceptSeq
  <2> QED BY <1>4, <2>2 DEF C
<1>6. t \in Memory
  BY <1>1, <1>4a, <1>4b, <1>5 DEF Memory
<1>7. u \in [mm!Pages -> Bytes]
  BY <1>1, <1>3
<1>8. ASSUME NEW q \in mm!Pages, t.ept[q] # 0
      PROVE  /\ t.ept[q] \in 1..Len(t.areas) /\ t.areas[t.ept[q]] = [gpage |-> q, internal |-> FALSE]
             /\ t.mem[t.ept[q]] = u[q]
  <2>1. /\ s.ept[q] \in 1..Len(s.areas) /\ s.areas[s.ept[q]] = [gpage |-> q, internal |-> FALSE]
        /\ s.mem[s.ept[q]] = r[q]
    BY <1>4, <1>8 DEF Good
  <2>2. CASE q = p
    BY SMTT(30), <1>1, <1>2, <1>4, <2>1, <2>2
  <2>3. CASE q # p
    <3>1. s.ept[q] # e
      BY SMTT(30), <1>2, <2>1, <2>3
    <3> QED BY SMTT(30), <1>1, <1>2, <1>4, <2>1, <2>3, <3>1
  <2> QED BY <2>2, <2>3
<1>9. ASSUME NEW q \in mm!Pages, t.ept[q] = 0 PROVE u[q] = mm!Fill(q)
  <2>1. q # p /\ s.ept[q] = 0
    BY <1>4, <1>9
  <2>2. r[q] = mm!Fill(q)
    BY <2>1 DEF Good
  <2> QED BY <1>1, <2>1, <2>2
<1>10. \A n \in 1..Len(t.areas) : t.areas[n].internal \/ t.areas[n].gpage = LAPIC \/ t.ept[t.areas[n].gpage] = n
  BY <1>4 DEF Good
<1>11. Good(t, u)
  BY <1>1, <1>4, <1>5, <1>6, <1>7, <1>8, <1>9, <1>10 DEF Good
<1> QED BY <1>11 DEF t

\* The step that takes the server's memory from one state to another.
LEMMA SetGood ==
    ASSUME NEW t, Good(t, ram'), mm!Set(t)
    PROVE  Good(mm!state, ram)'
<1>1. /\ t \in Memory /\ page_areas' = t.areas /\ mem' = t.mem /\ tables' = t.tables /\ ept' = t.ept
  BY DEF mm!Set, Good
<1>2. mm!state' = t
  BY <1>1 DEF mm!state, Memory
<1> QED BY <1>2

LEMMA MmInit == ASSUME MmConstants, mm!Init PROVE Good(mm!state, ram)
<1> DEFINE a == [gpage |-> mm!NoPage, internal |-> TRUE]
<1>1. /\ page_areas = <<a>> /\ mem = <<"table">> /\ tables = {}
      /\ ept = [p \in mm!Pages |-> 0] /\ ram = [p \in mm!Pages |-> mm!Fill(p)]
  BY DEF mm!Init
<1>2. a \in Area
  BY DEF Area
<1>3. page_areas \in Seq(Area) /\ Len(page_areas) = 1 /\ page_areas[1].internal
  BY SMTT(30), <1>1, <1>2
<1>4. mem \in Seq(Bytes \cup {"table"}) /\ Len(mem) = 1
  BY SMTT(30), <1>1
<1>5. /\ mm!state.areas = page_areas /\ mm!state.mem = mem /\ mm!state.ept = ept /\ mm!state.tables = tables
  BY DEF mm!state
<1>6. mm!state \in Memory
  BY <1>1, <1>3, <1>4 DEF Memory, mm!state
<1>7. \A p \in mm!Pages : mm!Fill(p) \in Bytes
  BY DEF mm!Fill, Bytes
<1>8. ram \in [mm!Pages -> Bytes]
  BY <1>1, <1>7
<1> HIDE DEF a
<1> QED BY SMTT(30), <1>1, <1>3, <1>4, <1>5, <1>6, <1>8 DEF Good, MmConstants

LEMMA MmStep ==
    ASSUME MmConstants, Good(mm!state, ram), [mm!Next]_(mm!vars)
    PROVE  Good(mm!state, ram)'
<1>1. mm!state.ept = ept /\ mm!state.mem = mem /\ mm!state.areas = page_areas /\ mm!state.tables = tables
  BY DEF mm!state
<1>2. CASE mm!GuestMmio
  <2> DEFINE a == [gpage |-> LAPIC, internal |-> FALSE]
             t == Grown(mm!state, a, "zero")
  <2>1. mm!Set(t) /\ ram' = ram /\ t = Grown(mm!state, a, "zero")
    BY <1>2 DEF mm!GuestMmio, mm!alloc_page, Grown
  <2>2. "zero" \in Bytes \cup {"table"} /\ a \in Area /\ a.gpage = LAPIC
    BY DEF Bytes, MmConstants, Area
  <2> HIDE DEF a, t
  <2>3. Good(t, ram)
    BY <2>1, <2>2, AllocGood
  <2> QED BY <2>1, <2>3, SetGood
<1>3. ASSUME NEW p \in mm!Pages, mm!GuestFault(p) PROVE Good(mm!state, ram)'
  <2>1. mm!Set(mm!MapPage(mm!state, p)) /\ ram' = ram /\ p # LAPIC /\ mm!state.ept[p] = 0
    BY <1>1, <1>3 DEF mm!GuestFault
  <2>2. Good(mm!MapPage(mm!state, p), ram)
    BY <2>1, MapGood
  <2> QED BY <2>1, <2>2, SetGood
<1>4. ASSUME NEW p \in mm!Pages, NEW v \in Values, mm!GuestWrite(p, v) PROVE Good(mm!state, ram)'
  <2>1. /\ mem' = [mem EXCEPT ![ept[p]] = v] /\ ram' = [ram EXCEPT ![p] = v] /\ ept[p] # 0
        /\ UNCHANGED <<page_areas, tables, ept>>
    BY <1>4 DEF mm!GuestWrite
  <2> DEFINE t == [mm!state EXCEPT !.mem[mm!state.ept[p]] = v]
  <2>2. Good(t, ram')
    BY <1>1, <2>1, WriteGood
  <2>3. mm!Set(t)
    BY <2>1 DEF mm!Set, mm!state
  <2> HIDE DEF t
  <2> QED BY <2>2, <2>3, SetGood
<1>5. ASSUME NEW p \in mm!Pages, NEW v \in Values, mm!ServerWrite(p, v) PROVE Good(mm!state, ram)'
  <2> DEFINE s == IF mm!resolve_guest_paddr(mm!state, p) # 0 THEN mm!state ELSE mm!MapPage(mm!state, p)
             t == [s EXCEPT !.mem[mm!resolve_guest_paddr(s, p)] = v]
  <2>1. p # LAPIC /\ mm!Set(t) /\ ram' = [ram EXCEPT ![p] = v]
    BY <1>5 DEF mm!ServerWrite
  <2>2. mm!resolve_guest_paddr(mm!state, p) = mm!state.ept[p]
    BY <2>1, ResolveGood
  <2>3. Good(s, ram) /\ s.ept[p] # 0
    <3>1. CASE mm!state.ept[p] = 0
      <4>1. Good(mm!MapPage(mm!state, p), ram) /\ mm!MapPage(mm!state, p).ept[p] # 0
        BY <2>1, <3>1, MapGood
      <4> QED BY <2>2, <3>1, <4>1
    <3>2. CASE mm!state.ept[p] # 0
      BY <2>2, <3>2
    <3> QED BY <3>1, <3>2
  <2> HIDE DEF s
  <2>4. mm!resolve_guest_paddr(s, p) = s.ept[p]
    BY <2>1, <2>3, ResolveGood
  <2>5. Good([s EXCEPT !.mem[s.ept[p]] = v], [ram EXCEPT ![p] = v])
    BY <2>3, WriteGood
  <2>6. Good(t, ram')
    BY <2>1, <2>4, <2>5
  <2> HIDE DEF t
  <2> QED BY <2>1, <2>6, SetGood
<1>6. CASE UNCHANGED mm!vars
  <2>1. mm!state' = mm!state /\ ram' = ram
    BY <1>6 DEF mm!vars, mm!state
  <2> QED BY <2>1
<1> QED BY <1>2, <1>3, <1>4, <1>5, <1>6 DEF mm!Next

\* A guest and the devices of the hypervisor server see the same memory, which is
\* what the kernel image and the writes of both have made it, and the server's
\* tables are not in it, however the first accesses of guest and server alternate
\* (handle_ept_fault, resolve_guest_paddr_buffer, ept_map_page).
THEOREM GuestMemoryShared ==
    ASSUME MmConstants
    PROVE  mm!Spec => []mm!GuestMemoryRight
<1>1. mm!Init => Good(mm!state, ram)
  BY MmInit
<1>2. Good(mm!state, ram) /\ [mm!Next]_(mm!vars) => Good(mm!state, ram)'
  BY MmStep
<1>3. Good(mm!state, ram) => mm!GuestMemoryRight
  <2> SUFFICES ASSUME Good(mm!state, ram) PROVE mm!GuestMemoryRight
    OBVIOUS
  <2>1. mm!state.ept = ept /\ mm!state.mem = mem /\ mm!state.areas = page_areas
    BY DEF mm!state
  <2>2. ept[LAPIC] = 0 /\ ram \in [mm!Pages -> Bytes]
    BY <2>1, GoodParts
  <2>3. \A p \in mm!Pages : ept[p] # 0 =>
          /\ page_areas[ept[p]] = [gpage |-> p, internal |-> FALSE] /\ mem[ept[p]] = ram[p]
    BY <2>1 DEF Good
  <2>4. mm!SameMemory
    BY <2>1, <2>2, ResolveGood DEF mm!SameMemory
  <2>5. mm!RamKept
    BY <2>3 DEF mm!RamKept
  <2>6. \A p \in mm!Pages : ram[p] # "table"
    BY <2>2 DEF Bytes, MmConstants
  <2>7. ASSUME NEW p \in mm!Pages, ept[p] # 0 PROVE ~page_areas[ept[p]].internal
    <3>1. page_areas[ept[p]] = [gpage |-> p, internal |-> FALSE]
      BY <2>3, <2>7
    <3>2. page_areas[ept[p]].internal = FALSE
      BY ONLY <3>1
    <3> QED BY <3>2
  <2>8. ASSUME NEW p \in mm!Pages, NEW q \in mm!Pages, p # q, ept[p] # 0, ept[p] = ept[q] PROVE FALSE
    <3>1. /\ page_areas[ept[p]] = [gpage |-> p, internal |-> FALSE]
          /\ page_areas[ept[q]] = [gpage |-> q, internal |-> FALSE]
      BY <2>3, <2>8
    <3>2. page_areas[ept[p]].gpage = p /\ page_areas[ept[q]].gpage = q
      BY ONLY <3>1
    <3> QED BY <2>8, <3>2
  <2>9. mm!Apart
    BY <2>3, <2>6, <2>7, <2>8 DEF mm!Apart
  <2> QED BY <2>4, <2>5, <2>9 DEF mm!GuestMemoryRight
<1> QED BY <1>1, <1>2, <1>3, PTL DEF mm!Spec

-----------------------------------------------------------------------------
(***************************************************************************)
(* The PCI bus that the hypervisor emulates (HvPci).                       *)
(***************************************************************************)
CONSTANTS PORT_BASE, PAGE, Lens, FIRST_IRQ, MAX_DEVICES
VARIABLES devices, next, selected, read_bar0_size, sizing, seen

bus == INSTANCE HvPci

PciConstants ==
    /\ PORT_BASE \in Nat /\ PAGE \in Nat \ {0} /\ Lens \subseteq Nat /\ FIRST_IRQ \in Nat \ {0}
    /\ MAX_DEVICES \in Nat

Device == [slot : Nat, port_base : Nat, port_len : Nat, irq : Nat]
PciTyped ==
    /\ devices \in Seq(Device) /\ next \in [slot : Nat, port_base : Nat, irq : Nat]
    /\ selected \in [slot : bus!Slots, reg : bus!Regs] /\ sizing \in bus!Slots \cup {-1}
    /\ seen \in [bus!Slots -> Int]

\* Slots are given in order; ports and IRQs grow, and what is given next lies above them.
Growing ==
    /\ next.slot = Len(devices) /\ next.irq > 0
    /\ \A i \in 1..Len(devices) :
         /\ devices[i].slot = i - 1 /\ devices[i].irq < next.irq
         /\ devices[i].port_base + devices[i].port_len <= next.port_base
    /\ \A i, j \in 1..Len(devices) : i < j =>
         /\ devices[i].port_base + devices[i].port_len <= devices[j].port_base
         /\ devices[j].irq # 0 => devices[i].irq < devices[j].irq

\* While the guest asks for the size of a device, that device is selected.
Sizing ==
    /\ read_bar0_size => sizing # -1
    /\ sizing # -1 => read_bar0_size
    /\ sizing # -1 => selected.slot = sizing /\ bus!Lookup(sizing) # {}
    /\ \A s \in bus!Slots : seen[s] # -1 => \E i \in bus!Lookup(s) : devices[i].port_len = seen[s]

PciInv == PciTyped /\ Growing /\ Sizing

LEMMA DeviceFields ==
    ASSUME PciTyped
    PROVE  /\ DOMAIN devices = 1..Len(devices) /\ Len(devices) \in Nat
           /\ \A i \in 1..Len(devices) :
                /\ devices[i].slot \in Nat /\ devices[i].irq \in Nat
                /\ devices[i].port_base \in Nat /\ devices[i].port_len \in Nat
<1>1. devices \in Seq(Device)
  BY DEF PciTyped
<1>2. DOMAIN devices = 1..Len(devices) /\ Len(devices) \in Nat /\ \A i \in 1..Len(devices) : devices[i] \in Device
  BY SMTT(30), <1>1
<1>3. \A d \in Device : d.slot \in Nat /\ d.irq \in Nat /\ d.port_base \in Nat /\ d.port_len \in Nat
  BY DEF Device
<1> QED BY <1>2, <1>3

\* Whole pages hold the ports.
LEMMA WholePages ==
    ASSUME NEW len \in Nat, NEW p \in Nat \ {0}
    PROVE  ((len + p - 1) \div p) * p \in Nat /\ len <= ((len + p - 1) \div p) * p
<1> DEFINE a == len + p - 1
           q == a \div p
           r == a % p
<1>1. a \in Nat /\ a - (p - 1) = len
  BY SMTT(30)
<1>2. q \in Nat /\ r \in 0..(p - 1) /\ a = p * q + r
  BY <1>1, DivMod
<1> HIDE DEF q, r
<1> DEFINE m == q * p
<1>3. m \in Nat /\ a = m + r
  BY SMTT(30), <1>2
<1> HIDE DEF m
<1>4. len <= m
  BY SMTT(30), <1>1, <1>2, <1>3
<1> QED BY <1>3, <1>4 DEF m, q

LEMMA PciInit == ASSUME PciConstants, bus!Init PROVE PciInv
<1> DEFINE d == [slot |-> 0, port_base |-> PORT_BASE, port_len |-> 0, irq |-> 0]
           up == ((0 + PAGE - 1) \div PAGE) * PAGE
<1>1. up \in Nat /\ PORT_BASE \in Nat /\ FIRST_IRQ \in Nat /\ FIRST_IRQ > 0 /\ MAX_DEVICES \in Nat
  BY SMTT(30), WholePages DEF PciConstants
<1>2. /\ devices = Append(<<>>, d)
      /\ next = [slot |-> 0 + 1, port_base |-> PORT_BASE + up, irq |-> FIRST_IRQ]
      /\ selected = [slot |-> 0, reg |-> "vendor"] /\ sizing = -1
      /\ seen = [s \in bus!Slots |-> -1]
  BY SMTT(30) DEF bus!Init, bus!pci_add_device, bus!Unknown
<1>2a. ~read_bar0_size
  BY DEF bus!Init
<1> HIDE DEF up
<1>3. d \in Device
  BY <1>1 DEF Device
<1>4. devices = <<d>> /\ devices \in Seq(Device) /\ Len(devices) = 1 /\ devices[1] = d
  BY SMTT(30), <1>2, <1>3
<1>5. PciTyped
  BY SMTT(30), <1>1, <1>2, <1>4 DEF PciTyped, bus!Slots, bus!Regs
<1>6. Growing
  BY SMTT(30), <1>1, <1>2, <1>4 DEF Growing
<1>7. Sizing
  BY <1>2, <1>2a DEF Sizing
<1> QED BY <1>5, <1>6, <1>7 DEF PciInv

\* A new device.
LEMMA PciAdd ==
    ASSUME PciConstants, PciInv, NEW len \in Lens, NEW use_irq \in BOOLEAN, bus!AddDevice(len, use_irq)
    PROVE  PciInv'
<1> DEFINE irq == IF use_irq THEN next.irq ELSE 0
           irq2 == IF use_irq THEN next.irq + 1 ELSE next.irq
           d == [slot |-> next.slot, port_base |-> next.port_base, port_len |-> len, irq |-> irq]
           up == ((len + PAGE - 1) \div PAGE) * PAGE
<1>1. up \in Nat /\ len <= up /\ len \in Nat
  BY WholePages DEF PciConstants
<1>2. /\ devices' = Append(devices, d)
      /\ next' = [slot |-> next.slot + 1, port_base |-> next.port_base + up, irq |-> irq2]
      /\ UNCHANGED <<selected, sizing, seen, read_bar0_size>> /\ sizing = -1
  BY SMTT(30) DEF bus!AddDevice, bus!pci_add_device
<1>3. /\ devices \in Seq(Device) /\ next.slot \in Nat /\ next.port_base \in Nat /\ next.irq \in Nat
      /\ next.slot = Len(devices) /\ next.irq > 0
  BY DEF PciInv, PciTyped, Growing
<1>4. irq \in Nat /\ irq2 \in Nat /\ irq < irq2 /\ next.irq <= irq2 /\ irq2 > 0 /\ (irq # 0 => irq = next.irq)
  BY SMTT(30), <1>3
<1> HIDE DEF up, irq, irq2
<1>5. d \in Device
  BY <1>1, <1>3, <1>4 DEF Device
<1>6. /\ devices' \in Seq(Device) /\ Len(devices') = Len(devices) + 1 /\ Len(devices) \in Nat
      /\ devices'[Len(devices) + 1] = d
      /\ \A i \in 1..Len(devices) : devices'[i] = devices[i] /\ devices[i] \in Device
  BY SMTT(30), <1>2, <1>3, <1>5
<1>7. PciTyped'
  <2>1. next' \in [slot : Nat, port_base : Nat, irq : Nat]
    BY SMTT(30), <1>1, <1>2, <1>3, <1>4
  <2> QED BY <1>2, <1>6, <2>1 DEF PciInv, PciTyped
<1>8. \A i \in 1..Len(devices) :
         /\ devices[i].slot = i - 1 /\ devices[i].irq < next.irq
         /\ devices[i].port_base + devices[i].port_len <= next.port_base
         /\ devices[i].irq \in Nat /\ devices[i].port_base \in Nat /\ devices[i].port_len \in Nat
  BY <1>6 DEF PciInv, Growing, Device
<1>9. Growing'
  <2>1. ASSUME NEW i \in 1..Len(devices')
        PROVE  /\ devices'[i].slot = i - 1 /\ devices'[i].irq < next'.irq
               /\ devices'[i].port_base + devices'[i].port_len <= next'.port_base
    <3>1. CASE i = Len(devices) + 1
      BY SMTT(30), <1>1, <1>2, <1>3, <1>4, <1>6, <3>1
    <3>2. CASE i \in 1..Len(devices)
      BY SMTT(30), <1>1, <1>2, <1>3, <1>4, <1>6, <1>8, <3>2
    <3> QED BY SMTT(30), <1>6, <3>1, <3>2
  <2>2. ASSUME NEW i \in 1..Len(devices'), NEW j \in 1..Len(devices'), i < j
        PROVE  /\ devices'[i].port_base + devices'[i].port_len <= devices'[j].port_base
               /\ devices'[j].irq # 0 => devices'[i].irq < devices'[j].irq
    <3>0. i \in 1..Len(devices)
      BY SMTT(30), <1>6, <2>2
    <3>1. CASE j = Len(devices) + 1
      <4>1. devices'[j] = d /\ devices'[i] = devices[i]
        BY <1>6, <3>0, <3>1
      <4> QED BY SMTT(30), <1>3, <1>4, <1>8, <3>0, <4>1
    <3>2. CASE j \in 1..Len(devices)
      BY <1>6, <2>2, <3>0, <3>2 DEF PciInv, Growing
    <3> QED BY SMTT(30), <1>6, <3>1, <3>2
  <2>3. next'.slot = Len(devices') /\ next'.irq > 0
    BY <1>2, <1>3, <1>4, <1>6
  <2> QED BY <2>1, <2>2, <2>3 DEF Growing
<1>10. Sizing'
  <2>1. ASSUME NEW s, NEW i \in bus!Lookup(s)
        PROVE  i \in bus!Lookup(s)' /\ devices'[i].port_len = devices[i].port_len
    BY SMTT(30), <1>3, <1>6 DEF bus!Lookup
  <2>2. ~read_bar0_size' /\ sizing' = -1
    BY <1>2 DEF PciInv, Sizing
  <2>3. ASSUME NEW s \in bus!Slots, seen'[s] # -1
        PROVE  \E i \in bus!Lookup(s)' : devices'[i].port_len = seen'[s]
    <3>1. PICK i \in bus!Lookup(s) : devices[i].port_len = seen[s]
      BY <1>2, <2>3 DEF PciInv, Sizing
    <3> QED BY <1>2, <2>1, <3>1
  <2> QED BY <2>2, <2>3 DEF Sizing
<1> QED BY <1>7, <1>9, <1>10 DEF PciInv

\* The guest's accesses.
LEMMA PciStep ==
    ASSUME PciConstants, PciInv, [bus!Next]_(bus!vars)
    PROVE  PciInv'
<1>1. CASE \E len \in Lens, use_irq \in BOOLEAN : bus!AddDevice(len, use_irq)
  BY <1>1, PciAdd
<1>2. ASSUME NEW slot \in bus!Slots, NEW reg \in bus!Regs, bus!SelectAddr(slot, reg)
      PROVE  PciInv'
  <2>1. /\ UNCHANGED <<devices, next, sizing, seen, read_bar0_size>> /\ sizing \in {-1, slot}
        /\ selected' = [slot |-> slot, reg |-> reg]
    BY <1>2 DEF bus!SelectAddr
  <2>2. PciTyped' /\ Growing'
    BY <2>1 DEF PciInv, PciTyped, Growing
  <2>3. Sizing'
    BY <2>1 DEF PciInv, Sizing, bus!Lookup
  <2> QED BY <2>2, <2>3 DEF PciInv
<1>3. CASE bus!WriteOnes
  <2>1. UNCHANGED <<devices, next, selected, seen>> /\ sizing' = selected.slot /\ bus!Lookup(selected.slot) # {}
    BY <1>3 DEF bus!WriteOnes
  <2>2. read_bar0_size'
    BY <1>3 DEF bus!WriteOnes
  <2>3. selected.slot \in bus!Slots /\ selected.slot # -1
    BY SMTT(30) DEF PciInv, PciTyped, bus!Slots, PciConstants
  <2>4. PciTyped' /\ Growing'
    BY <2>1, <2>3 DEF PciInv, PciTyped, Growing
  <2>5. \A s : bus!Lookup(s)' = bus!Lookup(s)
    BY <2>1 DEF bus!Lookup
  <2>6. \A s \in bus!Slots : seen'[s] # -1 => \E i \in bus!Lookup(s)' : devices'[i].port_len = seen'[s]
    BY <2>1, <2>5 DEF PciInv, Sizing
  <2>7. Sizing'
    BY <2>1, <2>2, <2>3, <2>5, <2>6 DEF Sizing
  <2> QED BY <2>4, <2>7 DEF PciInv
<1>4. CASE bus!Read
  <2>1. /\ UNCHANGED <<devices, next, selected>> /\ sizing' = -1
        /\ seen' = IF sizing # -1 THEN [seen EXCEPT ![sizing] = bus!ReadValue] ELSE seen
    BY <1>4 DEF bus!Read
  <2>2. read_bar0_size' = (read_bar0_size /\ bus!Lookup(selected.slot) = {})
    BY <1>4 DEF bus!Read
  <2>3. sizing # -1 => read_bar0_size /\ selected.slot = sizing /\ bus!Lookup(sizing) # {} /\ sizing \in bus!Slots
    BY DEF PciInv, PciTyped, Sizing
  <2>4. read_bar0_size => sizing # -1
    BY DEF PciInv, Sizing
  <2>5. ~read_bar0_size'
    BY <2>2, <2>3, <2>4
  <2>6. sizing # -1 => \E i \in bus!Lookup(sizing) : bus!ReadValue = devices[i].port_len
    <3> SUFFICES ASSUME sizing # -1 PROVE \E i \in bus!Lookup(sizing) : bus!ReadValue = devices[i].port_len
      OBVIOUS
    <3> DEFINE i == CHOOSE j \in bus!Lookup(selected.slot) : TRUE
    <3>1. i \in bus!Lookup(selected.slot)
      BY <2>3
    <3>2. bus!ReadValue = devices[i].port_len
      BY <2>3 DEF bus!ReadValue
    <3> HIDE DEF i
    <3> QED BY <2>3, <3>1, <3>2
  <2>7. \A s : bus!Lookup(s)' = bus!Lookup(s)
    BY <2>1 DEF bus!Lookup
  <2>8. seen \in [bus!Slots -> Int] /\ \A s \in bus!Slots : \A i \in bus!Lookup(s) : devices[i].port_len \in Int
    <3>1. PciTyped /\ seen \in [bus!Slots -> Int]
      BY DEF PciInv, PciTyped
    <3> QED BY SMTT(30), <3>1, DeviceFields DEF bus!Lookup
  <2>9. seen' \in [bus!Slots -> Int]
    BY <2>1, <2>3, <2>6, <2>8
  <2>10. ASSUME NEW s \in bus!Slots, seen'[s] # -1
         PROVE  \E i \in bus!Lookup(s)' : devices'[i].port_len = seen'[s]
    <3>1. CASE s = sizing /\ sizing # -1
      BY <2>1, <2>6, <2>7, <2>8, <3>1
    <3>2. CASE ~(s = sizing /\ sizing # -1)
      <4>1. seen'[s] = seen[s]
        BY <2>1, <2>8, <3>2
      <4> QED BY <2>1, <2>7, <2>10, <4>1 DEF PciInv, Sizing
    <3> QED BY <3>1, <3>2
  <2>11. PciTyped' /\ Growing'
    BY <2>1, <2>9 DEF PciInv, PciTyped, Growing
  <2>12. Sizing'
    BY <2>1, <2>5, <2>10 DEF Sizing
  <2> QED BY <2>11, <2>12 DEF PciInv
<1>5. CASE UNCHANGED bus!vars
  <2>1. UNCHANGED <<devices, next, selected, read_bar0_size, sizing, seen>>
    BY <1>5 DEF bus!vars
  <2>2. PciTyped' /\ Growing'
    BY <2>1 DEF PciInv, PciTyped, Growing
  <2>3. Sizing'
    BY <2>1 DEF PciInv, Sizing, bus!Lookup
  <2> QED BY <2>2, <2>3 DEF PciInv
<1> QED BY <1>1, <1>2, <1>3, <1>4, <1>5 DEF bus!Next

\* Every port of a device on the emulated bus is routed to that device and no
\* other, slots and IRQs are unique, and a guest that sizes a base address register
\* finds the length of the device that it has selected, whatever the number and the
\* lengths of the devices (pci_add_device, pci_handle_io_read, handle_io_read).
THEOREM GuestFindsDevices ==
    ASSUME PciConstants
    PROVE  bus!Spec => []bus!BusRight
<1>1. bus!Init => PciInv
  BY PciInit
<1>2. PciInv /\ [bus!Next]_(bus!vars) => PciInv'
  BY PciStep
<1>3. PciInv => bus!BusRight
  <2> SUFFICES ASSUME PciInv PROVE bus!BusRight
    OBVIOUS
  <2>1. /\ devices \in Seq(Device) /\ DOMAIN devices = 1..Len(devices) /\ Len(devices) \in Nat
        /\ \A i \in 1..Len(devices) :
              /\ devices[i].slot = i - 1 /\ devices[i].irq \in Nat
              /\ devices[i].port_base \in Nat /\ devices[i].port_len \in Nat
    <3>1. PciTyped /\ devices \in Seq(Device) /\ \A i \in 1..Len(devices) : devices[i].slot = i - 1
      BY DEF PciInv, PciTyped, Growing
    <3> QED BY <3>1, DeviceFields
  <2>2. \A i, j \in 1..Len(devices) : i < j =>
           /\ devices[i].port_base + devices[i].port_len <= devices[j].port_base
           /\ devices[j].irq # 0 => devices[i].irq < devices[j].irq
    BY DEF PciInv, Growing
  <2>3. ASSUME NEW i \in DOMAIN devices,
               NEW port \in devices[i].port_base..(devices[i].port_base + devices[i].port_len - 1)
        PROVE  bus!Routed(port) = {i}
    <3>1. port \in Int /\ devices[i].port_base <= port /\ port < devices[i].port_base + devices[i].port_len
      BY SMTT(30), <2>1
    <3>2. i \in bus!Routed(port)
      BY <3>1 DEF bus!Routed
    <3>3. ASSUME NEW j \in bus!Routed(port) PROVE j = i
      <4>1. /\ j \in 1..Len(devices) /\ i \in 1..Len(devices) /\ devices[j].port_base <= port
            /\ port < devices[j].port_base + devices[j].port_len
        BY <2>1 DEF bus!Routed
      <4>2. i < j \/ j < i \/ i = j
        BY SMTT(30), <4>1
      <4>3. i < j => devices[i].port_base + devices[i].port_len <= devices[j].port_base
        BY <2>2, <4>1
      <4>4. j < i => devices[j].port_base + devices[j].port_len <= devices[i].port_base
        BY <2>2, <4>1
      <4>5. /\ devices[i].port_base \in Nat /\ devices[i].port_len \in Nat
            /\ devices[j].port_base \in Nat /\ devices[j].port_len \in Nat
        BY <2>1, <4>1
      <4> QED BY SMTT(30), <3>1, <4>1, <4>2, <4>3, <4>4, <4>5
    <3> QED BY <3>2, <3>3
  <2>4. ASSUME NEW i \in DOMAIN devices, NEW j \in DOMAIN devices, i # j
        PROVE  devices[i].slot # devices[j].slot /\ (devices[i].irq # 0 => devices[i].irq # devices[j].irq)
    <3>1. i \in 1..Len(devices) /\ j \in 1..Len(devices) /\ (i < j \/ j < i)
      BY SMTT(30), <2>1, <2>4
    <3> QED BY SMTT(30), <2>1, <2>2, <2>4, <3>1
  <2>5. bus!Distinct
    BY <2>3, <2>4 DEF bus!Distinct
  <2>6. bus!SizesSeen
    BY DEF PciInv, Sizing, bus!SizesSeen, bus!Unknown
  <2> QED BY <2>5, <2>6 DEF bus!BusRight
<1> QED BY <1>1, <1>2, <1>3, PTL DEF bus!Spec

-----------------------------------------------------------------------------
(***************************************************************************)
(* The interrupts of the hypervisor's guests (HvIrq).                      *)
(***************************************************************************)
CONSTANTS Guests, Ops, PIC_VALUES
VARIABLES pending, halted, armed, fired, vmx, next_irq, due, lost

hv == INSTANCE HvIrq

\* What a guest writes to its PIC are sets of bits.
HvConstants == PIC_VALUES \subseteq SUBSET Int

Chip == [phase : 0..3, mask : SUBSET Int]
Places == {"start", "run", "check", "await", "try", "io", "halt", "halted"}
Vmx == [pc : Places, exit : {"irq", "hlt"}, irqs : SUBSET Int, async : BOOLEAN, flag : BOOLEAN,
        got : SUBSET Int, pic : [{"master", "slave"} -> Chip]]
ServerState == [pending : [Guests -> SUBSET Int], halted : [Guests -> BOOLEAN],
                vmx : [Guests -> Vmx], lost : BOOLEAN]

\* HaltKnown of a state of the server, and NoMissedWakeup.
Known(s) ==
    /\ ~s.lost
    /\ \A g \in Guests : s.halted[g] => s.vmx[g].pc = "halted"
    /\ \A g \in Guests : s.vmx[g].pc = "halted" => s.halted[g]
Told(s) == \A g \in Guests : s.halted[g] => s.pending[g] = {}

\* The inductive invariant: every turn of the server's loop ends with the guests
\* awake that have something to do.
HvInv ==
    /\ hv!server \in ServerState /\ next_irq \in 0..15 /\ due \in [Guests -> SUBSET Int]
    /\ hv!IrqKept /\ Known(hv!server) /\ Told(hv!server)

\* Replies to guests that wait for them: they wake up, and nothing else changes.
LEMMA ReplyHaltEffect ==
    ASSUME NEW s \in ServerState, Known(s), NEW gs \in SUBSET Guests, \A g \in gs : s.halted[g]
    PROVE  /\ hv!ReplyHalt(s, gs) \in ServerState /\ Known(hv!ReplyHalt(s, gs))
           /\ hv!ReplyHalt(s, gs).pending = s.pending
           /\ \A g \in Guests : hv!ReplyHalt(s, gs).vmx[g].irqs = s.vmx[g].irqs
           /\ \A g \in Guests : hv!ReplyHalt(s, gs).halted[g] => s.halted[g] /\ g \notin gs
<1> DEFINE t == hv!ReplyHalt(s, gs)
           v == [g \in Guests |-> IF g \in gs /\ s.vmx[g].pc = "halted" THEN [s.vmx[g] EXCEPT !.pc = "check"] ELSE s.vmx[g]]
           h == [g \in Guests |-> IF g \in gs THEN FALSE ELSE s.halted[g]]
<1>1. t = [s EXCEPT !.halted = h, !.lost = @ \/ \E g \in gs : s.vmx[g].pc # "halted", !.vmx = v]
  BY DEF hv!ReplyHalt
<1>2. ASSUME NEW g \in gs PROVE s.vmx[g].pc = "halted"
  BY DEF Known
<1>3. v \in [Guests -> Vmx] /\ h \in [Guests -> BOOLEAN]
  <2>1. v \in [Guests -> Vmx]
    BY SMTT(30) DEF ServerState, Vmx, Places
  <2>2. s.halted \in [Guests -> BOOLEAN]
    BY DEF ServerState
  <2>3. h \in [Guests -> BOOLEAN]
    BY <2>2
  <2> QED BY <2>1, <2>3
<1>4. \A g \in Guests : v[g].irqs = s.vmx[g].irqs
  BY SMTT(30) DEF ServerState, Vmx, Places
<1>5. \A g \in Guests : (h[g] => s.halted[g] /\ g \notin gs) /\ (s.halted[g] /\ g \notin gs => h[g])
  OBVIOUS
<1>6. \A g \in Guests : (g \in gs => v[g].pc # "halted") /\ (g \notin gs => v[g] = s.vmx[g])
  BY SMTT(30), <1>2 DEF ServerState, Vmx, Places
<1> HIDE DEF v, h
<1>7. /\ t.halted = h /\ t.vmx = v /\ t.pending = s.pending
      /\ t.lost <=> (s.lost \/ \E g \in gs : s.vmx[g].pc # "halted")
  BY <1>1 DEF ServerState
<1>8. ~t.lost
  BY <1>2, <1>7 DEF Known
<1>9. t \in ServerState
  BY <1>1, <1>3 DEF ServerState
<1>10. Known(t)
  BY <1>5, <1>6, <1>7, <1>8 DEF Known
<1> QED BY <1>4, <1>5, <1>7, <1>9, <1>10 DEF t

\* The end of a turn: whoever has an IRQ pending does not sleep.
LEMMA EventsSent ==
    ASSUME NEW s \in ServerState, Known(s)
    PROVE  LET t == hv!guest_send_pending_events(s)
           IN  /\ t \in ServerState /\ Known(t) /\ Told(t) /\ t.pending = s.pending
               /\ \A g \in Guests : t.vmx[g].irqs = s.vmx[g].irqs
<1> DEFINE some == {g \in Guests : s.pending[g] # {}}
           v == [g \in Guests |-> IF g \in some THEN [s.vmx[g] EXCEPT !.async = TRUE] ELSE s.vmx[g]]
           u == [s EXCEPT !.vmx = v]
           gs == {g \in some : s.halted[g]}
           t == hv!ReplyHalt(u, gs)
<1>1. hv!guest_send_pending_events(s) = t
  BY DEF hv!guest_send_pending_events
<1>2. v \in [Guests -> Vmx] /\ \A g \in Guests : v[g].pc = s.vmx[g].pc /\ v[g].irqs = s.vmx[g].irqs
  <2>1. ASSUME NEW g \in Guests
        PROVE  /\ [s.vmx[g] EXCEPT !.async = TRUE] \in Vmx
               /\ [s.vmx[g] EXCEPT !.async = TRUE].pc = s.vmx[g].pc
               /\ [s.vmx[g] EXCEPT !.async = TRUE].irqs = s.vmx[g].irqs
    BY DEF ServerState, Vmx
  <2>2. s.vmx \in [Guests -> Vmx]
    BY DEF ServerState
  <2> QED BY <2>1, <2>2
<1> HIDE DEF v
<1>3. u \in ServerState /\ u.pending = s.pending /\ u.halted = s.halted /\ u.vmx = v /\ u.lost = s.lost
  BY <1>2 DEF ServerState
<1> HIDE DEF u
<1>4. Known(u)
  BY <1>2, <1>3 DEF Known
<1>5. gs \in SUBSET Guests /\ \A g \in gs : u.halted[g]
  BY <1>3
<1>6. /\ t \in ServerState /\ Known(t) /\ t.pending = u.pending
      /\ \A g \in Guests : t.vmx[g].irqs = u.vmx[g].irqs
      /\ \A g \in Guests : t.halted[g] => u.halted[g] /\ g \notin gs
  BY SMTT(30), <1>3, <1>4, <1>5, ReplyHaltEffect
<1>7. Told(t)
  BY <1>3, <1>6 DEF Told
<1> QED BY SMTT(30), <1>1, <1>2, <1>3, <1>6, <1>7

\* A turn of the server's loop that handles a message, up to its end.
LEMMA ServeKeeps ==
    ASSUME NEW s \in ServerState, Known(s), next_irq \in 0..15, due' \in [Guests -> SUBSET Int],
           \A g \in Guests : s.pending[g] \cup s.vmx[g].irqs = due'[g], hv!Serve(s)
    PROVE  HvInv'
<1> DEFINE t == hv!guest_send_pending_events(s)
<1>1. /\ t \in ServerState /\ Known(t) /\ Told(t) /\ t.pending = s.pending
      /\ \A g \in Guests : t.vmx[g].irqs = s.vmx[g].irqs
  BY EventsSent
<1>2. pending' = t.pending /\ halted' = t.halted /\ vmx' = t.vmx /\ lost' = t.lost
  BY DEF hv!Serve
<1> HIDE DEF t
<1>3. hv!server' = t
  BY <1>1, <1>2 DEF hv!server, ServerState
<1>4. hv!IrqKept'
  BY <1>1, <1>2 DEF hv!IrqKept
<1>5. Known(hv!server)' /\ Told(hv!server)' /\ (hv!server \in ServerState)'
  BY <1>1, <1>3 DEF Known, Told
<1>6. next_irq' \in 0..15
  BY DEF hv!Serve
<1> QED BY <1>4, <1>5, <1>6 DEF HvInv

\* What the invariant says of the variables.
LEMMA HvTypes ==
    ASSUME HvInv
    PROVE  /\ pending \in [Guests -> SUBSET Int] /\ halted \in [Guests -> BOOLEAN]
           /\ vmx \in [Guests -> Vmx] /\ lost \in BOOLEAN /\ due \in [Guests -> SUBSET Int]
           /\ next_irq \in 0..15 /\ hv!server.pending = pending /\ hv!server.halted = halted
           /\ hv!server.vmx = vmx /\ hv!server.lost = lost
           /\ \A g \in Guests : halted[g] => vmx[g].pc = "halted"
           /\ \A g \in Guests : vmx[g].pc = "halted" => halted[g]
           /\ \A g \in Guests : halted[g] => pending[g] = {}
           /\ \A g \in Guests : pending[g] \cup vmx[g].irqs = due[g]
           /\ ~lost
<1>1. /\ hv!server.pending = pending /\ hv!server.halted = halted
      /\ hv!server.vmx = vmx /\ hv!server.lost = lost
  BY DEF hv!server
<1>2. hv!server \in ServerState /\ due \in [Guests -> SUBSET Int] /\ next_irq \in 0..15
  BY DEF HvInv
<1>3. Known(hv!server) /\ Told(hv!server) /\ hv!IrqKept
  BY DEF HvInv
<1>4. /\ pending \in [Guests -> SUBSET Int] /\ halted \in [Guests -> BOOLEAN]
      /\ vmx \in [Guests -> Vmx] /\ lost \in BOOLEAN
  BY <1>1, <1>2 DEF ServerState
<1>5. /\ \A g \in Guests : halted[g] => vmx[g].pc = "halted"
      /\ \A g \in Guests : vmx[g].pc = "halted" => halted[g]
      /\ \A g \in Guests : halted[g] => pending[g] = {}
      /\ ~lost
  BY <1>1, <1>3 DEF Known, Told
<1>6. \A g \in Guests : pending[g] \cup vmx[g].irqs = due[g]
  BY <1>3 DEF hv!IrqKept
<1> QED BY <1>1, <1>2, <1>4, <1>5, <1>6

\* A step of the kernel for a guest that does not sleep.
LEMMA KernelKeeps ==
    ASSUME HvInv, hv!Kernel, next_irq' \in 0..15, NEW g \in Guests, NEW v \in Vmx, vmx' = [vmx EXCEPT ![g] = v],
           vmx[g].pc # "halted", v.pc # "halted", due' \in [Guests -> SUBSET Int],
           \A x \in Guests \ {g} : due'[x] = due[x], pending[g] \cup v.irqs = due'[g]
    PROVE  HvInv'
<1> USE HvTypes
<1>1. pending' = pending /\ halted' = halted /\ lost' = lost
  BY DEF hv!Kernel
<1>2. /\ vmx' \in [Guests -> Vmx] /\ vmx'[g] = v
      /\ \A x \in Guests \ {g} : vmx'[x] = vmx[x]
  OBVIOUS
<1>3. /\ hv!server'.pending = pending' /\ hv!server'.halted = halted'
      /\ hv!server'.vmx = vmx' /\ hv!server'.lost = lost'
  BY DEF hv!server
<1>4. hv!server' \in ServerState
  BY <1>1, <1>2 DEF hv!server, ServerState
<1>5. hv!IrqKept'
  BY <1>1, <1>2 DEF hv!IrqKept
<1>6. Known(hv!server)'
  <2>1. \A x \in Guests : halted'[x] => vmx'[x].pc = "halted"
    BY SMTT(30), <1>1, <1>2
  <2>2. \A x \in Guests : vmx'[x].pc = "halted" => halted'[x]
    BY <1>1, <1>2
  <2> QED BY SMTT(30), <1>1, <1>3, <2>1, <2>2 DEF Known
<1>7. Told(hv!server)'
  BY SMTT(30), <1>1, <1>3 DEF Told
<1> QED BY <1>4, <1>5, <1>6, <1>7 DEF HvInv

\* The server handles a message of guest g, which it leaves awake or asleep.
LEMMA GuestServed ==
    ASSUME HvInv, NEW g \in Guests, NEW s \in ServerState, NEW v \in Vmx, hv!Serve(s),
           s.vmx = [vmx EXCEPT ![g] = v], s.lost = lost,
           \A x \in Guests \ {g} : s.pending[x] = pending[x] /\ due'[x] = due[x],
           \A x \in Guests \ {g} : (s.halted[x] => halted[x]) /\ (halted[x] => s.halted[x]),
           s.halted[g] => v.pc = "halted", v.pc = "halted" => s.halted[g],
           due' \in [Guests -> SUBSET Int], s.pending[g] \cup v.irqs = due'[g]
    PROVE  HvInv'
<1> USE HvTypes
<1>1. s.vmx[g] = v /\ \A x \in Guests \ {g} : s.vmx[x] = vmx[x]
  BY SMTT(30)
<1>2. \A x \in Guests : s.halted[x] => s.vmx[x].pc = "halted"
  BY SMTT(30), <1>1
<1>3. \A x \in Guests : s.vmx[x].pc = "halted" => s.halted[x]
  BY SMTT(30), <1>1
<1>4. Known(s)
  BY <1>2, <1>3 DEF Known
<1>5. \A x \in Guests : s.pending[x] \cup s.vmx[x].irqs = due'[x]
  BY SMTT(30), <1>1
<1> QED BY <1>4, <1>5, ServeKeeps

LEMMA ServeStep ==
    ASSUME HvInv, NEW g \in Guests,
           hv!ServeStart(g) \/ hv!ServeAwait(g) \/ hv!ServeIo(g) \/ hv!ServeHalt(g)
    PROVE  HvInv'
<1> USE HvTypes
<1>1. hv!server \in ServerState
  BY DEF HvInv
<1>2. vmx[g] \in Vmx /\ pending[g] \subseteq Int
  OBVIOUS
<1>3. CASE hv!ServeStart(g)
  <2> DEFINE v == [vmx[g] EXCEPT !.pc = "run"]
             s == [hv!server EXCEPT !.vmx[g].pc = "run"]
  <2>1. v \in Vmx /\ v.pc = "run" /\ v.irqs = vmx[g].irqs
    BY <1>2 DEF Vmx, Places
  <2>2. ~halted[g]
    BY <1>3 DEF hv!ServeStart
  <2>3. hv!Serve(s) /\ due' = due
    BY <1>3 DEF hv!ServeStart
  <2>4. /\ s \in ServerState /\ s.vmx = [vmx EXCEPT ![g] = v] /\ s.lost = lost
        /\ s.pending = pending /\ s.halted = halted
    BY <1>1, <2>1 DEF ServerState
  <2>5. s.pending[g] \cup v.irqs = due'[g] /\ due' \in [Guests -> SUBSET Int]
    BY <2>1, <2>3, <2>4
  <2>6. \A x \in Guests \ {g} : s.pending[x] = pending[x] /\ due'[x] = due[x]
    BY <2>3, <2>4
  <2>7. \A x \in Guests \ {g} : (s.halted[x] => halted[x]) /\ (halted[x] => s.halted[x])
    BY <2>4
  <2>8. ~s.halted[g] /\ v.pc # "halted"
    BY <2>1, <2>2, <2>4
  <2>9. s \in ServerState /\ s.vmx = [vmx EXCEPT ![g] = v] /\ s.lost = lost
    BY <2>4
  <2> HIDE DEF v, s
  <2> QED BY <2>1, <2>3, <2>5, <2>6, <2>7, <2>8, <2>9, GuestServed
<1>4. CASE hv!ServeAwait(g)
  <2> DEFINE v == [vmx[g] EXCEPT !.pc = "try", !.irqs = @ \cup pending[g]]
             s == [hv!server EXCEPT !.vmx[g] = [vmx[g] EXCEPT !.pc = "try", !.irqs = @ \cup pending[g]], !.pending[g] = {}]
  <2>1. v \in Vmx /\ v.pc = "try" /\ v.irqs = vmx[g].irqs \cup pending[g]
    BY <1>2 DEF Vmx, Places
  <2>2. ~halted[g]
    BY <1>4 DEF hv!ServeAwait
  <2>3. hv!Serve(s) /\ due' = due
    BY <1>4 DEF hv!ServeAwait
  <2>4. /\ s \in ServerState /\ s.vmx = [vmx EXCEPT ![g] = v] /\ s.lost = lost
        /\ s.pending = [pending EXCEPT ![g] = {}] /\ s.halted = halted
    <3>1. s = [hv!server EXCEPT !.vmx[g] = v, !.pending[g] = {}]
      OBVIOUS
    <3> HIDE DEF v, s
    <3> QED BY <1>1, <2>1, <3>1 DEF ServerState
  <2> HIDE DEF v, s
  <2>5. s.pending[g] = {} /\ \A x \in Guests \ {g} : s.pending[x] = pending[x] /\ due'[x] = due[x]
    BY <2>3, <2>4
  <2>6. s.pending[g] \cup v.irqs = due'[g] /\ due' \in [Guests -> SUBSET Int]
    BY <2>1, <2>3, <2>5
  <2>7. \A x \in Guests \ {g} : (s.halted[x] => halted[x]) /\ (halted[x] => s.halted[x])
    BY <2>4
  <2>8. ~s.halted[g] /\ v.pc # "halted"
    BY <2>1, <2>2, <2>4
  <2>9. s \in ServerState /\ s.vmx = [vmx EXCEPT ![g] = v] /\ s.lost = lost
    BY <2>4
  <2> QED BY <2>1, <2>3, <2>5, <2>6, <2>7, <2>8, <2>9, GuestServed
<1>5. CASE hv!ServeIo(g)
  <2> DEFINE v == [vmx[g] EXCEPT !.pc = "run"]
             p == pending[g] \cup {hv!DISK}
             s == [hv!server EXCEPT !.vmx[g].pc = "run", !.pending[g] = @ \cup {hv!DISK}]
  <2>1. v \in Vmx /\ v.pc = "run" /\ v.irqs = vmx[g].irqs
    BY <1>2 DEF Vmx, Places
  <2>2. ~halted[g] /\ p \subseteq Int
    BY SMTT(30), <1>2, <1>5 DEF hv!ServeIo, hv!DISK
  <2>3. hv!Serve(s) /\ due' = [due EXCEPT ![g] = @ \cup {hv!DISK}]
    BY <1>5 DEF hv!ServeIo
  <2>4. /\ s \in ServerState /\ s.vmx = [vmx EXCEPT ![g] = v] /\ s.lost = lost
        /\ s.pending = [pending EXCEPT ![g] = p] /\ s.halted = halted
    BY <1>1, <2>1, <2>2 DEF ServerState
  <2>5. /\ due'[g] = due[g] \cup {hv!DISK} /\ due' \in [Guests -> SUBSET Int]
        /\ \A x \in Guests \ {g} : due'[x] = due[x]
    BY SMTT(30), <2>3 DEF hv!DISK
  <2>6. s.pending[g] = p /\ \A x \in Guests \ {g} : s.pending[x] = pending[x]
    BY <2>4
  <2>7. p \cup v.irqs = due'[g]
    BY <2>1, <2>5
  <2> HIDE DEF v, s, p
  <2>8. /\ \A x \in Guests \ {g} : s.pending[x] = pending[x] /\ due'[x] = due[x]
        /\ s.pending[g] \cup v.irqs = due'[g] /\ due' \in [Guests -> SUBSET Int]
    BY <2>5, <2>6, <2>7
  <2>9. /\ \A x \in Guests \ {g} : (s.halted[x] => halted[x]) /\ (halted[x] => s.halted[x])
        /\ (s.halted[g] => v.pc = "halted") /\ (v.pc = "halted" => s.halted[g])
    BY <2>1, <2>2, <2>4
  <2> QED BY <2>1, <2>3, <2>4, <2>8, <2>9, GuestServed
<1>6. CASE hv!ServeHalt(g)
  <2> DEFINE v == [vmx[g] EXCEPT !.pc = "halted"]
             s == [hv!server EXCEPT !.vmx[g].pc = "halted", !.halted[g] = TRUE]
  <2>1. v \in Vmx /\ v.pc = "halted" /\ v.irqs = vmx[g].irqs
    BY <1>2 DEF Vmx, Places
  <2>2. hv!Serve(s) /\ due' = due
    BY <1>6 DEF hv!ServeHalt
  <2>3. /\ s.vmx = [vmx EXCEPT ![g] = v] /\ s.lost = lost
        /\ s.pending = pending /\ s.halted = [halted EXCEPT ![g] = TRUE]
    BY <1>1 DEF ServerState
  <2>4. s.halted \in [Guests -> BOOLEAN]
    BY <2>3
  <2>5. s.halted[g] /\ \A x \in Guests \ {g} : (s.halted[x] => halted[x]) /\ (halted[x] => s.halted[x])
    BY SMTT(30), <2>3
  <2>6. s \in ServerState
    BY <1>1, <2>1, <2>3, <2>4 DEF ServerState
  <2> HIDE DEF v, s
  <2>7. s.pending[g] \cup v.irqs = due'[g] /\ due' \in [Guests -> SUBSET Int]
    BY <2>1, <2>2, <2>3
  <2>8. \A x \in Guests \ {g} : s.pending[x] = pending[x] /\ due'[x] = due[x]
    BY <2>2, <2>3
  <2> QED BY <2>1, <2>2, <2>3, <2>5, <2>6, <2>7, <2>8, GuestServed
<1> QED BY <1>3, <1>4, <1>5, <1>6

\* guest_tick: all guests get the timer's IRQ, and those that sleep their answer.
LEMMA TimerStep ==
    ASSUME HvInv, hv!ServeTimer
    PROVE  HvInv'
<1> USE HvTypes
<1> DEFINE p == [g \in Guests |-> pending[g] \cup {hv!TIMER}]
           s == [hv!server EXCEPT !.pending = [g \in Guests |-> @[g] \cup {hv!TIMER}]]
           gs == {g \in Guests : halted[g]}
           t == hv!ReplyHalt(s, gs)
<1>1. hv!server \in ServerState /\ Known(hv!server)
  BY DEF HvInv
<1>2. hv!Serve(t) /\ due' = [g \in Guests |-> due[g] \cup {hv!TIMER}]
  BY DEF hv!ServeTimer
<1>3. p \in [Guests -> SUBSET Int]
  BY SMTT(30) DEF hv!TIMER
<1>4. s = [hv!server EXCEPT !.pending = p]
  OBVIOUS
<1>5. s \in ServerState /\ s.pending = p /\ s.halted = halted /\ s.vmx = vmx /\ s.lost = lost
  BY <1>1, <1>3, <1>4 DEF ServerState
<1> HIDE DEF s
<1>6. Known(s)
  BY <1>5 DEF Known
<1>7. gs \in SUBSET Guests /\ \A g \in gs : s.halted[g]
  BY <1>5
<1>8. /\ t \in ServerState /\ Known(t) /\ t.pending = p
      /\ \A g \in Guests : t.vmx[g].irqs = vmx[g].irqs
  BY SMTT(30), <1>5, <1>6, <1>7, ReplyHaltEffect
<1> HIDE DEF t, gs
<1>9. \A g \in Guests : t.pending[g] \cup t.vmx[g].irqs = due'[g]
  BY SMTT(30), <1>2, <1>8
<1>10. due' \in [Guests -> SUBSET Int]
  BY SMTT(30), <1>2 DEF hv!TIMER
<1> QED BY <1>2, <1>8, <1>9, <1>10, ServeKeeps

\* pic_is_irq_masked has passed some IRQs: one of them comes first.
LEMMA FirstIn ==
    ASSUME next_irq \in 0..15, NEW S \in SUBSET Int, S # {}
    PROVE  hv!First(S) \in S
<1> DEFINE D(i) == (i - next_irq) % 16
           Ds == {D(i) : i \in S}
<1>1. \A i \in S : D(i) \in Nat
  BY SMTT(30)
<1> HIDE DEF D
<1>2. Ds \in SUBSET Nat /\ Ds # {}
  BY <1>1
<1>3. Min(Ds) \in Ds /\ \A d \in Ds : Min(Ds) <= d
  BY <1>2, MinProperties
<1>4. PICK i \in S : D(i) = Min(Ds)
  BY <1>3
<1>5. \A j \in S : D(i) <= D(j)
  BY <1>3, <1>4
<1>6. \A j \in S : ((i - next_irq) % 16) <= ((j - next_irq) % 16)
  BY <1>5 DEF D
<1> QED BY <1>6 DEF hv!First

\* inject_event_if_exists: what it injects is no longer due, unless it was raised again.
LEMMA TryStep ==
    ASSUME HvInv, NEW g \in Guests, hv!Try(g)
    PROVE  HvInv'
<1> USE HvTypes
<1> DEFINE v == vmx[g]
           ready == IF v.flag THEN {irq \in v.irqs : ~hv!pic_is_irq_masked(v, irq)} ELSE {}
           irq == hv!First(ready)
<1>1. v \in Vmx /\ v.pc = "try" /\ v.irqs \subseteq Int /\ hv!Kernel
  BY DEF hv!Try, Vmx
<1>2. CASE ready # {}
  <2> DEFINE w == [v EXCEPT !.pc = "run", !.irqs = @ \ {irq}, !.got = {irq}]
  <2>1. /\ vmx' = [vmx EXCEPT ![g] = w]
        /\ due' = [due EXCEPT ![g] = @ \ ({irq} \ pending[g])]
    BY <1>2 DEF hv!Try
  <2>2. irq \in Int
    <3>1. ready \in SUBSET Int
      BY <1>1
    <3> HIDE DEF ready
    <3> QED BY <1>2, <3>1, FirstIn
  <2>3. w \in Vmx /\ w.pc = "run" /\ w.irqs = v.irqs \ {irq}
    BY <1>1, <2>2 DEF Vmx, Places
  <2>4. /\ due' \in [Guests -> SUBSET Int] /\ due'[g] = due[g] \ ({irq} \ pending[g])
        /\ \A x \in Guests \ {g} : due'[x] = due[x]
    BY <2>1
  <2>5. next_irq' = (irq + 1) % 16
    BY <1>2 DEF hv!Try
  <2> HIDE DEF w, irq
  <2>6. next_irq' \in 0..15
    BY SMTT(30), <2>2, <2>5
  <2>7. pending[g] \cup w.irqs = due'[g]
    BY <2>3, <2>4
  <2> QED BY <1>1, <2>1, <2>3, <2>4, <2>6, <2>7, KernelKeeps
<1>3. CASE ready = {}
  <2> DEFINE w == [v EXCEPT !.pc = IF v.exit = "hlt" THEN "halt" ELSE "run"]
  <2>1. vmx' = [vmx EXCEPT ![g] = w] /\ due' = due /\ next_irq' = next_irq
    BY <1>3 DEF hv!Try
  <2>2. w \in Vmx /\ w.pc # "halted" /\ w.irqs = v.irqs
    BY <1>1 DEF Vmx, Places
  <2> HIDE DEF w
  <2> QED BY <1>1, <2>1, <2>2, KernelKeeps
<1> QED BY <1>2, <1>3

\* The exits of a guest that runs, and what it does to its flags and PICs.
LEMMA GuestStep ==
    ASSUME HvConstants, HvInv, NEW g \in Guests,
           \/ hv!ExternalIrq(g) \/ hv!Hlt(g) \/ hv!Check(g) \/ hv!Io(g) \/ hv!Serial(g) \/ hv!Flag(g)
           \/ \E p \in {"master", "slave"} : hv!PicInit(g, p) \/ \E value \in PIC_VALUES : hv!PicWrite(g, p, value)
    PROVE  HvInv'
<1> USE HvTypes
<1>1. vmx[g] \in Vmx /\ vmx[g].pic \in [{"master", "slave"} -> Chip]
  BY DEF Vmx
<1>2. ASSUME NEW v \in Vmx, vmx' = [vmx EXCEPT ![g] = v], hv!Kernel, UNCHANGED <<next_irq, due>>,
             vmx[g].pc # "halted", v.pc # "halted", v.irqs = vmx[g].irqs
      PROVE  HvInv'
  BY <1>2, KernelKeeps
<1>3. CASE hv!ExternalIrq(g)
  <2> DEFINE v == [vmx[g] EXCEPT !.pc = "check", !.exit = "irq", !.got = {}]
  <2>1. v \in Vmx /\ v.pc = "check" /\ v.irqs = vmx[g].irqs
    BY <1>1 DEF Vmx, Places
  <2> QED BY <1>2, <1>3, <2>1 DEF hv!ExternalIrq
<1>4. CASE hv!Hlt(g)
  <2> DEFINE v == [vmx[g] EXCEPT !.pc = "check", !.exit = "hlt", !.got = {}]
  <2>1. v \in Vmx /\ v.pc = "check" /\ v.irqs = vmx[g].irqs
    BY <1>1 DEF Vmx, Places
  <2> QED BY <1>2, <1>4, <2>1 DEF hv!Hlt
<1>5. CASE hv!Check(g)
  <2> DEFINE v == [vmx[g] EXCEPT !.pc = IF vmx[g].async THEN "await" ELSE "try", !.async = FALSE]
  <2>1. v \in Vmx /\ v.pc # "halted" /\ v.irqs = vmx[g].irqs
    BY <1>1 DEF Vmx, Places
  <2> QED BY <1>2, <1>5, <2>1 DEF hv!Check
<1>6. CASE hv!Io(g)
  <2> DEFINE v == [vmx[g] EXCEPT !.pc = "io"]
  <2>1. v \in Vmx /\ v.pc = "io" /\ v.irqs = vmx[g].irqs
    BY <1>1 DEF Vmx, Places
  <2> QED BY <1>2, <1>6, <2>1 DEF hv!Io
<1>7. CASE hv!Serial(g)
  <2> DEFINE v == [vmx[g] EXCEPT !.irqs = @ \cup {hv!SERIAL}]
  <2>1. v \in Vmx /\ v.pc = vmx[g].pc /\ v.irqs = vmx[g].irqs \cup {hv!SERIAL}
    BY SMTT(30), <1>1 DEF Vmx, Places, hv!SERIAL
  <2>2. /\ vmx' = [vmx EXCEPT ![g] = v] /\ hv!Kernel /\ next_irq' = next_irq /\ vmx[g].pc = "run"
        /\ due' = [due EXCEPT ![g] = @ \cup {hv!SERIAL}]
    BY <1>7 DEF hv!Serial
  <2>3. /\ due' \in [Guests -> SUBSET Int] /\ due'[g] = due[g] \cup {hv!SERIAL}
        /\ \A x \in Guests \ {g} : due'[x] = due[x]
    BY SMTT(30), <2>2 DEF hv!SERIAL
  <2> HIDE DEF v
  <2>4. pending[g] \cup v.irqs = due'[g]
    BY <2>1, <2>3
  <2> QED BY <2>1, <2>2, <2>3, <2>4, KernelKeeps
<1>8. CASE hv!Flag(g)
  <2> DEFINE v == [vmx[g] EXCEPT !.flag = ~@]
  <2>1. v \in Vmx /\ v.pc = vmx[g].pc /\ v.irqs = vmx[g].irqs
    BY <1>1 DEF Vmx, Places
  <2> QED BY <1>2, <1>8, <2>1 DEF hv!Flag
<1>9. ASSUME NEW p \in {"master", "slave"}, hv!PicInit(g, p) PROVE HvInv'
  <2> DEFINE c == [vmx[g].pic[p] EXCEPT !.phase = 1]
             v == [vmx[g] EXCEPT !.pic[p].phase = 1]
  <2>1. c \in Chip
    BY SMTT(30), <1>1 DEF Chip
  <2>2. v = [vmx[g] EXCEPT !.pic = [vmx[g].pic EXCEPT ![p] = c]]
    OBVIOUS
  <2>3. v \in Vmx /\ v.pc = vmx[g].pc /\ v.irqs = vmx[g].irqs
    <3> HIDE DEF c
    <3>1. [vmx[g].pic EXCEPT ![p] = c] \in [{"master", "slave"} -> Chip]
      BY <1>1, <2>1
    <3> HIDE DEF v
    <3> QED BY <1>1, <2>2, <3>1 DEF Vmx, Places
  <2> QED BY <1>2, <1>9, <2>3 DEF hv!PicInit
<1>10. ASSUME NEW p \in {"master", "slave"}, NEW value \in PIC_VALUES, hv!PicWrite(g, p, value)
       PROVE  HvInv'
  <2> DEFINE o == vmx[g].pic[p]
             c == [phase |-> IF o.phase \in {0, 3} THEN 0 ELSE o.phase + 1, mask |-> IF o.phase = 0 THEN value ELSE o.mask]
             v == [vmx[g] EXCEPT !.pic[p] = c]
  <2>1. c \in Chip
    BY SMTT(30), <1>1 DEF Chip, HvConstants
  <2>2. vmx' = [vmx EXCEPT ![g] = v]
    BY <1>10 DEF hv!PicWrite
  <2>3. v \in Vmx /\ v.pc = vmx[g].pc /\ v.irqs = vmx[g].irqs
    <3> HIDE DEF c
    <3>1. [vmx[g].pic EXCEPT ![p] = c] \in [{"master", "slave"} -> Chip]
      BY <1>1, <2>1
    <3>2. v = [vmx[g] EXCEPT !.pic = [vmx[g].pic EXCEPT ![p] = c]]
      OBVIOUS
    <3> HIDE DEF v
    <3> QED BY <1>1, <3>1, <3>2 DEF Vmx, Places
  <2> HIDE DEF v
  <2> QED BY <1>2, <1>10, <2>2, <2>3 DEF hv!PicWrite
<1> QED BY <1>3, <1>4, <1>5, <1>6, <1>7, <1>8, <1>9, <1>10

LEMMA HvInvariance == ASSUME HvConstants PROVE hv!Spec => []HvInv
<1>1. hv!Init => HvInv
  <2> SUFFICES ASSUME hv!Init PROVE HvInv
    OBVIOUS
  <2>1. hv!Pic \in Chip
    BY SMTT(30) DEF hv!Pic, Chip
  <2>2. hv!NewVmx \in Vmx /\ hv!NewVmx.pc = "start" /\ hv!NewVmx.irqs = {}
    BY <2>1 DEF hv!NewVmx, Vmx, Places
  <2>3. /\ pending \in [Guests -> SUBSET Int] /\ due \in [Guests -> SUBSET Int]
        /\ vmx \in [Guests -> Vmx] /\ next_irq \in 0..15 /\ ~lost
        /\ \A g \in Guests : vmx[g] = hv!NewVmx /\ pending[g] = {} /\ due[g] = {}
    BY SMTT(30), <2>2 DEF hv!Init
  <2>4. halted \in [Guests -> BOOLEAN] /\ lost \in BOOLEAN
    BY DEF hv!Init
  <2>5. \A g \in Guests : ~halted[g]
    BY DEF hv!Init
  <2>6. /\ hv!server.pending = pending /\ hv!server.halted = halted
        /\ hv!server.vmx = vmx /\ hv!server.lost = lost
    BY DEF hv!server
  <2>7. hv!server \in ServerState
    BY <2>3, <2>4 DEF hv!server, ServerState
  <2>8. Known(hv!server) /\ Told(hv!server)
    BY <2>2, <2>3, <2>5, <2>6 DEF Known, Told
  <2>9. hv!IrqKept
    BY <2>2, <2>3 DEF hv!IrqKept
  <2> QED BY <2>3, <2>7, <2>8, <2>9 DEF HvInv
<1>2. HvInv /\ [hv!Next]_(hv!vars) => HvInv'
  <2> SUFFICES ASSUME HvInv, [hv!Next]_(hv!vars) PROVE HvInv'
    OBVIOUS
  <2>1. CASE hv!ServeTimer
    BY <2>1, TimerStep
  <2>2. CASE hv!Tick \/ UNCHANGED hv!vars
    <3>1. UNCHANGED <<pending, halted, vmx, next_irq, due, lost>>
      BY <2>2 DEF hv!Tick, hv!vars
    <3> QED BY <3>1 DEF HvInv, hv!server, hv!IrqKept, Known, Told
  <2>3. ASSUME NEW g \in Guests, hv!HostStep(g) PROVE HvInv'
    BY <2>3, ServeStep, TryStep, GuestStep DEF hv!HostStep
  <2>4. ASSUME NEW g \in Guests,
               \/ hv!ExternalIrq(g) \/ hv!Hlt(g) \/ hv!Io(g) \/ hv!Serial(g) \/ hv!Flag(g)
               \/ \E p \in {"master", "slave"} : hv!PicInit(g, p) \/ \E value \in PIC_VALUES : hv!PicWrite(g, p, value)
        PROVE  HvInv'
    BY <2>4, GuestStep
  <2> QED BY <2>1, <2>2, <2>3, <2>4 DEF hv!Next
<1> QED BY <1>1, <1>2, PTL DEF hv!Spec

\* servers/hv and the kernel's VM exits: for any guests, whatever they do to their
\* flags and PICs, no IRQ of a device or of the timer is lost or made up on its way,
\* the server knows who sleeps, and nobody sleeps while an IRQ is pending.
THEOREM InterruptsArrive == ASSUME HvConstants PROVE hv!Spec => []hv!IrqsRight
<1>1. HvInv => hv!IrqsRight
  <2> SUFFICES ASSUME HvInv PROVE hv!IrqsRight
    OBVIOUS
  <2>1. hv!IrqKept
    BY DEF HvInv
  <2>2. hv!HaltKnown
    BY HvTypes DEF hv!HaltKnown
  <2>3. hv!NoMissedWakeup
    BY HvTypes DEF hv!NoMissedWakeup
  <2> QED BY <2>1, <2>2, <2>3 DEF hv!IrqsRight
<1> QED BY <1>1, HvInvariance, PTL

===============================================================================
