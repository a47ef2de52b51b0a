------------------------ MODULE PartitionTable_proofs ------------------------
(***************************************************************************)
(* Proofs about the partition table, for tables of any length and sizes    *)
(* of any value.                                                           *)
(***************************************************************************)
EXTENDS PartitionTable, SequenceTheorems, WellFoundedInduction, TLAPS

PartType == [name : Names, size : Nat \cup {Grow}, off : Nat]
LineType == [name : Names \cup {Hidden}, size : Nat \cup {Grow, Unlimited}]

\* A table starts with the hidden line, which has a size, and hides nothing else.
IsTable(T) ==
  /\ T \in Seq(LineType) /\ Len(T) >= 1
  /\ T[1].name = Hidden /\ T[1].size \in Nat
  /\ \A k \in 1..Len(T) : k > 1 => T[k].name \in Names /\ (k = 2 => T[k].size \in Nat)

\* What rk_partition_parse returns for a CMDLINE is a table.
LEMMA ParseIsTable ==
  ASSUME PartitionAssumption, NEW P \in Seq(PartType), P # <<>>, P[1].size # Grow
  PROVE  IsTable(Parse(P)) /\ Len(Parse(P)) = Len(P) + 1
<1>1. Len(P) \in Nat /\ Len(P) >= 1 /\ 1 \in 1..Len(P)
  OBVIOUS
<1>2. \A k \in 1..Len(P) : P[k] \in PartType
  OBVIOUS
<1>3. \A k \in 1..Len(P) : P[k].name \in Names /\ P[k].size \in Nat \cup {Grow} /\ P[k].off \in Nat
  BY <1>2 DEF PartType
<1>4. \A k \in 1..Len(P) + 1 : Parse(P)[k] \in LineType
  <2>1. Parse(P)[1] = Line(Hidden, P[1].off)
    BY <1>1 DEF Parse
  <2>2. Line(Hidden, P[1].off) \in LineType
    BY <1>1, <1>3 DEF Line, LineType
  <2>3. ASSUME NEW k \in 1..Len(P) + 1, k # 1 PROVE Parse(P)[k] \in LineType
    <3>1. k - 1 \in 1..Len(P)
      BY <1>1, <2>3
    <3>2. Parse(P)[k] = Line(P[k - 1].name, P[k - 1].size)
      BY <2>3 DEF Parse
    <3>3. QED
      BY <1>3, <3>1, <3>2 DEF Line, LineType
  <2>4. QED
    BY <2>1, <2>2, <2>3
<1>5. Parse(P) \in Seq(LineType) /\ Len(Parse(P)) = Len(P) + 1
  BY <1>1, <1>4 DEF Parse
<1>6. Parse(P)[1].name = Hidden /\ Parse(P)[1].size \in Nat
  BY <1>1, <1>3 DEF Parse, Line
<1>7. ASSUME NEW k \in 1..Len(P) + 1, k > 1
      PROVE  Parse(P)[k].name \in Names /\ (k = 2 => Parse(P)[k].size \in Nat)
  <2>1. k - 1 \in 1..Len(P) /\ Parse(P)[k] = Line(P[k - 1].name, P[k - 1].size)
    BY <1>1, <1>7 DEF Parse
  <2>2. QED
    BY <1>1, <1>3, <2>1 DEF Line
<1>8. QED
  BY <1>5, <1>6, <1>7 DEF IsTable

\* A line other than the hidden one deleted in the editor leaves a table.
LEMMA CutIsTable ==
  ASSUME NEW T \in Seq(LineType), IsTable(T), NEW k \in 2..Len(T),
         NEW E, E = SubSeq(T, 1, k - 1) \o SubSeq(T, k + 1, Len(T)),
         \A l \in 1..Len(E) : l <= 2 => E[l].size \in Nat
  PROVE  IsTable(E)
<1>1. E \in Seq(LineType) /\ Len(E) = Len(T) - 1
  OBVIOUS
<1>2. \A l \in 1..Len(E) : E[l] = IF l < k THEN T[l] ELSE T[l + 1]
  OBVIOUS
<1>3. QED
  BY <1>1, <1>2 DEF IsTable

\* What two sequences put together are, element by element.
LEMMA JoinProperties ==
  ASSUME NEW S, NEW A \in Seq(S), NEW C \in Seq(S)
  PROVE  /\ A \o C \in Seq(S)
         /\ Len(A \o C) = Len(A) + Len(C)
         /\ \A l \in 1..Len(A) + Len(C) : (A \o C)[l] = IF l <= Len(A) THEN A[l] ELSE C[l - Len(A)]
OBVIOUS

\* The first k lines, one new line and the rest of a table are a table.
LEMMA JoinIsTable ==
  ASSUME NEW T \in Seq(LineType), IsTable(T), NEW k \in 1..Len(T), NEW x \in LineType, x.name \in Names,
         NEW A \in Seq(LineType), Len(A) = k + 1,
         \A l \in 1..k + 1 : A[l] = IF l <= k THEN T[l] ELSE x,
         NEW C \in Seq(LineType), Len(C) = Len(T) - k, \A l \in 1..Len(T) - k : C[l] = T[l + k],
         \A l \in 1..Len(A \o C) : l <= 2 => (A \o C)[l].size \in Nat
  PROVE  IsTable(A \o C)
<1> DEFINE E == A \o C
<1> HIDE DEF E
<1>0. /\ E \in Seq(LineType) /\ Len(E) = Len(A) + Len(C)
      /\ \A l \in 1..Len(A) + Len(C) : E[l] = IF l <= Len(A) THEN A[l] ELSE C[l - Len(A)]
  BY JoinProperties DEF E
<1>1. E \in Seq(LineType) /\ Len(E) = Len(T) + 1
  BY <1>0
<1>2. \A l \in 1..Len(E) : E[l] = IF l <= k + 1 THEN A[l] ELSE C[l - (k + 1)]
  BY <1>0, <1>1
<1>3. ASSUME NEW l \in 1..Len(E)
      PROVE  E[l] = IF l <= k THEN T[l] ELSE IF l = k + 1 THEN x ELSE T[l - 1]
  <2>1. CASE l <= k + 1
    BY <1>2, <2>1
  <2>2. CASE l > k + 1
    <3>1. l - (k + 1) \in 1..Len(T) - k /\ (l - (k + 1)) + k = l - 1
      BY <1>1, <2>2
    <3>2. E[l] = C[l - (k + 1)]
      BY <1>2, <2>2
    <3>3. QED
      BY <2>2, <3>1, <3>2
  <2>3. QED
    BY <2>1, <2>2
<1>4. E[1] = T[1]
  <2>1. 1 \in 1..Len(E) /\ 1 <= k
    BY <1>1
  <2>2. QED
    BY <1>3, <2>1
<1>5. ASSUME NEW l \in 1..Len(E), l > 1
      PROVE  E[l].name \in Names
  <2>1. CASE l <= k
    <3>1. E[l] = T[l] /\ l \in 1..Len(T)
      BY <1>3, <2>1
    <3>2. QED
      BY <1>5, <3>1 DEF IsTable
  <2>2. CASE l = k + 1
    <3>1. E[l] = x
      BY <1>3, <2>2
    <3>2. QED
      BY <3>1
  <2>3. CASE l > k + 1
    <3>1. E[l] = T[l - 1] /\ l - 1 \in 1..Len(T) /\ l - 1 > 1
      BY <1>1, <1>3, <2>3
    <3>2. QED
      BY <3>1 DEF IsTable
  <2>4. QED
    BY <2>1, <2>2, <2>3
<1>6. \A l \in 1..Len(E) : l <= 2 => E[l].size \in Nat
  BY DEF E
<1>7. IsTable(E)
  BY <1>1, <1>4, <1>5, <1>6 DEF IsTable
<1>8. QED
  BY <1>7 DEF E

\* A line added in the editor leaves a table.
LEMMA AddIsTable ==
  ASSUME NEW T \in Seq(LineType), IsTable(T), NEW k \in 1..Len(T),
         NEW n \in Names, NEW s \in Sizes \cup {Grow, Unlimited}, PartitionAssumption,
         NEW E, E = SubSeq(T, 1, k) \o <<Line(n, s)>> \o SubSeq(T, k + 1, Len(T)),
         \A l \in 1..Len(E) : l <= 2 => E[l].size \in Nat
  PROVE  IsTable(E)
<1>1. Line(n, s) \in LineType /\ Line(n, s).name = n
  BY DEF Line, LineType, PartitionAssumption
<1> DEFINE S == SubSeq(T, 1, k)
           A == S \o <<Line(n, s)>>
           C == SubSeq(T, k + 1, Len(T))
<1>2. S \in Seq(LineType) /\ Len(S) = k /\ \A l \in 1..k : S[l] = T[l]
  OBVIOUS
<1>3. C \in Seq(LineType) /\ Len(C) = Len(T) - k /\ \A l \in 1..Len(T) - k : C[l] = T[l + k]
  OBVIOUS
<1>4. E = A \o C
  OBVIOUS
<1> HIDE DEF S, C
<1>5. A \in Seq(LineType) /\ Len(A) = k + 1
      /\ \A l \in 1..k + 1 : A[l] = IF l <= k THEN T[l] ELSE Line(n, s)
  BY <1>1, <1>2
<1> HIDE DEF A
<1>6. \A l \in 1..Len(A \o C) : l <= 2 => (A \o C)[l].size \in Nat
  BY <1>4
<1>7. IsTable(A \o C)
  BY <1>1, <1>3, <1>5, <1>6, JoinIsTable
<1>8. QED
  BY <1>4, <1>7

\* So does a line whose size is changed.
LEMMA SetIsTable ==
  ASSUME NEW T \in Seq(LineType), IsTable(T), NEW k \in 1..Len(T),
         NEW s \in Sizes \cup {Grow, Unlimited}, PartitionAssumption,
         NEW E, E = [T EXCEPT ![k] = Line(T[k].name, s)],
         \A l \in 1..Len(E) : l <= 2 => E[l].size \in Nat
  PROVE  IsTable(E)
<1>1. T[k].name \in Names \cup {Hidden}
  <2>1. T[k] \in LineType
    OBVIOUS
  <2>2. QED
    BY <2>1 DEF LineType
<1>2. Line(T[k].name, s) \in LineType /\ Line(T[k].name, s).name = T[k].name
  BY <1>1 DEF Line, LineType, PartitionAssumption
<1>3. E \in Seq(LineType) /\ Len(E) = Len(T)
  BY <1>2
<1>4. \A l \in 1..Len(E) : E[l].name = T[l].name
  BY <1>2, <1>3
<1>5. QED
  BY <1>3, <1>4 DEF IsTable

-----------------------------------------------------------------------------
\* While the CMDLINE is printed, OFFSET is where the partition printed last ends,
\* and something is printed as soon as the first partition was read.
LoopInv ==
  /\ out \in Seq(PartType) /\ ContiguousSeq(out)
  /\ out # <<>> => out[1].size # Grow
  /\ pc = "loop" =>
       /\ i >= 1 /\ (out = <<>> <=> i <= 2)
       /\ out # <<>> => /\ out[Len(out)].size \in Nat
                        /\ off = out[Len(out)].off + out[Len(out)].size
ParamInv == param \in Seq(PartType) /\ param # <<>> /\ param[1].size # Grow /\ ContiguousSeq(param)
RestInv == pc \in {"start", "idle", "loop", "save", "saved"} /\ i \in Nat /\ off \in Nat
Inv == LoopInv /\ ParamInv /\ IsTable(table) /\ RestInv

\* A partition appended where the last one ends keeps a CMDLINE contiguous.
LEMMA AppendContiguous ==
  ASSUME NEW S \in Seq(PartType), ContiguousSeq(S), NEW e \in PartType,
         S # <<>> => S[Len(S)].size # Grow /\ e.off = S[Len(S)].off + S[Len(S)].size
  PROVE  ContiguousSeq(Append(S, e)) /\ Append(S, e) \in Seq(PartType)
BY DEF ContiguousSeq

\* The inductive invariant: the table begins with its hidden line, CMDLINE can be
\* parsed and is contiguous, and so is what has been printed so far.
THEOREM InvHolds == Spec => []Inv
<1> USE PartitionAssumption DEF PartitionAssumption
<1>1. Init => Inv
  <2> SUFFICES ASSUME Init PROVE Inv
    OBVIOUS
  <2>1. PICK n \in Names, m \in Names, s \in Sizes, o \in Sizes :
          param = <<Part(n, s, o), Part(m, Grow, o + s)>>
    BY DEF Init
  <2>2. Part(n, s, o) \in PartType /\ Part(m, Grow, o + s) \in PartType
    BY DEF Part, PartType
  <2>3. ParamInv
    BY <2>1, <2>2 DEF ParamInv, ContiguousSeq, Part
  <2>4. IsTable(table)
    BY <2>3, ParseIsTable DEF Init, ParamInv
  <2>5. LoopInv /\ RestInv
    BY DEF Init, LoopInv, RestInv, ContiguousSeq
  <2>6. QED
    BY <2>3, <2>4, <2>5 DEF Inv
<1>2. Inv /\ [Next]_vars => Inv'
  <2> SUFFICES ASSUME Inv, [Next]_vars PROVE Inv'
    OBVIOUS
  <2> USE DEF Inv
  <2>1. CASE rk_partition_init
    <3>1. IsTable(table')
      BY <2>1, ParseIsTable DEF rk_partition_init, ParamInv
    <3>2. LoopInv' /\ ParamInv' /\ RestInv'
      BY <2>1 DEF rk_partition_init, LoopInv, ParamInv, RestInv
    <3>3. QED
      BY <3>1, <3>2
  <2>2. CASE rk_partition_edit
    <3>1. IsTable(edited')
      <4>1. table \in Seq(LineType)
        BY DEF IsTable
      <4>2. Changed
        BY <2>2 DEF rk_partition_edit
      <4>3. QED
        BY <4>1, <4>2, SetIsTable, CutIsTable, AddIsTable DEF Changed
    <3>2. IsTable(table')
      BY <2>2, <3>1 DEF rk_partition_edit
    <3>3. LoopInv' /\ ParamInv' /\ RestInv'
      BY <2>2 DEF rk_partition_edit, LoopInv, ParamInv, RestInv, ContiguousSeq
    <3>4. QED
      BY <3>2, <3>3
  <2>3. CASE CmdlineSize
    <3> USE <2>3 DEF CmdlineSize
    <3>1. table[i].size \in Nat /\ i \in 1..Len(table) /\ table[i] \in LineType
      <4>1. i \in 1..Len(table) /\ table[i] \in LineType
        BY DEF IsTable, LoopInv, RestInv
      <4>2. QED
        BY <4>1 DEF LineType
    <3>2. CASE i = 1
      <4>1. out' = out /\ out = <<>>
        BY <3>2 DEF Visible, IsTable, LoopInv
      <4>2. QED
        BY <3>1, <3>2, <4>1 DEF LoopInv, ParamInv, RestInv
    <3>3. CASE i > 1
      <4> DEFINE e == Part(table[i].name, table[i].size, off)
      <4>1. table[i].name \in Names /\ table[i].name # Hidden
        BY <3>1, <3>3 DEF IsTable
      <4>2. e \in PartType /\ e.size = table[i].size /\ e.off = off
        BY <3>1, <4>1 DEF Part, PartType, RestInv
      <4>3. out' = Append(out, e)
        BY <4>1 DEF Visible
      <4>4. out \in Seq(PartType) /\ ContiguousSeq(out)
        BY DEF LoopInv
      <4>5. out # <<>> => out[Len(out)].size # Grow /\ e.off = out[Len(out)].off + out[Len(out)].size
        BY <4>2 DEF LoopInv
      <4>6. ContiguousSeq(out') /\ out' \in Seq(PartType)
        BY <4>2, <4>3, <4>4, <4>5, AppendContiguous
      <4>7. out' # <<>> /\ out'[Len(out')] = e /\ Len(out') = Len(out) + 1
            /\ out'[1] = (IF out = <<>> THEN e ELSE out[1])
        BY <4>3, <4>4
      <4>8. LoopInv'
        BY <3>1, <3>3, <4>2, <4>6, <4>7 DEF LoopInv, RestInv
      <4>9. QED
        BY <3>1, <4>8 DEF ParamInv, RestInv
    <3>4. QED
      BY <3>1, <3>2, <3>3
  <2>4. CASE CmdlineGrow
    <3> USE <2>4 DEF CmdlineGrow
    <3> DEFINE e == Part(table[i].name, Grow, off)
    <3>1. i \in 1..Len(table) /\ i > 2
      BY DEF IsTable, LoopInv, RestInv
    <3>2. e \in PartType /\ e.off = off
      BY <3>1 DEF Part, PartType, IsTable, RestInv
    <3>3. out \in Seq(PartType) /\ out # <<>> /\ ContiguousSeq(out)
      BY <3>1 DEF LoopInv
    <3>4. out[Len(out)].size # Grow /\ e.off = out[Len(out)].off + out[Len(out)].size
      BY <3>2, <3>3 DEF LoopInv
    <3>5. ContiguousSeq(out') /\ out' \in Seq(PartType)
      BY <3>2, <3>3, <3>4, AppendContiguous
    <3>6. out'[1] = out[1]
      BY <3>3
    <3>7. LoopInv' /\ ParamInv' /\ RestInv'
      BY <3>3, <3>5, <3>6 DEF LoopInv, ParamInv, RestInv
    <3>8. QED
      BY <3>7
  <2>5. CASE CmdlineUnlimited \/ CmdlineEnd \/ Exit
    <3>1. CASE CmdlineUnlimited \/ CmdlineEnd
      BY <3>1 DEF CmdlineUnlimited, CmdlineEnd, LoopInv, ParamInv, RestInv
    <3>2. CASE Exit
      BY <3>2 DEF Exit, LoopInv, ParamInv, RestInv, ContiguousSeq
    <3>3. QED
      BY <2>5, <3>1, <3>2
  <2>6. CASE rk_partition_save
    <3>1. CASE out = <<>>
      BY <2>6, <3>1 DEF rk_partition_save, LoopInv, ParamInv, RestInv
    <3>2. CASE out # <<>>
      <4>1. IsTable(Parse(out))
        BY <3>2, ParseIsTable DEF LoopInv
      <4>2. IsTable(table') /\ ParamInv'
        BY <2>6, <3>2, <4>1 DEF rk_partition_save, Reflushed, LoopInv, ParamInv
      <4>3. LoopInv' /\ RestInv'
        BY <2>6, <3>2 DEF rk_partition_save, LoopInv, RestInv
      <4>4. QED
        BY <4>2, <4>3
    <3>3. QED
      BY <3>1, <3>2
  <2>7. CASE UNCHANGED vars
    BY <2>7 DEF vars, LoopInv, ParamInv, RestInv
  <2>8. QED
    BY <2>1, <2>2, <2>3, <2>4, <2>5, <2>6, <2>7 DEF Next
<1>3. QED
  BY <1>1, <1>2, PTL DEF Spec

\* Every variable keeps its type: no CMDLINE names the hidden line.
THEOREM TypeCorrect == Spec => []TypeOK
<1>1. Inv => TypeOK
  BY DEF Inv, LoopInv, ParamInv, RestInv, IsTable, TypeOK, PartType, LineType
<1>2. QED
  BY <1>1, InvHolds, PTL

\* "Assuming partitions are contiguous": whatever is edited and saved, what is
\* flashed has no gap, no overlap, and nothing behind a partition that grows.
THEOREM ContiguousThm == Spec => []Contiguous
<1>1. Inv => Contiguous
  BY DEF Inv, ParamInv, Contiguous
<1>2. QED
  BY <1>1, InvHolds, PTL

-----------------------------------------------------------------------------
\* What has been printed are the lines of the table, the hidden one left out, up
\* to line n.
Prints(n) ==
  /\ Len(out) = (IF n = 1 THEN 0 ELSE n - 2)
  /\ \A k \in 1..Len(out) : out[k].name = edited[k + 1].name /\ out[k].size = edited[k + 1].size
  /\ (n = 1 => off = 0) /\ (n = 2 => off = edited[1].size)
  /\ out # <<>> => out[1].off = edited[1].size
EditInv ==
  /\ pc = "loop" => table = edited /\ i \in 1..Len(table) + 1 /\ Prints(i)
  /\ pc = "save" => table = edited /\ (Faithful(edited) => Prints(Len(table) + 1))
  /\ EditIsSaved

\* One more line of a size or of the rest.
LEMMA PrintsMore ==
  ASSUME Inv, EditInv, pc = "loop", NEW CONSTANT n, n = i, i > 1, i =< Len(table), UNCHANGED <<table, edited>>,
         NEW s, s = table[i].size, out' = Append(out, Part(table[i].name, s, off))
  PROVE  Prints(n + 1)'
<1>1. /\ i \in Nat /\ table = edited /\ Prints(i) /\ out \in Seq(PartType) /\ Len(out) = i - 2
      /\ i \in 1..Len(table)
  BY DEF Inv, EditInv, RestInv, LoopInv, Prints
<1> DEFINE e == Part(table[i].name, s, off)
<1>2. e.name = edited[i].name /\ e.size = edited[i].size /\ e.off = off
  BY <1>1 DEF Part
<1> HIDE DEF e
<1>3. Len(out') = i - 1 /\ \A k \in 1..i - 1 : out'[k] = IF k = i - 1 THEN e ELSE out[k]
  BY <1>1 DEF e
<1>4. \A k \in 1..Len(out') : out'[k].name = edited[k + 1].name /\ out'[k].size = edited[k + 1].size
  <2> TAKE k \in 1..Len(out')
  <2>1. CASE k = i - 1
    <3>1. out'[k] = e /\ k + 1 = i
      BY <1>1, <1>3, <2>1
    <3>2. QED
      BY <1>2, <3>1
  <2>2. CASE k # i - 1
    <3>1. out'[k] = out[k] /\ k \in 1..Len(out)
      BY <1>1, <1>3, <2>2
    <3>2. QED
      BY <1>1, <3>1 DEF Prints
  <2>3. QED
    BY <2>1, <2>2
<1>5. out'[1].off = edited[1].size
  <2>1. CASE i = 2
    <3>1. out'[1] = e /\ off = edited[1].size
      BY <1>1, <1>3, <2>1 DEF Prints
    <3>2. QED
      BY <1>2, <3>1
  <2>2. CASE i > 2
    <3>1. out'[1] = out[1] /\ out # <<>>
      BY <1>1, <1>3, <2>2
    <3>2. QED
      BY <1>1, <3>1 DEF Prints
  <2>3. QED
    BY <1>1, <2>1, <2>2
<1>6. n + 1 # 1 /\ n + 1 # 2 /\ (n + 1) - 2 = i - 1 /\ edited' = edited
  BY <1>1
<1>7. QED
  BY <1>3, <1>4, <1>5, <1>6 DEF Prints

\* What is printed of a whole table is parsed back into it.
LEMMA ParsedBack ==
  ASSUME PartitionAssumption, IsTable(edited), out \in Seq(PartType), out # <<>>, Prints(Len(edited) + 1)
  PROVE  Parse(out) = edited
<1>1. Len(edited) \in Nat /\ Len(edited) >= 1 /\ edited \in Seq(LineType)
  BY DEF IsTable
<1>2. Len(out) = Len(edited) - 1
  BY <1>1 DEF Prints
<1>3. ASSUME NEW k \in 1..Len(edited) PROVE Parse(out)[k] = edited[k]
  <2>0. edited[k] = [name |-> edited[k].name, size |-> edited[k].size]
    <3>1. edited[k] \in LineType
      BY <1>1
    <3>2. QED
      BY <3>1 DEF LineType
  <2>1. CASE k = 1
    <3>1. Parse(out)[k] = Line(Hidden, out[1].off)
      BY <1>1, <1>2, <2>1 DEF Parse
    <3>2. edited[1].name = Hidden /\ out[1].off = edited[1].size
      BY DEF IsTable, Prints
    <3>3. QED
      BY <2>0, <2>1, <3>1, <3>2 DEF Line
  <2>2. CASE k # 1
    <3>1. k - 1 \in 1..Len(out) /\ (k - 1) + 1 = k
      BY <1>1, <1>2, <2>2
    <3>2. Parse(out)[k] = Line(out[k - 1].name, out[k - 1].size)
      BY <1>1, <1>2, <2>2 DEF Parse
    <3>3. out[k - 1].name = edited[k].name /\ out[k - 1].size = edited[k].size
      BY <3>1 DEF Prints
    <3>4. QED
      BY <2>0, <3>2, <3>3 DEF Line
  <2>3. QED
    BY <2>1, <2>2
<1>4. Len(Parse(out)) = Len(edited) /\ Parse(out) \in Seq(LineType)
  <2>1. out[1].size # Grow
    <3>1. 1 \in 1..Len(out) /\ 2 \in 1..Len(edited) /\ Len(out) \in Nat
      BY <1>1, <1>2
    <3>2. out[1].size = edited[2].size
      BY <3>1 DEF Prints
    <3>3. QED
      BY <3>1, <3>2 DEF IsTable, PartitionAssumption
  <2>2. QED
    BY <1>1, <1>2, <2>1, ParseIsTable DEF IsTable
<1>5. QED
  BY <1>1, <1>3, <1>4

\* An edit that gives sizes, or lets the last partition grow, comes back from the
\* parameter file as it was written, for tables of any length.
THEOREM EditIsSavedThm == Spec => []EditIsSaved
<1> USE PartitionAssumption DEF PartitionAssumption
<1>1. Init => EditInv
  BY DEF Init, EditInv, EditIsSaved
<1>2. Inv /\ Inv' /\ EditInv /\ [Next]_vars => EditInv'
  <2> SUFFICES ASSUME Inv, Inv', EditInv, [Next]_vars PROVE EditInv'
    OBVIOUS
  <2>1. CASE rk_partition_init \/ Exit
    BY <2>1 DEF rk_partition_init, Exit, EditInv, EditIsSaved
  <2>2. CASE rk_partition_edit
    <3>1. table' = edited' /\ pc' = "loop" /\ i' = 1 /\ off' = 0 /\ out' = <<>>
      BY <2>2 DEF rk_partition_edit, Inv, IsTable
    <3>2. Prints(1)' /\ i' \in 1..Len(table') + 1
      <4>1. Len(table') \in Nat /\ Len(table') >= 1
        BY DEF Inv, IsTable
      <4>2. QED
        BY <3>1, <4>1 DEF Prints
    <3>3. Prints(i)'
      BY <3>1, <3>2 DEF Prints
    <3>4. QED
      BY <3>1, <3>2, <3>3 DEF EditInv, EditIsSaved
  <2>3. CASE CmdlineSize
    <3>1. i \in 1..Len(table) /\ table = edited /\ Prints(i) /\ UNCHANGED <<table, edited, pc>>
          /\ i' = i + 1 /\ pc = "loop" /\ Len(table) \in Nat
      BY <2>3 DEF CmdlineSize, EditInv, Inv, RestInv, IsTable
    <3>0. PICK n \in Nat : n = i
      BY <3>1
    <3>2. Prints(n + 1)'
      <4>1. CASE i = 1
        <5>1. out' = out /\ out = <<>> /\ off' = off + table[1].size
          BY <2>3, <4>1 DEF CmdlineSize, Visible, Inv, IsTable, LoopInv
        <5>2. off = 0 /\ table[1].size \in Nat /\ table[1] = edited[1]
          BY <3>1, <4>1 DEF Prints, Inv, IsTable
        <5>3. Len(out') = 0 /\ n + 1 = 2 /\ edited' = edited /\ off' = edited[1].size
          BY <3>0, <3>1, <4>1, <5>1, <5>2
        <5>4. QED
          BY <5>1, <5>3 DEF Prints
      <4>2. CASE i > 1
        <5>1. out' = Append(out, Part(table[i].name, table[i].size, off))
          BY <2>3, <3>1, <4>2 DEF CmdlineSize, Visible, Inv, IsTable
        <5>2. QED
          BY <3>0, <3>1, <4>2, <5>1, PrintsMore
      <4>3. QED
        BY <3>1, <4>1, <4>2
    <3>3. Prints(i)'
      BY <3>0, <3>1, <3>2 DEF Prints
    <3>4. i' \in 1..Len(table') + 1
      BY <3>1
    <3>5. QED
      BY <3>1, <3>3, <3>4 DEF EditInv, EditIsSaved
  <2>4. CASE CmdlineGrow
    <3>1. i \in 1..Len(table) /\ table = edited /\ UNCHANGED <<table, edited>> /\ Len(table) \in Nat
          /\ pc = "loop" /\ pc' = "save" /\ table[i].size = Grow
      BY <2>4 DEF CmdlineGrow, EditInv, Inv, RestInv, IsTable
    <3>2. i > 1
      BY <3>1 DEF Inv, IsTable
    <3>3. ASSUME Faithful(edited) PROVE Prints(Len(table) + 1)'
      <4>1. i = Len(table)
        BY <3>1, <3>3 DEF Faithful
      <4>2. PICK n \in Nat : n = i
        BY <3>1
      <4>3. out' = Append(out, Part(table[i].name, table[i].size, off))
        BY <2>4, <3>1 DEF CmdlineGrow
      <4>4. Prints(n + 1)'
        BY <3>1, <3>2, <4>2, <4>3, PrintsMore
      <4>5. n + 1 = Len(table') + 1
        BY <3>1, <4>1, <4>2
      <4>6. QED
        BY <4>4, <4>5 DEF Prints
    <3>4. QED
      BY <3>1, <3>3 DEF EditInv, EditIsSaved, Faithful
  <2>5. CASE CmdlineUnlimited
    <3>1. i \in 1..Len(table) /\ table = edited /\ UNCHANGED <<table, edited>>
          /\ pc' = "save" /\ table[i].size = Unlimited
      BY <2>5 DEF CmdlineUnlimited, EditInv, Inv, RestInv, IsTable
    <3>2. ~Faithful(edited)
      BY <3>1 DEF Faithful
    <3>3. QED
      BY <3>1, <3>2 DEF EditInv, EditIsSaved, Faithful
  <2>6. CASE CmdlineEnd
    <3>1. i = Len(table) + 1 /\ table = edited /\ Prints(i) /\ UNCHANGED <<table, edited, off, out>> /\ pc' = "save"
      BY <2>6 DEF CmdlineEnd, EditInv, Inv, RestInv, IsTable
    <3>2. Prints(Len(table) + 1)'
      BY <3>1 DEF Prints
    <3>3. QED
      BY <3>1, <3>2 DEF EditInv, EditIsSaved
  <2>7. CASE rk_partition_save
    <3>1. CASE out = <<>>
      BY <2>7, <3>1 DEF rk_partition_save, EditInv, EditIsSaved
    <3>2. CASE out # <<>>
      <4>1. pc' = "saved" /\ table' = Parse(out) /\ edited' = edited /\ table = edited
        BY <2>7, <3>2 DEF rk_partition_save, Reflushed, EditInv
      <4>2. ASSUME Faithful(edited) PROVE table' = edited'
        <5>1. Prints(Len(edited) + 1) /\ IsTable(edited) /\ out \in Seq(PartType)
          BY <2>7, <4>1, <4>2 DEF rk_partition_save, EditInv, Inv, LoopInv
        <5>2. QED
          BY <3>2, <4>1, <5>1, ParsedBack
      <4>3. Faithful(edited)' => Faithful(edited)
        BY <4>1 DEF Faithful
      <4>4. QED
        BY <4>1, <4>2, <4>3 DEF EditInv, EditIsSaved
    <3>3. QED
      BY <3>1, <3>2
  <2>8. CASE UNCHANGED vars
    BY <2>8 DEF vars, EditInv, EditIsSaved, Prints, Faithful
  <2>9. QED
    BY <2>1, <2>2, <2>3, <2>4, <2>5, <2>6, <2>7, <2>8 DEF Next
<1>3. QED
  BY <1>1, <1>2, InvHolds, PTL DEF Spec, EditInv
-----------------------------------------------------------------------------
\* Every set of natural numbers that is not empty has a least element: what
\* induction is made of here.
LEMMA LeastOf ==
  ASSUME NEW T \in SUBSET Nat, T # {}
  PROVE  \E x \in T : \A y \in T : x <= y
<1> DEFINE R == {ss \in Nat \X Nat : ss[1] < ss[2]}
<1>1. R = OpToRel(<, Nat)
  BY DEF OpToRel
<1>2. IsWellFoundedOn(R, Nat)
  BY <1>1, NatLessThanWellFounded
<1>3. PICK x \in T : \A y \in T : ~(<<y, x>> \in R)
  <2> HIDE DEF R
  <2>1. QED
    BY <1>2, WFMin
<1>4. \A y \in T : ~(y < x)
  BY <1>3
<1>5. QED
  BY <1>4

\* The function Before sums the sizes with, and what its definition says of it.
SumOf(T, k) == CHOOSE f : f = [j \in 0..k |-> IF j = 0 THEN 0 ELSE f[j - 1] + T[j].size]

\* Before is the last value of that function.
LEMMA BeforeIsSum ==
  ASSUME NEW T, NEW k
  PROVE  Before(T, k) = SumOf(T, k)[k - 1]
BY DEF Before, SumOf

\* In a contiguous CMDLINE the sizes before a partition sum up to its offset.
LEMMA SumIsOffset ==
  ASSUME NEW P \in Seq(PartType), ContiguousSeq(P), NEW k \in 1..Len(P)
  PROVE  Before(Parse(P), k + 1) = P[k].off
<1> DEFINE T == Parse(P)
           g == [j \in 0..k + 1 |-> IF j = 0 THEN 0
                                    ELSE IF j <= k THEN P[j].off ELSE P[k].off + T[k + 1].size]
           f == SumOf(T, k + 1)
           Bad == {j \in 1..k : f[j] # P[j].off}
<1>1. /\ Len(P) \in Nat /\ k \in Nat /\ k >= 1
      /\ \A j \in 1..Len(P) : P[j].off \in Nat /\ P[j].size \in Nat \cup {Grow}
  <2>1. \A j \in 1..Len(P) : P[j] \in PartType
    OBVIOUS
  <2>2. QED
    BY <2>1 DEF PartType
<1>2. T[1].size = P[1].off /\ \A j \in 2..k + 1 : T[j].size = P[j - 1].size
  BY <1>1 DEF Parse, Line
<1>3. \A j \in 2..k : P[j].off = P[j - 1].off + T[j].size
  <2> TAKE j \in 2..k
  <2>1. j - 1 \in 1..Len(P) - 1 /\ (j - 1) + 1 = j
    BY <1>1
  <2>2. QED
    BY <1>2, <2>1 DEF ContiguousSeq
<1> HIDE DEF T
<1>4. g = [j \in 0..k + 1 |-> IF j = 0 THEN 0 ELSE g[j - 1] + T[j].size]
  <2>1. ASSUME NEW j \in 0..k + 1
        PROVE  g[j] = IF j = 0 THEN 0 ELSE g[j - 1] + T[j].size
    <3>1. CASE j = 0
      BY <3>1
    <3>2. CASE j = 1
      <4>1. g[0] = 0 /\ g[1] = P[1].off
        BY <1>1
      <4>2. QED
        BY <1>1, <1>2, <3>2, <4>1
    <3>3. CASE j \in 2..k
      <4>1. g[j] = P[j].off /\ g[j - 1] = P[j - 1].off
        BY <1>1, <3>3
      <4>2. QED
        BY <1>3, <3>3, <4>1
    <3>4. CASE j = k + 1
      <4>1. g[j] = P[k].off + T[k + 1].size /\ g[j - 1] = P[k].off
        BY <1>1, <3>4
      <4>2. QED
        BY <1>1, <3>4, <4>1
    <3>5. QED
      BY <1>1, <3>1, <3>2, <3>3, <3>4
  <2>2. QED
    BY <2>1
<1> HIDE DEF g
<1>5. f = [j \in 0..k + 1 |-> IF j = 0 THEN 0 ELSE f[j - 1] + T[j].size]
  BY <1>4 DEF SumOf
<1> HIDE DEF f
<1>6. f[1] = P[1].off /\ \A j \in 2..k : f[j] = f[j - 1] + T[j].size
  <2>1. f[0] = 0
    BY <1>1, <1>5
  <2>2. f[1] = f[0] + T[1].size
    BY <1>1, <1>5
  <2>3. \A j \in 2..k : f[j] = f[j - 1] + T[j].size
    BY <1>1, <1>5
  <2>4. QED
    BY <1>1, <1>2, <2>1, <2>2, <2>3
<1>7. Bad = {}
  <2>1. SUFFICES ASSUME Bad # {} PROVE FALSE
    OBVIOUS
  <2>2. PICK j \in Bad : \A l \in Bad : j <= l
    <3>1. Bad \in SUBSET Nat
      BY <1>1
    <3> HIDE DEF Bad
    <3>2. QED
      BY <2>1, <3>1, LeastOf
  <2>3. j \in 2..k
    BY <1>1, <1>6, <2>2
  <2>4. j - 1 \in 1..k /\ j - 1 \notin Bad
    BY <1>1, <2>2, <2>3
  <2>5. f[j] = P[j].off
    BY <1>3, <1>6, <2>3, <2>4
  <2>6. QED
    BY <2>2, <2>5
<1>8. f[k] = P[k].off
  BY <1>1, <1>7
<1>9. QED
  BY <1>1, <1>8, BeforeIsSum DEF f, T

\* The first line of a table with the name of a partition is the one after it.
LEMMA StartIsOffset ==
  ASSUME PartitionAssumption, NEW P \in Seq(PartType), ContiguousSeq(P), NEW k \in 1..Len(P),
         \A l \in 1..k - 1 : P[l].name # P[k].name
  PROVE  StartOf(Parse(P), P[k].name) = P[k].off
<1> DEFINE T == Parse(P)
           First(j) == T[j].name = P[k].name /\ \A l \in 1..j - 1 : T[l].name # P[k].name
<1>1. /\ Len(P) \in Nat /\ k \in Nat /\ k >= 1 /\ Len(T) = Len(P) + 1
      /\ P[k].name # Hidden
  <2>1. P[k] \in PartType
    OBVIOUS
  <2>2. QED
    BY <2>1 DEF PartType, PartitionAssumption, Parse
<1>2. T[1].name = Hidden /\ \A j \in 2..Len(T) : T[j].name = P[j - 1].name
  BY <1>1 DEF Parse, Line
<1> HIDE DEF T
<1>3. k + 1 \in 1..Len(T) /\ First(k + 1)
  <2>1. T[k + 1].name = P[k].name
    BY <1>1, <1>2
  <2>2. \A l \in 1..k : T[l].name # P[k].name
    <3> TAKE l \in 1..k
    <3>1. CASE l = 1
      BY <1>1, <1>2, <3>1
    <3>2. CASE l # 1
      <4>1. T[l].name = P[l - 1].name /\ l - 1 \in 1..k - 1
        BY <1>1, <1>2, <3>2
      <4>2. QED
        BY <4>1
    <3>3. QED
      BY <3>1, <3>2
  <2>3. QED
    BY <1>1, <2>1, <2>2
<1>4. ASSUME NEW j \in 1..Len(T), First(j) PROVE j = k + 1
  <2>1. ~(k + 1 \in 1..j - 1) /\ ~(j \in 1..(k + 1) - 1)
    BY <1>3, <1>4
  <2>2. QED
    BY <1>1, <2>1
<1>5. (CHOOSE j \in 1..Len(T) : First(j)) = k + 1
  <2> HIDE DEF First
  <2>1. QED
    BY <1>3, <1>4
<1>6. StartOf(T, P[k].name) = Before(T, k + 1)
  BY <1>5 DEF StartOf
<1>7. QED
  BY <1>6, SumIsOffset DEF T

\* After an edit was saved, the build looks every partition up at the offset it is
\* flashed to, and misses none: for tables of any length.
THEOREM LookupsAgreeThm == Spec => []LookupsAgree
<1> DEFINE Parsed == pc = "saved" => table = Parse(param)
<1>1. Init => Parsed
  BY DEF Init
<1>2. Parsed /\ [Next]_vars => Parsed'
  BY DEF Next, vars, rk_partition_init, rk_partition_edit, rk_partition_save, Exit, CmdlineSize,
     CmdlineGrow, CmdlineUnlimited, CmdlineEnd, Reflushed
<1>3. Inv /\ Parsed => LookupsAgree
  <2> SUFFICES ASSUME ParamInv, table = Parse(param) PROVE LookupsAgree
    BY DEF Inv, LookupsAgree
  <2>1. PartNames(table) = PartNames(param) \cup {Hidden}
    <3>1. /\ Len(param) \in Nat /\ Len(table) = Len(param) + 1 /\ table[1].name = Hidden
          /\ \A j \in 2..Len(table) : table[j].name = param[j - 1].name
      BY DEF ParamInv, Parse, Line
    <3>2. \A k \in 1..Len(param) : k + 1 \in 2..Len(table) /\ table[k + 1].name = param[k].name
      BY <3>1
    <3>3. \A j \in 2..Len(table) : j - 1 \in 1..Len(param)
      BY <3>1
    <3>4. ASSUME NEW n \in PartNames(table) PROVE n \in PartNames(param) \cup {Hidden}
      <4>1. PICK j \in 1..Len(table) : n = table[j].name
        BY DEF PartNames
      <4>2. QED
        BY <3>1, <3>3, <4>1 DEF PartNames
    <3>5. ASSUME NEW n \in PartNames(param) \cup {Hidden} PROVE n \in PartNames(table)
      <4>1. CASE n = Hidden
        BY <3>1, <4>1 DEF PartNames
      <4>2. CASE n \in PartNames(param)
        <5>1. PICK k \in 1..Len(param) : n = param[k].name
          BY <4>2 DEF PartNames
        <5>2. k + 1 \in 1..Len(table) /\ n = table[k + 1].name
          BY <3>1, <3>2, <5>1
        <5>3. QED
          BY <5>2 DEF PartNames
      <4>3. QED
        BY <4>1, <4>2
    <3>6. QED
      BY <3>4, <3>5
  <2>2. QED
    BY <2>1, StartIsOffset, PartitionAssumption DEF LookupsAgree, ParamInv
<1>4. QED
  BY <1>1, <1>2, <1>3, InvHolds, PTL DEF Spec
=============================================================================
