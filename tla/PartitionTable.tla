---------------------------- MODULE PartitionTable ----------------------------
(***************************************************************************)
(* The partition table of the SDK (partition-helper): the CMDLINE of the   *)
(* parameter file that is flashed, the table the build scripts look sizes  *)
(* and offsets up in, and the command edit-parts, that lets the user edit  *)
(* the table and writes it back.                                           *)
(*                                                                         *)
(* Sizes and offsets are in sectors.  The size a user writes is Grow ("-"),*)
(* Unlimited ("0", "grow", "auto-resized", or nothing, as on a blank line) *)
(* or a size in any unit, given by the sectors it stands for.              *)
(***************************************************************************)
EXTENDS Naturals, Sequences

CONSTANTS
  Names,      \* partition names
  Hidden,     \* HDR_PART, the name of what lies before the first partition
  Sizes,      \* sizes in sectors that are written
  Grow,       \* the rest of the storage
  Unlimited,  \* the texts that rk_partition_size_readable_to_sector takes for "-"
  MaxLines    \* bound: lines of a table

ASSUME PartitionAssumption ==
  /\ Hidden \notin Names /\ Names # {}
  /\ Sizes \subseteq Nat /\ Sizes # {}
  /\ Grow \notin Nat /\ Unlimited \notin Nat /\ Grow # Unlimited
  /\ MaxLines \in Nat

VARIABLES
  param,      \* CMDLINE of the parameter file: partitions with size and offset
  table,      \* $PART_TABLE: lines with name and size
  edited,     \* the table as the editor left it
  pc,         \* "start", "idle", "loop" (rk_partition_to_cmdline), "save" or "saved"
  i, off, out \* its line, its OFFSET, and what it has printed

vars == <<param, table, edited, pc, i, off, out>>

Line(n, s) == [name |-> n, size |-> s]
Part(n, s, o) == [name |-> n, size |-> s, off |-> o]

\* rk_partition_parse: the offsets are dropped, but for the first
Parse(P) ==
  [k \in 1..Len(P) + 1 |-> IF k = 1 THEN Line(Hidden, P[1].off)
                                    ELSE Line(P[k - 1].name, P[k - 1].size)]

\* A parameter file as shipped: a boot loader, and a partition for the rest.
Init ==
  /\ \E n, m \in Names, s, o \in Sizes : param = <<Part(n, s, o), Part(m, Grow, o + s)>>
  /\ table = Parse(param) /\ edited = table
  /\ pc = "start" /\ i = 1 /\ off = 0 /\ out = <<>>

-----------------------------------------------------------------------------
\* build.sh (line 713) parses the parameter file when it starts.
rk_partition_init ==
  /\ pc = "start"
  /\ table' = Parse(param)
  /\ pc' = "idle"
  /\ UNCHANGED <<param, edited, i, off, out>>

\* The user changes, deletes or adds one line in the editor.  The hidden line
\* stays the first, and the first partition is of a given size: a CMDLINE that
\* begins with "-" cannot be parsed again.
Changed ==
  /\ \/ \E k \in 1..Len(table), s \in Sizes \cup {Grow, Unlimited} :
          edited' = [table EXCEPT ![k] = Line(table[k].name, s)]
     \/ \E k \in 2..Len(table) :
          edited' = SubSeq(table, 1, k - 1) \o SubSeq(table, k + 1, Len(table))
     \/ \E k \in 1..Len(table), n \in Names, s \in Sizes \cup {Grow, Unlimited} :
          edited' = SubSeq(table, 1, k) \o <<Line(n, s)>> \o SubSeq(table, k + 1, Len(table))
  /\ \A k \in 1..Len(edited') : k <= 2 => edited'[k].size \in Nat

\* rk_partition_edit, to the mv of the edited file
rk_partition_edit ==
  /\ pc = "idle"
  /\ Changed
  /\ Len(edited') <= MaxLines
  /\ table' = edited'
  /\ pc' = "loop" /\ i' = 1 /\ off' = 0 /\ out' = <<>>
  /\ UNCHANGED param

Visible_mut(n) == TRUE
Visible(n) == n # Hidden

\* A line with a size in sectors
CmdlineSize_mut ==                                    \* OFFSET not accumulated
  /\ pc = "loop" /\ i <= Len(table)
  /\ table[i].size \notin {Grow, Unlimited}
  /\ out' = IF Visible(table[i].name)
              THEN Append(out, Part(table[i].name, table[i].size, off)) ELSE out
  /\ off' = IF Visible(table[i].name) THEN table[i].size ELSE off
  /\ i' = i + 1
  /\ UNCHANGED <<param, table, edited, pc>>

CmdlineSize ==
  /\ pc = "loop" /\ i <= Len(table)
  /\ table[i].size \notin {Grow, Unlimited}
  /\ out' = IF Visible(table[i].name)
              THEN Append(out, Part(table[i].name, table[i].size, off)) ELSE out
  /\ off' = off + table[i].size
  /\ i' = i + 1
  /\ UNCHANGED <<param, table, edited, pc>>

\* "Latest grow part": print it, and break
CmdlineGrow ==
  /\ pc = "loop" /\ i <= Len(table)
  /\ table[i].size = Grow
  /\ out' = Append(out, Part(table[i].name, Grow, off))
  /\ pc' = "save"
  /\ UNCHANGED <<param, table, edited, i, off>>

\* The size becomes "-", which $(( ... )) refuses: the loop ends there, and the
\* pipeline it is in has the status of its sed.
CmdlineUnlimited ==
  /\ pc = "loop" /\ i <= Len(table)
  /\ table[i].size = Unlimited
  /\ pc' = "save"
  /\ UNCHANGED <<param, table, edited, i, off, out>>

CmdlineEnd ==
  /\ pc = "loop" /\ i > Len(table)
  /\ pc' = "save"
  /\ UNCHANGED <<param, table, edited, i, off, out>>

Reflushed_mut == table                                \* rk_partition_init forgotten
Reflushed == Parse(out)

\* rk_partition_save: nothing is saved when nothing was printed
rk_partition_save ==
  /\ pc = "save"
  /\ IF out = <<>> THEN pc' = "start" /\ UNCHANGED <<param, table>>
     ELSE pc' = "saved" /\ param' = out /\ table' = Reflushed
  /\ UNCHANGED <<edited, i, off, out>>

\* This command, or any that does not edit, ends; the next one is another run
\* of build.sh.
Exit ==
  /\ pc \in {"idle", "saved"}
  /\ pc' = "start" /\ i' = 1 /\ off' = 0 /\ out' = <<>>
  /\ UNCHANGED <<param, table, edited>>

Next ==
  \/ rk_partition_init \/ rk_partition_edit \/ rk_partition_save \/ Exit
  \/ CmdlineSize \/ CmdlineGrow \/ CmdlineUnlimited \/ CmdlineEnd

Spec == Init /\ [][Next]_vars

-----------------------------------------------------------------------------
(* What the build looks up *)

\* rk_partition_start: the sum of the sizes before the first line of that name
Before(T, k) == LET sum[j \in 0..k] == IF j = 0 THEN 0 ELSE sum[j - 1] + T[j].size IN sum[k - 1]
StartOf(T, n) ==
  LET k == CHOOSE j \in 1..Len(T) : T[j].name = n /\ \A l \in 1..j - 1 : T[l].name # n
  IN  Before(T, k)

PartNames(S) == {S[k].name : k \in 1..Len(S)}

TypeOK ==
  /\ param \in Seq([name : Names, size : Nat \cup {Grow}, off : Nat]) /\ param # <<>>
  /\ table \in Seq([name : Names \cup {Hidden}, size : Nat \cup {Grow, Unlimited}])
  /\ pc \in {"start", "idle", "loop", "save", "saved"}
  /\ i \in Nat /\ off \in Nat
  /\ out \in Seq([name : Names, size : Nat \cup {Grow}, off : Nat])

\* "Assuming partitions are contiguous": in what is flashed, each partition
\* begins where the one before ends, and only the last one grows.
ContiguousSeq(P) ==
  \A k \in 1..Len(P) - 1 : P[k].size # Grow /\ P[k + 1].off = P[k].off + P[k].size
Contiguous == ContiguousSeq(param)

\* After an edit was saved, the build looks every partition up at the offset it
\* is flashed to, and misses none.
LookupsAgree ==
  pc = "saved" =>
    /\ PartNames(table) = PartNames(param) \cup {Hidden}
    /\ \A k \in 1..Len(param) :
         (\A l \in 1..k - 1 : param[l].name # param[k].name)
           => StartOf(table, param[k].name) = param[k].off

\* An edit that gives sizes, or lets the last partition grow, comes back from
\* the parameter file as it was written.
Faithful(T) == \A k \in 1..Len(T) : T[k].size \in Nat \/ (k = Len(T) /\ T[k].size = Grow)
EditIsSaved == pc = "saved" /\ Faithful(edited) => table = edited

\* "Consider 0 as unlimited" (line 44): a partition whose size is written that
\* way is still one of the partitions.
UnlimitedIsKept ==
  pc = "saved" /\ (\A k \in 1..Len(edited) : edited[k].size = Unlimited => k = Len(edited))
               /\ (\A k \in 1..Len(edited) : edited[k].size = Grow => k = Len(edited))
    => PartNames(edited) \subseteq PartNames(param) \cup {Hidden}
=============================================================================
