---------------------------- MODULE Utilization -----------------------------
(***************************************************************************)
(* parse_meminfo of src/src/metrics/memory.rs, line by line, and           *)
(* calculate_disk_metrics of src/src/metrics/disk.rs: the measurements     *)
(* that are calculated from several numbers of one source.  The lines of   *)
(* the file, their order and their numbers are the environment's.          *)
(***************************************************************************)
EXTENDS Measures

CONSTANT Numbers  \* bound: the numbers a source may hold

ASSUME NumbersAssumption == Numbers \subseteq 0..MaxU64

VARIABLES
  values,    \* the map of parse_relevant_values, Absent for a key not in it
  geometry,  \* the numbers of statvfs
  outcome,   \* "reading", "ok", or why the source is refused
  memory, swap, disk  \* the amounts found

utilizationVars == <<values, geometry, outcome, memory, swap, disk>>

Geometries == [fragment: Numbers, blocks: Numbers, free: Numbers, available: Numbers]
NoGeometry == [fragment |-> 0, blocks |-> 0, free |-> 0, available |-> 0]

UtilizationInit ==
  /\ values = [key \in Keys |-> Absent]
  /\ geometry = NoGeometry
  /\ outcome = "reading"
  /\ memory = Nothing /\ swap = Nothing /\ disk = Nothing

-----------------------------------------------------------------------------
\* One line of parse_relevant_values with a key that counts: a second line with
\* the key, or a value that is no number of kB, ends the reading.
ReadLine(key, number) ==
  /\ outcome = "reading"
  /\ IF values[key] # Absent
     THEN outcome' = "duplicate" /\ UNCHANGED values
     ELSE IF number = Absent
     THEN outcome' = "malformed" /\ UNCHANGED values
     ELSE values' = [values EXCEPT ![key] = number] /\ UNCHANGED outcome
  /\ UNCHANGED <<geometry, memory, swap, disk>>

\* The rest of parse_meminfo.
EndOfFile ==
  /\ outcome = "reading"
  /\ outcome' = MeminfoOutcome(values)
  /\ IF outcome' = "ok"
     THEN memory' = MemoryAmount(values) /\ swap' = SwapAmount(values)
     ELSE UNCHANGED <<memory, swap>>
  /\ UNCHANGED <<values, geometry, disk>>

\* calculate_disk_metrics, instead of a meminfo file.
StatFilesystem(g) ==
  /\ outcome = "reading" /\ \A key \in Keys : values[key] = Absent
  /\ geometry' = g
  /\ outcome' = DiskOutcome(g.fragment, g.blocks, g.free, g.available)
  /\ IF outcome' = "ok"
     THEN disk' = DiskAmount(g.fragment, g.blocks, g.free, g.available)
     ELSE UNCHANGED disk
  /\ UNCHANGED <<values, memory, swap>>

UtilizationNext ==
  \/ \E key \in Keys, number \in Numbers \cup {Absent} : ReadLine(key, number)
  \/ EndOfFile
  \/ \E g \in Geometries : StatFilesystem(g)

UtilizationSpec == UtilizationInit /\ [][UtilizationNext]_utilizationVars

-----------------------------------------------------------------------------
\* Used and rest make up the total, nothing wrapped around, and the share that
\* is used is between 0 and 100 percent.
Sound(amount) ==
  /\ amount.total \in 0..MaxU64 /\ amount.rest \in 0..MaxU64
  /\ amount.used + amount.rest = amount.total
  /\ 0 <= amount.used /\ amount.used <= amount.whole /\ amount.whole <= MaxU64

\* An amount behind the numbers of the source that u64 cannot hold, in
\* arithmetic without a width.
SomethingTooLarge ==
  \/ KIB * values["MemTotal"] > MaxU64
  \/ KIB * values["SwapTotal"] > MaxU64
  \/ FallbackSum(values) > MaxU64
  \/ geometry.fragment * geometry.blocks > MaxU64
  \/ geometry.fragment * geometry.free > MaxU64
  \/ geometry.fragment * geometry.available > MaxU64
  \/ geometry.fragment * (geometry.blocks + geometry.available) > MaxU64

\* Whatever numbers the kernel reports, a published amount is sound; a source
\* is called too large only if one of its amounts is, and inconsistent only for
\* a filesystem with more free blocks than blocks: the clamps of parse_meminfo
\* leave its checked subtractions nothing to refuse.
UtilizationExact ==
  /\ Sound(memory) /\ Sound(swap) /\ Sound(disk)
  /\ outcome = "overflow" => SomethingTooLarge
  /\ outcome = "inconsistent" => geometry.free > geometry.blocks
=============================================================================
