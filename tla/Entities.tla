------------------------------ MODULE Entities ------------------------------
(***************************************************************************)
(* From a measurement to what Home Assistant shows: the sources of a       *)
(* board, collect_payload of src/src/daemon.rs with the document of        *)
(* Telemetry, the message on the state topic, and the value templates of   *)
(* Discovery, which Home Assistant evaluates on it.                        *)
(***************************************************************************)
EXTENDS Telemetry, Discovery, FiniteSets

CONSTANTS
  SourceValues,  \* bound: what each source may hold, a set for each source
  FirstBoard     \* the board the service starts on

\* What each source can hold, see Telemetry.
SourceTypes ==
  [usage       |-> Optional([busy: Int, total: Nat]),
   load        |-> [1..3 -> Optional(Int)],
   temperature |-> Optional(Int),
   frequency   |-> Seq(Optional(Int)),
   meminfo     |-> [Keys -> Nat \cup {Absent}],
   statvfs     |-> [fragment: Nat, blocks: Nat, free: Nat, available: Nat],
   uptime      |-> Optional(Int),
   throttled   |-> Optional(SUBSET Nat)]

Sources == DOMAIN SourceTypes

ASSUME BoardAssumption ==
  /\ DOMAIN SourceValues = Sources /\ FirstBoard = [source \in Sources |-> FirstBoard[source]]
  /\ \A source \in Sources :
       SourceValues[source] \subseteq SourceTypes[source] /\ FirstBoard[source] \in SourceValues[source]

VARIABLES
  board,    \* what the sources hold
  worker,   \* "running", or "failed": the error that ends the process
  message   \* the state being delivered, <<>> when there is none

entitiesVars == <<board, worker, message>>

EntitiesInit == board = FirstBoard /\ worker = "running" /\ message = <<>>

-----------------------------------------------------------------------------
\* The kernel and the firmware report something else.
SourceChanges(source, value) ==
  /\ worker = "running" /\ board[source] # value
  /\ board' = [board EXCEPT ![source] = value]
  /\ message' = <<>>
  /\ UNCHANGED worker

\* The clock: the time of an observation and how long it took, in milliseconds.
Clock == [observed_at |-> "now", duration_ms |-> 40]

\* collect_payload: the collection, its serialization, and what its error does.
CollectPayload ==
  LET state == TelemetryState(board, Clock.observed_at, Clock.duration_ms) IN
  /\ worker = "running" /\ message = <<>>
  /\ \/ /\ Serializable(state)
        /\ message' = <<Serialized(state)>>
        /\ UNCHANGED worker
     \/ /\ ~Serializable(state)
        /\ worker' = "failed"
        /\ UNCHANGED message
  /\ UNCHANGED board

EntitiesNext ==
  \/ \E source \in Sources : \E value \in SourceValues[source] :
       SourceChanges(source, value)
  \/ CollectPayload

EntitiesSpec == EntitiesInit /\ [][EntitiesNext]_entitiesVars

-----------------------------------------------------------------------------
(***************************************************************************)
(* Home Assistant.                                                         *)
(***************************************************************************)
\* value_json.<path>.
ValueJson(path) ==
  IF Len(path) = 1 THEN message[1][path[1]] ELSE message[1][path[1]][path[2]]

\* What a template yields; <<>> is none, which shows as unknown.
Render(template) ==
  LET v == ValueJson(template.path) IN
  CASE template.form \in {"plain", "or_none"} \/ v = Null -> v
    [] template.form = "scaled" /\ v # Null ->
         <<RoundedTo(Ratio(v[1], template.divisor), template.digits)>>
    [] template.form = "count" /\ v # Null -> <<Cardinality(v[1])>>
    [] OTHER -> <<IF v[1] THEN "ON" ELSE "OFF">>

Component(key) == CHOOSE c \in COMPONENT_DEFINITIONS : c.key = key
Shown(key) == Render(Component(key).template)

-----------------------------------------------------------------------------
(***************************************************************************)
(* What the entities should show, said of the board.                       *)
(***************************************************************************)
Known(known, n, d) == IF known THEN <<IF d = 0 THEN Ratio(0, 1) ELSE Ratio(n, d)>> ELSE Null

TrueUsage == IF board.usage = Null THEN Null
             ELSE Known(board.usage[1].total # 0, 100 * board.usage[1].busy, board.usage[1].total)

TrueLoad(i) == IF \A k \in 1..3 : NonNegative(board.load[k]) THEN Thousandths(board.load[i]) ELSE Null

TrueFrequency == IF board.frequency = <<>> THEN Null ELSE Thousandths(board.frequency[1])

\* Of memory and swap, in KiB.
TrueMemory(n, d) == Known(MeminfoOutcome(board.meminfo) = "ok", n, d)
MemTotal == board.meminfo["MemTotal"]
MemRest == Smaller(AvailableKib(board.meminfo), MemTotal)
SwapTotal == board.meminfo["SwapTotal"]
SwapUsed == SwapTotal - Smaller(board.meminfo["SwapFree"], SwapTotal)

\* Of the file system, in blocks; one of no bytes has no use.
TrueDisk(n, d) ==
  Known(DiskOutcome(board.statvfs.fragment, board.statvfs.blocks, board.statvfs.free,
                    board.statvfs.available) = "ok", n, d)
BlocksUsed == board.statvfs.blocks - board.statvfs.free
BlocksUsable == IF board.statvfs.fragment = 0 THEN 0 ELSE BlocksUsed + board.statvfs.available

\* The measurement behind each numeric entity, in its unit.
Measured(key, unit, value) == [key |-> key, unit |-> unit, value |-> value]

Truth ==
  {Measured(<<"cpu", "temperature">>, "degC", Thousandths(board.temperature)),
   Measured(<<"cpu", "usage">>, "%", TrueUsage),
   Measured(<<"load", "1">>, NoUnit, TrueLoad(1)),
   Measured(<<"load", "5">>, NoUnit, TrueLoad(2)),
   Measured(<<"load", "15">>, NoUnit, TrueLoad(3)),
   Measured(<<"cpu", "frequency">>, "MHz", TrueFrequency),
   Measured(<<"memory", "usage">>, "%", TrueMemory(100 * (MemTotal - MemRest), MemTotal)),
   Measured(<<"memory", "available">>, "GiB", TrueMemory(MemRest, KIB * KIB)),
   Measured(<<"swap", "usage">>, "%", TrueMemory(100 * SwapUsed, SwapTotal)),
   Measured(<<"swap", "used">>, "MiB", TrueMemory(SwapUsed, KIB)),
   Measured(<<"disk", "usage">>, "%", TrueDisk(100 * BlocksUsed, BlocksUsable)),
   Measured(<<"disk", "available">>, "GiB", TrueDisk(board.statvfs.available * board.statvfs.fragment, GIB))}

\* The two differ by half of the last digit the entity displays, or less.
Close(shown, truth, digits) ==
  LET distance == shown.n * truth.d - truth.n * shown.d
      largest == shown.d * truth.d
  IN  2 * Factor(digits) * distance <= largest /\ -2 * Factor(digits) * distance <= largest

\* The bits of the firmware's mask by their entity: those of now start at 0,
\* those since boot at 16.
FirmwareBit(key, bit) == [key |-> key, bit |-> bit]

FirmwareBits ==
  {FirmwareBit(<<"undervoltage", "now">>, 0), FirmwareBit(<<"undervoltage", "since", "boot">>, 16),
   FirmwareBit(<<"arm", "frequency", "capped", "now">>, 1),
   FirmwareBit(<<"arm", "frequency", "capped", "since", "boot">>, 17),
   FirmwareBit(<<"throttled", "now">>, 2), FirmwareBit(<<"throttled", "since", "boot">>, 18),
   FirmwareBit(<<"soft", "temperature", "limit", "now">>, 3),
   FirmwareBit(<<"soft", "temperature", "limit", "since", "boot">>, 19)}

\* A bit of the mask as it should be shown.
TrueFlag(bit) ==
  IF board.throttled = Null THEN Null ELSE <<IF bit \in board.throttled[1] THEN "ON" ELSE "OFF">>

\* What Home Assistant shows is what the board reported with this state: every
\* number in the unit of its entity and true to the last digit displayed, every
\* flag by its bit of the firmware's mask, and unknown exactly what could not
\* be measured; and the status says "ok" only over entities that are known
\* (the tables of discovery.rs, power.rs and the serializers of model.rs).
EntitiesHonest ==
  message # <<>> =>
    /\ \A m \in Truth :
         /\ Component(m.key).unit = m.unit
         /\ Shown(m.key) = Null <=> m.value = Null
         /\ m.value # Null => Close(Shown(m.key)[1], m.value[1], Component(m.key).precision)
    /\ \A flag \in FirmwareBits : Shown(flag.key) = TrueFlag(flag.bit)
    /\ Shown(<<"throttled", "raw">>) = board.throttled
    /\ LET uptime == Shown(<<"uptime">>) IN
         IF NonNegative(board.uptime) /\ board.uptime[1] < 1000 * MaxU64
         THEN 1000 * uptime[1] <= board.uptime[1] /\ board.uptime[1] < 1000 * uptime[1] + 1000
         ELSE uptime = Null
    /\ Shown(<<"health", "status">>)[1] \in HEALTH_OPTIONS
    /\ Shown(<<"health", "status">>)[1] \in {"ok", "warning"} =>
         /\ Shown(<<"collector", "error", "count">>) = <<0>>
         /\ \A c \in COMPONENT_DEFINITIONS :
              Shown(c.key) = Null => c.key \in {<<"cpu", "usage">>, <<"cpu", "frequency">>}
=============================================================================
