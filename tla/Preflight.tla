------------------------------ MODULE Preflight -----------------------------
(***************************************************************************)
(* The commands of the binary (src/src/main.rs) up to the point where the  *)
(* service runs: configuration and credentials are loaded                  *)
(* (src/src/config.rs), a collector is constructed (src/src/collector.rs), *)
(* `check` makes its report (src/src/diagnostics.rs), and the daemon       *)
(* starts (daemon::run).  From there on the module Daemon describes it.    *)
(*                                                                         *)
(* Each file is looked at first and read afterwards, and the host is not   *)
(* locked meanwhile: an operator may replace a file between any two steps. *)
(* A configuration is abstracted to its size and whether it is valid, a    *)
(* credential to a few characters, and a collection to the metrics that    *)
(* failed and the power flags.  The MQTT probe is one step here: what it   *)
(* returns, and that it returns, is the subject of MqttProbe.              *)
(***************************************************************************)
EXTENDS Naturals, SequencesExt

CONSTANTS
  MaxConfigBytes,    \* MAX_CONFIG_BYTES
  MaxPasswordBytes,  \* MAX_PASSWORD_BYTES
  MaxFieldBytes,     \* u16::MAX, the longest field MQTT can carry
  Texts,             \* bound: contents the credential file may have
  Metrics,           \* bound: the metrics that may fail, two of them named
  Armv7              \* the build's target architecture

ASSUME PreflightAssumption ==
  /\ MaxConfigBytes \in Nat \ {0} /\ MaxPasswordBytes \in Nat /\ MaxFieldBytes \in Nat
  /\ {"power", "cpu.frequency_mhz"} \subseteq Metrics
  /\ Armv7 \in BOOLEAN

VARIABLES
  config,    \* the configuration file
  secret,    \* the credential file
  tools,     \* the places where vcgencmd is installed
  command,   \* what the current or last process was asked to do
  pc,        \* where it is; "shell" when there is none
  source,    \* size of the configuration it parsed, 0 before
  password,  \* the credential it loaded, empty before
  report,    \* the checks made so far
  exit,      \* the last exit code, or NoExit
  cause,     \* what ended the daemon's start
  checked    \* history: what the last check says of the host as it still is

hostVars    == <<config, secret, tools>>
processVars == <<command, pc, source, password, report, exit, cause>>
vars == <<hostVars, processVars, checked>>

Commands == {"check", "check --skip-mqtt", "print-once", "daemon"}
Checks   == {"check", "check --skip-mqtt"}

\* The exit codes of cli.rs, and none yet.
SUCCESS          == 0
CONFIG_ERROR     == 3
DIAGNOSTIC_ERROR == 4
COLLECTION_ERROR == 5
RUNTIME_ERROR    == 6
NoExit           == 99

\* The order of the report.
Order == <<"credentials", "runtime identity", "architecture", "collector", "metadata", "power", "mqtt">>
Statuses == {"Pass", "Warning", "Failure", "Skipped"}

\* What a path may name: "unreadable" can be looked at and not be read.
Kinds == {"absent", "directory", "unreadable", "file"}

Configs ==
  {file \in [kind: Kinds, size: {1, MaxConfigBytes, MaxConfigBytes + 1}, valid: BOOLEAN] :
     file.kind # "file" => file.size = 1 /\ file.valid}

Secrets ==
  {file \in [kind: Kinds, private: BOOLEAN, text: Texts] :
     file.kind # "file" => file.private /\ file.text = <<"c">>}

Paths == <<"configured", "/usr/bin/vcgencmd", "/opt/vc/bin/vcgencmd">>

\* Bound: vcgencmd is at the last of its places or nowhere.
Installations == {{}, {Last(Paths)}}

Init ==
  /\ config \in Configs /\ secret \in Secrets
  /\ tools \in Installations
  /\ command = "daemon" /\ pc = "shell"
  /\ source = 0 /\ password = <<>> /\ report = <<>>
  /\ exit = NoExit /\ cause = "none"
  /\ checked = "no"

-----------------------------------------------------------------------------
\* An operator replaces a file, or installs or removes vcgencmd.
HostChanges ==
  /\ \/ config' \in Configs \ {config} /\ UNCHANGED <<secret, tools>>
     \/ secret' \in Secrets \ {secret} /\ UNCHANGED <<config, tools>>
     \/ tools' \in Installations \ {tools} /\ UNCHANGED <<config, secret>>
  /\ checked' = "no"
  /\ UNCHANGED processVars

\* main parses the command line and calls run.
Run(asked) ==
  /\ pc = "shell"
  /\ command' = asked /\ pc' = "config metadata"
  /\ source' = 0 /\ password' = <<>> /\ report' = <<>>
  /\ exit' = NoExit /\ cause' = "none"
  /\ checked' = IF asked \in Checks THEN "running" ELSE checked
  /\ UNCHANGED hostVars

\* The process ends.
Exit(code, why) ==
  /\ pc' = "shell" /\ exit' = code /\ cause' = why
  /\ UNCHANGED <<command, source>>

GoTo(place) == pc' = place /\ UNCHANGED <<command, exit, cause>>

-----------------------------------------------------------------------------
(***************************************************************************)
(* Config::load and MqttCredentials::load.                                 *)
(***************************************************************************)
\* fs::metadata succeeds on a regular file within the limit.
LooksRight(file, size, limit) == file.kind \in {"unreadable", "file"} /\ size <= limit

ConfigMetadata ==
  /\ pc = "config metadata"
  /\ IF LooksRight(config, config.size, MaxConfigBytes)
     THEN GoTo("config read") /\ UNCHANGED source
     ELSE Exit(CONFIG_ERROR, "config")
  /\ UNCHANGED <<hostVars, password, report, checked>>

\* Mutation of Parses: parse relies on the size that was looked at.
ParsesAnySize(file) == file.valid

\* Config::parse, which looks at the size of what was read.
Parses(file) == file.size <= MaxConfigBytes /\ file.valid

\* What a command does once the configuration is there.
FirstStep ==
  CASE command = "print-once" -> "collector"
    [] command \in Checks    -> "diagnostics"
    [] OTHER                 -> "credential metadata"

ConfigRead ==
  /\ pc = "config read"
  /\ IF config.kind = "file" /\ Parses(config)
     THEN GoTo(FirstStep) /\ source' = config.size
     ELSE Exit(CONFIG_ERROR, "config")
  /\ UNCHANGED <<hostVars, password, report, checked>>

\* run_diagnostics builds its runtime; without one there is no report.
BuildDiagnosticRuntime(built) ==
  /\ pc = "diagnostics"
  /\ IF built THEN GoTo("credential metadata") /\ UNCHANGED source
              ELSE Exit(DIAGNOSTIC_ERROR, "runtime")
  /\ UNCHANGED <<hostVars, password, report, checked>>

\* A check adds to the report and goes on.
Report(name, status) == report' = Append(report, [name |-> name, status |-> status])

\* A failure to load the credential ends the daemon; a check reports it.
CredentialFailure ==
  IF command = "daemon"
  THEN Exit(CONFIG_ERROR, "credentials") /\ UNCHANGED <<password, report>>
  ELSE GoTo("identity") /\ Report("credentials", "Failure") /\ UNCHANGED <<source, password>>

CredentialMetadata ==
  /\ pc = "credential metadata"
  /\ IF LooksRight(secret, Len(secret.text), MaxPasswordBytes) /\ secret.private
     THEN GoTo("credential read") /\ UNCHANGED <<source, password, report>>
     ELSE CredentialFailure
  /\ UNCHANGED <<hostVars, checked>>

\* Exactly one final CRLF or LF is removed.
WithoutLineEnding(text) ==
  LET drop(n) == SubSeq(text, 1, Len(text) - n)
  IN  IF IsSuffix(<<"\r", "\n">>, text) THEN drop(2)
      ELSE IF IsSuffix(<<"\n">>, text) THEN drop(1) ELSE text

\* Neither empty nor longer than a field.
Usable(text) == text # <<>> /\ Len(text) <= MaxFieldBytes

CredentialRead ==
  /\ pc = "credential read"
  /\ LET read == WithoutLineEnding(secret.text) IN
     IF secret.kind = "file" /\ "invalid" \notin ToSet(secret.text) /\ Usable(read)
     THEN /\ password' = read
          /\ UNCHANGED source
          /\ IF command = "daemon"
             THEN GoTo("collector") /\ UNCHANGED report
             ELSE GoTo("identity") /\ Report("credentials", "Pass")
     ELSE CredentialFailure
  /\ UNCHANGED <<hostVars, checked>>

-----------------------------------------------------------------------------
(***************************************************************************)
(* run_checks, after the credentials.                                      *)
(***************************************************************************)
\* parse_process_identity: effective user, effective group and the other
\* groups, 0 being root and 1 any other.
Identities == [uid: {0, 1}, gid: {0, 1}, groups: SUBSET {0, 1}]

\* identity_check.  An identity that cannot be parsed fails as root does,
\* and is not told apart from it.
IdentityStatus(identity) ==
  CASE identity.uid = 0 -> "Failure"
    [] identity.uid # 0 /\ 0 \in {identity.gid} \cup identity.groups -> "Warning"
    [] OTHER -> "Pass"

CheckIdentityAndArchitecture(identity) ==
  /\ pc = "identity"
  /\ report' = report \o
       <<[name |-> "runtime identity", status |-> IdentityStatus(identity)],
         [name |-> "architecture", status |-> IF Armv7 THEN "Pass" ELSE "Warning"]>>
  /\ GoTo("collector")
  /\ UNCHANGED <<hostVars, source, password, checked>>

\* resolve_vcgencmd: the first of the permitted paths that is a file.
ResolveVcgencmd(installed) ==
  LET found == SelectSeq(Paths, LAMBDA path : path \in installed)
  IN  IF found = <<>> THEN "none" ELSE Head(found)

\* Mutation of CollectorStatus: power flags are optional as well.
CollectorStatusLenient(errors) ==
  CASE errors = {} -> "Pass"
    [] errors # {} /\ errors \subseteq {"cpu.frequency_mhz", "power"} -> "Warning"
    [] OTHER -> "Failure"

\* check_snapshot: only the frequency is optional.
CollectorStatus(errors) ==
  CASE errors = {} -> "Pass"
    [] errors = {"cpu.frequency_mhz"} -> "Warning"
    [] OTHER -> "Failure"

\* check_power.  Without an error of collect_power the flags are known.
PowerStatus(errors, flags) ==
  IF "power" \in errors THEN "Skipped"
  ELSE IF flags \in {"now", "since boot"} THEN "Warning" ELSE "Pass"

\* Collector::new, metadata and collect succeed.
CheckSnapshot(errors, complete, flags) ==
  /\ pc = "collector" /\ command \in Checks
  /\ ResolveVcgencmd(tools) # "none"
  /\ report' = report \o
       <<[name |-> "collector", status |-> CollectorStatus(errors)],
         [name |-> "metadata", status |-> IF complete THEN "Pass" ELSE "Warning"],
         [name |-> "power", status |-> PowerStatus(errors, flags)]>>
  /\ GoTo("mqtt")
  /\ UNCHANGED <<hostVars, source, password, checked>>

\* Collector::new fails.
CheckNoCollector ==
  /\ pc = "collector" /\ command \in Checks
  /\ ResolveVcgencmd(tools) = "none"
  /\ report' = report \o <<[name |-> "collector", status |-> "Failure"],
                           [name |-> "metadata", status |-> "Skipped"],
                           [name |-> "power", status |-> "Skipped"]>>
  /\ GoTo("mqtt")
  /\ UNCHANGED <<hostVars, source, password, checked>>

\* check_mqtt: every way the probe may fail is a failure.
MqttStatus(connected) == IF connected THEN "Pass" ELSE "Failure"

\* The probe runs if it is wanted and there is a credential.
CheckMqtt(connected) ==
  /\ pc = "mqtt"
  /\ Report("mqtt", IF command = "check --skip-mqtt" \/ password = <<>> THEN "Skipped"
                    ELSE MqttStatus(connected))
  /\ GoTo("report")
  /\ UNCHANGED <<hostVars, source, password, checked>>

\* Mutation of HasFailures: only the last check counts.
LastFailed == Last(report).status = "Failure"

HasFailures == \E i \in DOMAIN report : report[i].status = "Failure"

\* What the report says about a start of the daemon on this host: its first
\* entry is about the credential, its fifth is skipped without a collector.
Verdict ==
  CASE ~HasFailures -> "passed"
    [] HasFailures /\ (report[1].status = "Failure" \/ report[5].status = "Skipped") -> "blocked"
    [] OTHER -> "no"

\* run_diagnostics prints the report; exit_code.
PrintReport ==
  /\ pc = "report"
  /\ Exit(IF HasFailures THEN DIAGNOSTIC_ERROR ELSE SUCCESS, "report")
  /\ checked' = IF checked = "running" THEN Verdict ELSE "no"
  /\ UNCHANGED <<hostVars, password, report>>

-----------------------------------------------------------------------------
\* print_once: Collector::new, collect and the serialization, which fails on a
\* measurement that cannot be rounded.
PrintOnce(serialized) ==
  /\ pc = "collector" /\ command = "print-once"
  /\ Exit(IF ResolveVcgencmd(tools) # "none" /\ serialized THEN SUCCESS ELSE COLLECTION_ERROR,
          "collector")
  /\ UNCHANGED <<hostVars, password, report, checked>>

\* daemon::run: Collector::new, the discovery message (a document of texts and
\* whole numbers, which is always written), then the runtime and the service.
StartCollector ==
  /\ pc = "collector" /\ command = "daemon"
  /\ IF ResolveVcgencmd(tools) = "none"
     THEN Exit(RUNTIME_ERROR, "collector")
     ELSE GoTo("runtime") /\ UNCHANGED source
  /\ UNCHANGED <<hostVars, password, report, checked>>

BuildRuntime(built) ==
  /\ pc = "runtime"
  /\ IF built THEN GoTo("service") /\ UNCHANGED source
              ELSE Exit(RUNTIME_ERROR, "runtime")
  /\ UNCHANGED <<hostVars, password, report, checked>>

\* The service ends, in one of the ways Daemon describes.
ServiceEnds(code) ==
  /\ pc = "service"
  /\ Exit(code, "service")
  /\ UNCHANGED <<hostVars, password, report, checked>>

Next ==
  \/ HostChanges
  \/ \E asked \in Commands : Run(asked)
  \/ ConfigMetadata
  \/ ConfigRead
  \/ \E built \in BOOLEAN : BuildDiagnosticRuntime(built)
  \/ CredentialMetadata
  \/ CredentialRead
  \/ \E identity \in Identities : CheckIdentityAndArchitecture(identity)
  \/ \E errors \in SUBSET Metrics, complete \in BOOLEAN, flags \in {"now", "since boot", "clear"} :
       CheckSnapshot(errors, complete, flags)
  \/ CheckNoCollector
  \/ \E connected \in BOOLEAN : CheckMqtt(connected)
  \/ PrintReport
  \/ \E serialized \in BOOLEAN : PrintOnce(serialized)
  \/ StartCollector
  \/ \E built \in BOOLEAN : BuildRuntime(built)
  \/ \E code \in {SUCCESS, RUNTIME_ERROR} : ServiceEnds(code)

Spec == Init /\ [][Next]_vars

-----------------------------------------------------------------------------
\* What each variable may hold.
TypeOK ==
  /\ config \in Configs /\ secret \in Secrets /\ tools \subseteq ToSet(Paths)
  /\ command \in Commands
  /\ pc \in {"shell", "config metadata", "config read", "diagnostics", "credential metadata",
             "credential read", "identity", "collector", "mqtt", "report", "runtime", "service"}
  /\ source \in Nat
  /\ \A i \in DOMAIN password : password[i] \in {"c", "\r", "\n"}
  /\ \A i \in DOMAIN report : report[i].name \in ToSet(Order) /\ report[i].status \in Statuses
  /\ exit \in {NoExit, SUCCESS, CONFIG_ERROR, DIAGNOSTIC_ERROR, COLLECTION_ERROR, RUNTIME_ERROR}
  /\ checked \in {"no", "running", "passed", "blocked"}

\* Limits are kept although files are replaced between the look and the read:
\* no command works with a configuration beyond its limit, and a credential
\* that goes to the broker fits into an MQTT field and is not empty.
InputsBounded ==
  /\ source <= MaxConfigBytes
  /\ Len(password) <= MaxFieldBytes
  /\ pc = "service" => source > 0 /\ password # <<>>

\* The check foretells the start.  On a host that did not change since, after a
\* check that exits with 0 only the operating system can keep the service from
\* running; after one that found no credential or no collector it does not run.
StartAsChecked ==
  command = "daemon" /\ pc \in {"shell", "service"} =>
    /\ checked = "passed" /\ exit # NoExit => cause \in {"runtime", "service"}
    /\ checked = "blocked" => pc # "service"

\* The report has every check in its stable order, and one that was not made
\* was not wanted, or an earlier one in the same report failed: the report never
\* passes over a missing answer.
ReportHonest ==
  /\ \A i \in DOMAIN report : report[i].name = Order[i]
  /\ pc = "report" => Len(report) = Len(Order)
  /\ \A i \in DOMAIN report :
       report[i].status = "Skipped" =>
         \/ report[i].name = "mqtt" /\ command = "check --skip-mqtt"
         \/ \E j \in 1..(i - 1) : report[j].status = "Failure"
=============================================================================
