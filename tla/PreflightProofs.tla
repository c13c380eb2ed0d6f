-------------------------- MODULE PreflightProofs ---------------------------
(***************************************************************************)
(* InputsBounded, ReportHonest and StartAsChecked of Preflight, for every  *)
(* value of the limits, every content of the files and every set of        *)
(* metrics.                                                                *)
(***************************************************************************)
EXTENDS Preflight, TLAPS, SequenceTheorems

\* The part of the state the argument needs.  A process that is past loading
\* has what loading gave it: the configuration it parsed and, if it starts the
\* service, the credential.  The size of a configuration is positive whatever
\* the operator puts in its place.
Loaded ==
  /\ config \in Configs
  /\ source \in Nat /\ source <= MaxConfigBytes
  /\ Len(password) <= MaxFieldBytes
  /\ pc \in {"diagnostics", "credential metadata", "credential read", "identity", "collector",
             "runtime", "service"} => source > 0
  /\ command = "daemon" /\ pc \in {"collector", "runtime", "service"} => password # <<>>
  /\ pc \in {"runtime", "service"} => command = "daemon"
  /\ pc = "identity" => command # "daemon"

\* A configuration that parses is within its limit and has a size.
LEMMA ParsedSize ==
  ASSUME NEW file \in Configs, Parses(file)
  PROVE  file.size \in Nat /\ file.size > 0 /\ file.size <= MaxConfigBytes
BY PreflightAssumption DEF PreflightAssumption, Configs, Parses, Kinds

\* The assumptions of the argument; the empty password is within its limit.
LEMMA Limits ==
  MaxConfigBytes \in Nat /\ 0 <= MaxConfigBytes /\ MaxFieldBytes \in Nat /\ Len(<<>>) <= MaxFieldBytes
BY PreflightAssumption DEF PreflightAssumption

\* Nothing is loaded before the first command.
LEMMA LoadedInit == Init => Loaded
BY PreflightAssumption DEF PreflightAssumption, Init, Loaded

\* A step keeps it: whatever is loaded has passed the checks on what was read.
LEMMA LoadedStep == Loaded /\ [Next]_vars => Loaded'
<1> SUFFICES ASSUME Loaded, [Next]_vars PROVE Loaded'
  OBVIOUS
<1> USE Limits DEF Loaded, hostVars, processVars, Checks
<1>1. CASE HostChanges
  BY <1>1 DEF HostChanges
<1>2. ASSUME NEW asked \in Commands, Run(asked) PROVE Loaded'
  BY <1>2 DEF Run
<1>3. CASE ConfigMetadata
  BY <1>3 DEF ConfigMetadata, GoTo, Exit
<1>4. CASE ConfigRead
  <2>1. Parses(config) => config.size \in Nat /\ config.size > 0 /\ config.size <= MaxConfigBytes
    BY ParsedSize
  <2> QED
    BY <1>4, <2>1 DEF ConfigRead, GoTo, Exit, FirstStep
<1>5. CASE CredentialMetadata
  BY <1>5 DEF CredentialMetadata, CredentialFailure, GoTo, Exit, Report
<1>6. CASE CredentialRead
  BY <1>6 DEF CredentialRead, CredentialFailure, Usable, GoTo, Exit, Report
<1>7. ASSUME NEW identity \in Identities, CheckIdentityAndArchitecture(identity) PROVE Loaded'
  BY <1>7 DEF CheckIdentityAndArchitecture, GoTo
<1>8. ASSUME NEW errors \in SUBSET Metrics, NEW complete \in BOOLEAN,
             NEW flags \in {"now", "since boot", "clear"}, CheckSnapshot(errors, complete, flags)
      PROVE  Loaded'
  BY <1>8 DEF CheckSnapshot, GoTo
<1>9. CASE CheckNoCollector
  BY <1>9 DEF CheckNoCollector, GoTo
<1>10. ASSUME NEW connected \in BOOLEAN, CheckMqtt(connected) PROVE Loaded'
  BY <1>10 DEF CheckMqtt, GoTo
<1>11. CASE PrintReport
  BY <1>11 DEF PrintReport, Exit
<1>12. ASSUME NEW serialized \in BOOLEAN, PrintOnce(serialized) PROVE Loaded'
  BY <1>12 DEF PrintOnce, Exit
<1>13. CASE StartCollector
  BY <1>13 DEF StartCollector, GoTo, Exit
<1>14. ASSUME NEW built \in BOOLEAN, BuildRuntime(built) PROVE Loaded'
  BY <1>14 DEF BuildRuntime, GoTo, Exit
<1>15. ASSUME NEW code \in {SUCCESS, RUNTIME_ERROR}, ServiceEnds(code) PROVE Loaded'
  BY <1>15 DEF ServiceEnds, Exit
<1>16. ASSUME NEW built \in BOOLEAN, BuildDiagnosticRuntime(built) PROVE Loaded'
  BY <1>16 DEF BuildDiagnosticRuntime, GoTo, Exit
<1>17. CASE UNCHANGED vars
  BY <1>17 DEF vars
<1> QED
  BY <1>1, <1>2, <1>3, <1>4, <1>5, <1>6, <1>7, <1>8, <1>9, <1>10, <1>11, <1>12, <1>13,
     <1>14, <1>15, <1>16, <1>17 DEF Next

\* However files are replaced between the look and the read, nothing beyond its
\* limit gets past Config::parse and MqttCredentials::load, and the service
\* never runs without a configuration and a credential.
THEOREM LimitsKept == Spec => []InputsBounded
<1>1. Loaded => InputsBounded
  BY DEF Loaded, InputsBounded
<1> QED
  BY LoadedInit, LoadedStep, <1>1, PTL DEF Spec

-----------------------------------------------------------------------------
(***************************************************************************)
(* The report.  How far it has come is fixed by where the process is, and  *)
(* a missing credential is its first entry's failure.                      *)
(***************************************************************************)
Entries == [name: {"credentials", "runtime identity", "architecture", "collector", "metadata",
                   "power", "mqtt"}, status: Statuses]

NamesInOrder == \A i \in DOMAIN report : report[i].name = Order[i]

SkipsExplained ==
  \A i \in DOMAIN report :
    report[i].status = "Skipped" =>
      \/ report[i].name = "mqtt" /\ command = "check --skip-mqtt"
      \/ \E j \in 1..(i - 1) : report[j].status = "Failure"

\* The places where a command reports, with the length of the report there.
Reporting == command \in Checks /\ pc \in {"identity", "collector", "mqtt", "report"}

ReportProgress ==
  /\ report \in Seq(Entries)
  /\ NamesInOrder
  /\ SkipsExplained
  /\ pc \in {"config metadata", "config read", "diagnostics", "credential metadata",
             "credential read"} => report = <<>> /\ password = <<>>
  /\ pc \in {"identity", "mqtt", "report"} => command \in Checks
  /\ pc = "collector" => command \in Checks \/ report = <<>>
  /\ pc \in {"diagnostics", "credential metadata", "credential read"} => command # "print-once"
  /\ pc = "identity" => Len(report) = 1
  /\ pc = "collector" /\ command \in Checks => Len(report) = 3
  /\ pc = "mqtt" => Len(report) = 6
  /\ pc = "report" => Len(report) = 7
  /\ command \in Commands

\* The first entry says whether there is a credential.
CredentialReported == Reporting => (password = <<>> <=> report[1].status = "Failure")

\* What appending to the report does.
LEMMA Appended ==
  ASSUME NEW s \in Seq(Entries), NEW t \in Seq(Entries)
  PROVE  /\ s \o t \in Seq(Entries)
         /\ Len(s \o t) = Len(s) + Len(t)
         /\ \A i \in 1..Len(s) : (s \o t)[i] = s[i]
         /\ \A i \in 1..Len(t) : (s \o t)[Len(s) + i] = t[i]
<1>1. s \o t \in Seq(Entries) /\ Len(s \o t) = Len(s) + Len(t)
  OBVIOUS
<1>2. \A i \in 1..Len(s) : (s \o t)[i] = s[i]
  OBVIOUS
<1>3. \A i \in 1..Len(t) : (s \o t)[Len(s) + i] = t[i]
  OBVIOUS
<1> QED
  BY <1>1, <1>2, <1>3

\* The statuses the checks give are statuses.
LEMMA StatusTypes ==
  ASSUME NEW identity, NEW errors, NEW flags, NEW connected
  PROVE  /\ IdentityStatus(identity) \in {"Pass", "Warning", "Failure"}
         /\ CollectorStatus(errors) \in {"Pass", "Warning", "Failure"}
         /\ PowerStatus(errors, flags) \in {"Pass", "Warning", "Skipped"}
         /\ PowerStatus(errors, flags) = "Skipped" => CollectorStatus(errors) = "Failure"
         /\ MqttStatus(connected) \in {"Pass", "Failure"}
<1>1. IdentityStatus(identity) \in {"Pass", "Warning", "Failure"}
  BY DEF IdentityStatus
<1>2. CollectorStatus(errors) \in {"Pass", "Warning", "Failure"}
  BY DEF CollectorStatus
<1>3. PowerStatus(errors, flags) \in {"Pass", "Warning", "Skipped"}
  BY DEF PowerStatus
<1>4. PowerStatus(errors, flags) = "Skipped" => CollectorStatus(errors) = "Failure"
  <2> SUFFICES ASSUME "power" \in errors PROVE CollectorStatus(errors) = "Failure"
    BY DEF PowerStatus
  <2>1. errors # {} /\ errors # {"cpu.frequency_mhz"}
    OBVIOUS
  <2> QED
    BY <2>1 DEF CollectorStatus
<1>5. MqttStatus(connected) \in {"Pass", "Failure"}
  BY DEF MqttStatus
<1> QED
  BY <1>1, <1>2, <1>3, <1>4, <1>5

\* The names of the report, by position.
LEMMA OrderAt ==
  /\ Order[1] = "credentials" /\ Order[2] = "runtime identity" /\ Order[3] = "architecture"
  /\ Order[4] = "collector" /\ Order[5] = "metadata" /\ Order[6] = "power" /\ Order[7] = "mqtt"
  /\ Len(Order) = 7
  BY DEF Order

\* The same of any sequence of entries, for a command.
InOrder(s) == \A i \in 1..Len(s) : s[i].name = Order[i]

Explained(s, asked) ==
  \A i \in 1..Len(s) :
    s[i].status = "Skipped" =>
      \/ s[i].name = "mqtt" /\ asked = "check --skip-mqtt"
      \/ \E j \in 1..(i - 1) : s[j].status = "Failure"

\* What t leaves out is explained, if it follows s.
ExplainedAfter(s, t, asked) ==
  \A i \in 1..Len(t) : t[i].status = "Skipped" =>
    \/ t[i].name = "mqtt" /\ asked = "check --skip-mqtt"
    \/ \E j \in 1..(i - 1) : t[j].status = "Failure"
    \/ \E j \in 1..Len(s) : s[j].status = "Failure"

\* An index of a concatenation belongs to one of its parts.
LEMMA Halves ==
  ASSUME NEW m \in Nat, NEW n \in Nat, NEW i \in 1..(m + n)
  PROVE  i \in 1..m \/ (i - m \in 1..n /\ i = m + (i - m))
  OBVIOUS

\* Entries that have the next names extend a report in order.
LEMMA ExtendedInOrder ==
  ASSUME NEW s \in Seq(Entries), NEW t \in Seq(Entries), InOrder(s),
         \A i \in 1..Len(t) : t[i].name = Order[Len(s) + i]
  PROVE  InOrder(s \o t)
<1> DEFINE r == s \o t
<1>1. /\ Len(r) = Len(s) + Len(t)
      /\ \A i \in 1..Len(s) : r[i] = s[i]
      /\ \A i \in 1..Len(t) : r[Len(s) + i] = t[i]
  BY Appended
<1>2. Len(s) \in Nat /\ Len(t) \in Nat
  OBVIOUS
<1> HIDE DEF r
<1>3. ASSUME NEW i \in 1..Len(r) PROVE r[i].name = Order[i]
  <2>1. i \in 1..Len(s) \/ (i - Len(s) \in 1..Len(t) /\ i = Len(s) + (i - Len(s)))
    BY <1>1, <1>2, Halves
  <2>2. CASE i \in 1..Len(s)
    BY <2>2, <1>1 DEF InOrder
  <2>3. CASE i - Len(s) \in 1..Len(t) /\ i = Len(s) + (i - Len(s))
    BY <2>3, <1>1
  <2> QED
    BY <2>1, <2>2, <2>3
<1> QED
  BY <1>3 DEF InOrder, r

\* Entries whose gaps are explained by what stands before them keep every gap of
\* the report explained.
LEMMA ExtendedExplained ==
  ASSUME NEW s \in Seq(Entries), NEW t \in Seq(Entries), NEW asked,
         Explained(s, asked), ExplainedAfter(s, t, asked)
  PROVE  Explained(s \o t, asked)
<1> DEFINE r    == s \o t
           m    == Len(s)
           n    == Len(t)
<1>1. /\ Len(r) = m + n
      /\ \A i \in 1..m : r[i] = s[i]
      /\ \A i \in 1..n : r[m + i] = t[i]
  BY Appended
<1>2. m \in Nat /\ n \in Nat
  OBVIOUS
<1>3. \A i \in 1..n : t[i].status = "Skipped" =>
           \/ t[i].name = "mqtt" /\ asked = "check --skip-mqtt"
           \/ \E j \in 1..(i - 1) : t[j].status = "Failure"
           \/ \E j \in 1..m : s[j].status = "Failure"
  BY DEF ExplainedAfter
<1>4. \A i \in 1..m : s[i].status = "Skipped" =>
           \/ s[i].name = "mqtt" /\ asked = "check --skip-mqtt"
           \/ \E j \in 1..(i - 1) : s[j].status = "Failure"
  BY DEF Explained
<1> HIDE DEF r, m, n
<1>5. ASSUME NEW i \in 1..(m + n), r[i].status = "Skipped"
      PROVE  \/ r[i].name = "mqtt" /\ asked = "check --skip-mqtt"
             \/ \E j \in 1..(i - 1) : r[j].status = "Failure"
  <2>1. i \in 1..m \/ (i - m \in 1..n /\ i = m + (i - m))
    BY <1>2, Halves
  <2>2. CASE i \in 1..m
    <3>1. \A j \in 1..(i - 1) : r[j] = s[j]
      BY <2>2, <1>1, <1>2
    <3> QED
      BY <2>2, <3>1, <1>1, <1>4, <1>5
  <2>3. CASE i - m \in 1..n /\ i = m + (i - m)
    <3> DEFINE k == i - m
    <3>1. k \in 1..n /\ r[i] = t[k]
      BY <2>3, <1>1
    <3>2. \A j \in 1..(k - 1) : m + j \in 1..(i - 1) /\ r[m + j] = t[j]
      BY <2>3, <1>1, <1>2
    <3>3. \A j \in 1..m : j \in 1..(i - 1) /\ r[j] = s[j]
      BY <2>3, <1>1, <1>2
    <3> HIDE DEF k
    <3> QED
      BY <3>1, <3>2, <3>3, <1>3, <1>5
  <2> QED
    BY <2>1, <2>2, <2>3
<1>6. Len(s \o t) = m + n
  BY <1>1 DEF r
<1> QED
  BY <1>5, <1>6 DEF Explained, r

\* The parts of ReportHonest say this of the report.
LEMMA ReportIs ==
  ASSUME report \in Seq(Entries)
  PROVE  (NamesInOrder <=> InOrder(report)) /\ (SkipsExplained <=> Explained(report, command))
<1>1. DOMAIN report = 1..Len(report)
  OBVIOUS
<1> QED
  BY <1>1 DEF NamesInOrder, InOrder, SkipsExplained, Explained

NextNames(s, t) == \A i \in 1..Len(t) : t[i].name = Order[Len(s) + i]

\* A step that adds to the report keeps it honest if the entries have the next
\* names and what they skip is explained.
LEMMA Extended ==
  ASSUME ReportProgress, NEW t \in Seq(Entries), report' = report \o t, command' = command,
         NextNames(report, t), ExplainedAfter(report, t, command)
  PROVE  /\ report' \in Seq(Entries) /\ NamesInOrder' /\ SkipsExplained'
         /\ Len(report') = Len(report) + Len(t)
         /\ \A i \in 1..Len(report) : report'[i] = report[i]
         /\ \A i \in 1..Len(t) : report'[Len(report) + i] = t[i]
<1>1. report \in Seq(Entries) /\ InOrder(report) /\ Explained(report, command)
  BY ReportIs DEF ReportProgress
<1>2. /\ report' \in Seq(Entries) /\ Len(report') = Len(report) + Len(t)
      /\ \A i \in 1..Len(report) : report'[i] = report[i]
      /\ \A i \in 1..Len(t) : report'[Len(report) + i] = t[i]
  BY <1>1, Appended
<1>3. InOrder(report')
  <2>1. \A i \in 1..Len(t) : t[i].name = Order[Len(report) + i]
    BY DEF NextNames
  <2> QED
    BY <1>1, <2>1, ExtendedInOrder
<1>4. Explained(report', command')
  BY <1>1, ExtendedExplained
<1>5. DOMAIN report' = 1..Len(report')
  BY <1>2
<1>6. NamesInOrder'
  BY <1>3, <1>5 DEF NamesInOrder, InOrder
<1>7. SkipsExplained'
  BY <1>4, <1>5 DEF SkipsExplained, Explained
<1> QED
  BY <1>2, <1>6, <1>7

\* Short sequences of entries.
LEMMA OneEntry ==
  ASSUME NEW e \in Entries
  PROVE  <<e>> \in Seq(Entries) /\ Len(<<e>>) = 1 /\ <<e>>[1] = e
  OBVIOUS

LEMMA TwoEntries ==
  ASSUME NEW e \in Entries, NEW f \in Entries
  PROVE  <<e, f>> \in Seq(Entries) /\ Len(<<e, f>>) = 2 /\ <<e, f>>[1] = e /\ <<e, f>>[2] = f
  OBVIOUS

LEMMA ThreeEntries ==
  ASSUME NEW e \in Entries, NEW f \in Entries, NEW g \in Entries
  PROVE  /\ <<e, f, g>> \in Seq(Entries) /\ Len(<<e, f, g>>) = 3
         /\ <<e, f, g>>[1] = e /\ <<e, f, g>>[2] = f /\ <<e, f, g>>[3] = g
  OBVIOUS

\* What it takes to follow a report, for one, two and three entries.
LEMMA OneFollows ==
  ASSUME NEW s, NEW t, NEW n \in Nat, Len(s) = n, Len(t) = 1, NEW k, k = n + 1, t[1].name = Order[k]
  PROVE  NextNames(s, t)
<1> SUFFICES ASSUME NEW i \in 1..Len(t) PROVE t[i].name = Order[Len(s) + i]
  BY DEF NextNames
<1>1. i = 1
  OBVIOUS
<1> QED
  BY <1>1

LEMMA TwoFollow ==
  ASSUME NEW s, NEW t, NEW n \in Nat, Len(s) = n, Len(t) = 2, NEW k, NEW l, k = n + 1, l = n + 2,
         t[1].name = Order[k], t[2].name = Order[l]
  PROVE  NextNames(s, t)
<1> SUFFICES ASSUME NEW i \in 1..Len(t) PROVE t[i].name = Order[Len(s) + i]
  BY DEF NextNames
<1>1. i = 1 \/ i = 2
  OBVIOUS
<1> QED
  BY <1>1

LEMMA ThreeFollow ==
  ASSUME NEW s, NEW t, NEW n \in Nat, Len(s) = n, Len(t) = 3, NEW k, NEW l, NEW m,
         k = n + 1, l = n + 2, m = n + 3,
         t[1].name = Order[k], t[2].name = Order[l], t[3].name = Order[m]
  PROVE  NextNames(s, t)
<1> SUFFICES ASSUME NEW i \in 1..Len(t) PROVE t[i].name = Order[Len(s) + i]
  BY DEF NextNames
<1>1. i = 1 \/ i = 2 \/ i = 3
  OBVIOUS
<1> QED
  BY <1>1

LEMMA UpToTwo ==
  ASSUME NEW n
  PROVE  (n = 1 => \A i \in 1..n : i = 1) /\ (n = 2 => \A i \in 1..n : i = 1 \/ i = 2)
  OBVIOUS

LEMMA NoneSkipped ==
  ASSUME NEW s, NEW t, NEW asked, Len(t) = 1 \/ (Len(t) = 2 /\ t[2].status # "Skipped"),
         t[1].status # "Skipped"
  PROVE  ExplainedAfter(s, t, asked)
<1> SUFFICES ASSUME NEW i \in 1..Len(t) PROVE t[i].status # "Skipped"
  BY DEF ExplainedAfter
<1>1. i = 1 \/ (i = 2 /\ Len(t) = 2)
  BY UpToTwo, Zenon
<1> QED
  BY <1>1

LEMMA NonEmpty ==
  ASSUME NEW s \in Seq(Entries), Len(s) > 0
  PROVE  1 \in 1..Len(s)
  OBVIOUS

LEMMA OneExplained ==
  ASSUME NEW s \in Seq(Entries), NEW t, NEW asked, Len(t) = 1, Len(s) > 0,
         t[1].status = "Skipped" =>
           (t[1].name = "mqtt" /\ asked = "check --skip-mqtt") \/ s[1].status = "Failure"
  PROVE  ExplainedAfter(s, t, asked)
<1>1. \A i \in 1..Len(t) : i = 1
  BY UpToTwo, Zenon
<1>2. 1 \in 1..Len(s)
  BY NonEmpty
<1> QED
  BY <1>1, <1>2 DEF ExplainedAfter

\* The credential is the first entry of the report.
LEMMA CredentialEntry ==
  ASSUME ReportProgress, report = <<>>, command' = command, NEW status \in {"Pass", "Failure"},
         Report("credentials", status)
  PROVE  /\ report' \in Seq(Entries) /\ NamesInOrder' /\ SkipsExplained'
         /\ Len(report') = 1 /\ report'[1].status = status
<1> DEFINE entry == [name |-> "credentials", status |-> status]
           t     == <<entry>>
<1>1. /\ t \in Seq(Entries) /\ Len(t) = 1
      /\ t[1].name = "credentials" /\ t[1].status = status
  BY OneEntry DEF Entries, Statuses
<1>2. report' = report \o t /\ Len(report) = 0
  BY DEF Report
<1> HIDE DEF t
<1>3. NextNames(report, t) /\ ExplainedAfter(report, t, command)
  <2>1. t[1].status # "Skipped"
    BY <1>1
  <2>2. ExplainedAfter(report, t, command)
    BY <1>1, <2>1, NoneSkipped
  <2>3. t[1].name = Order[1]
    BY <1>1, OrderAt
  <2>4. 1 = 0 + 1 /\ 0 \in Nat
    OBVIOUS
  <2>5. NextNames(report, t)
    BY <1>1, <1>2, <2>3, <2>4, OneFollows
  <2> QED
    BY <2>2, <2>5
<1>4. /\ report' \in Seq(Entries) /\ NamesInOrder' /\ SkipsExplained'
      /\ Len(report') = Len(report) + Len(t) /\ \A i \in 1..Len(t) : report'[Len(report) + i] = t[i]
  BY <1>1, <1>2, <1>3, Extended
<1> QED
  BY <1>1, <1>2, <1>4

\* Then come the two entries about the process ...
LEMMA IdentityEntries ==
  ASSUME ReportProgress, NEW identity \in Identities, CheckIdentityAndArchitecture(identity)
  PROVE  /\ report' \in Seq(Entries) /\ NamesInOrder' /\ SkipsExplained'
         /\ Len(report') = 3 /\ report'[1] = report[1]
<1> DEFINE t == <<[name |-> "runtime identity", status |-> IdentityStatus(identity)],
                  [name |-> "architecture", status |-> IF Armv7 THEN "Pass" ELSE "Warning"]>>
<1>1. IdentityStatus(identity) \in {"Pass", "Warning", "Failure"}
  BY StatusTypes
<1>2. /\ t \in Seq(Entries) /\ Len(t) = 2
      /\ t[1].name = "runtime identity" /\ t[2].name = "architecture"
      /\ t[1].status # "Skipped" /\ t[2].status # "Skipped"
  <2> DEFINE e == [name |-> "runtime identity", status |-> IdentityStatus(identity)]
             f == [name |-> "architecture", status |-> IF Armv7 THEN "Pass" ELSE "Warning"]
  <2>1. /\ e \in Entries /\ e.name = "runtime identity" /\ e.status # "Skipped"
        /\ f \in Entries /\ f.name = "architecture" /\ f.status # "Skipped"
    BY <1>1 DEF Entries, Statuses
  <2> HIDE DEF e, f
  <2>2. <<e, f>> \in Seq(Entries) /\ Len(<<e, f>>) = 2 /\ <<e, f>>[1] = e /\ <<e, f>>[2] = f
    BY <2>1, TwoEntries
  <2>3. t = <<e, f>>
    BY DEF e, f
  <2> HIDE DEF t
  <2> QED
    BY <2>1, <2>2, <2>3
<1>3. report' = report \o t /\ command' = command /\ Len(report) = 1 /\ report \in Seq(Entries)
  BY DEF CheckIdentityAndArchitecture, GoTo, ReportProgress
<1> HIDE DEF t
<1>4. NextNames(report, t) /\ ExplainedAfter(report, t, command)
  <2>1. ExplainedAfter(report, t, command)
    BY <1>2, NoneSkipped
  <2>2. t[1].name = Order[2] /\ t[2].name = Order[3]
    BY <1>2, OrderAt
  <2>3. 2 = 1 + 1 /\ 3 = 1 + 2 /\ 1 \in Nat
    OBVIOUS
  <2>4. NextNames(report, t)
    BY <1>2, <1>3, <2>2, <2>3, TwoFollow
  <2> QED
    BY <2>1, <2>4
<1>5. /\ report' \in Seq(Entries) /\ NamesInOrder' /\ SkipsExplained'
      /\ Len(report') = Len(report) + Len(t) /\ \A i \in 1..Len(report) : report'[i] = report[i]
  BY <1>2, <1>3, <1>4, Extended
<1>6. Len(report') = 3
  <2>1. Len(report) = 1 /\ Len(t) = 2 /\ Len(report') = Len(report) + Len(t)
    BY <1>2, <1>3, <1>5
  <2> QED
    BY <2>1
<1>7. 1 \in 1..Len(report)
  BY <1>3
<1> QED
  BY <1>5, <1>6, <1>7

\* ... the three about the collector, of which a failed collection explains the
\* ones that are skipped ...
LEMMA CollectorEntries ==
  ASSUME ReportProgress, pc = "collector", command \in Checks, command' = command,
         NEW first \in {"Pass", "Warning", "Failure"},
         NEW second \in {"Pass", "Warning", "Skipped"}, NEW third \in {"Pass", "Warning", "Skipped"},
         "Skipped" \in {second, third} => first = "Failure",
         report' = report \o <<[name |-> "collector", status |-> first],
                               [name |-> "metadata", status |-> second],
                               [name |-> "power", status |-> third]>>
  PROVE  /\ report' \in Seq(Entries) /\ NamesInOrder' /\ SkipsExplained'
         /\ Len(report') = 6 /\ report'[1] = report[1]
         /\ report'[4].status = first /\ report'[5].status = second
<1> DEFINE t == <<[name |-> "collector", status |-> first], [name |-> "metadata", status |-> second],
                  [name |-> "power", status |-> third]>>
<1>1. /\ t \in Seq(Entries) /\ Len(t) = 3
      /\ t[1].name = "collector" /\ t[2].name = "metadata" /\ t[3].name = "power"
      /\ t[1].status = first /\ t[2].status = second /\ t[3].status = third
  BY DEF Entries, Statuses
<1>2. report' = report \o t /\ Len(report) = 3
  BY DEF ReportProgress
<1> HIDE DEF t
<1>3. NextNames(report, t)
  <2>1. t[1].name = Order[4] /\ t[2].name = Order[5] /\ t[3].name = Order[6]
    BY <1>1, OrderAt
  <2>2. 4 = 3 + 1 /\ 5 = 3 + 2 /\ 6 = 3 + 3 /\ 3 \in Nat
    OBVIOUS
  <2> QED
    BY <1>1, <1>2, <2>1, <2>2, ThreeFollow
<1>4. ExplainedAfter(report, t, command)
  <2> SUFFICES ASSUME NEW i \in 1..3, t[i].status = "Skipped"
               PROVE  \E j \in 1..(i - 1) : t[j].status = "Failure"
    BY <1>1 DEF ExplainedAfter
  <2>1. i \in {2, 3} /\ first = "Failure"
    BY <1>1
  <2>2. 1 \in 1..(i - 1) /\ t[1].status = "Failure"
    BY <2>1, <1>1
  <2> QED
    BY <2>2
<1>5. /\ report' \in Seq(Entries) /\ NamesInOrder' /\ SkipsExplained'
      /\ Len(report') = Len(report) + Len(t) /\ \A i \in 1..Len(report) : report'[i] = report[i]
      /\ \A i \in 1..Len(t) : report'[Len(report) + i] = t[i]
  BY <1>1, <1>2, <1>3, <1>4, Extended
<1>6. report'[3 + 1] = t[1] /\ report'[3 + 2] = t[2]
  BY <1>1, <1>2, <1>5
<1> QED
  BY <1>1, <1>2, <1>5, <1>6

\* ... and the one about the broker.
LEMMA MqttEntry ==
  ASSUME ReportProgress, CredentialReported, NEW connected \in BOOLEAN, CheckMqtt(connected)
  PROVE  /\ report' \in Seq(Entries) /\ NamesInOrder' /\ SkipsExplained'
         /\ Len(report') = 7 /\ \A i \in 1..6 : report'[i] = report[i]
<1> DEFINE status == IF command = "check --skip-mqtt" \/ password = <<>> THEN "Skipped"
                     ELSE MqttStatus(connected)
           entry  == [name |-> "mqtt", status |-> status]
           t      == <<entry>>
<1>1. status \in Statuses
  BY DEF MqttStatus, Statuses
<1>2. status = "Skipped" => command = "check --skip-mqtt" \/ password = <<>>
  BY DEF MqttStatus
<1>3. report' = Append(report, entry) /\ command' = command /\ pc = "mqtt"
  BY DEF CheckMqtt, Report, GoTo
<1> HIDE DEF status
<1>4. /\ t \in Seq(Entries) /\ Len(t) = 1 /\ t[1].name = "mqtt" /\ t[1].status = status
  BY <1>1 DEF Entries
<1>5. report' = report \o t /\ Len(report) = 6 /\ report \in Seq(Entries) /\ command \in Checks
  BY <1>3 DEF ReportProgress
<1> HIDE DEF t, entry
<1>6. NextNames(report, t)
  <2>1. t[1].name = Order[7]
    BY <1>4, OrderAt
  <2>2. 7 = 6 + 1 /\ 6 \in Nat
    OBVIOUS
  <2> QED
    BY <1>4, <1>5, <2>1, <2>2, OneFollows
<1>7. password = <<>> => report[1].status = "Failure"
  BY <1>3, <1>5 DEF CredentialReported, Reporting
<1>8. ExplainedAfter(report, t, command)
  <2>1. t[1].status = "Skipped" =>
          (t[1].name = "mqtt" /\ command = "check --skip-mqtt") \/ report[1].status = "Failure"
    BY <1>2, <1>4, <1>7
  <2>2. Len(report) > 0
    BY <1>5
  <2> QED
    BY <1>4, <1>5, <2>1, <2>2, OneExplained
<1>9. /\ report' \in Seq(Entries) /\ NamesInOrder' /\ SkipsExplained'
      /\ Len(report') = Len(report) + Len(t) /\ \A i \in 1..Len(report) : report'[i] = report[i]
  BY <1>3, <1>4, <1>5, <1>6, <1>8, Extended
<1> QED
  BY <1>4, <1>5, <1>9

\* The report where it is not touched.
LEMMA ReportKept ==
  ASSUME ReportProgress, report' = report, command' = command
  PROVE  report' \in Seq(Entries) /\ NamesInOrder' /\ SkipsExplained'
  BY DEF ReportProgress, NamesInOrder, SkipsExplained

\* No report has been made yet.
LEMMA EmptyReport == <<>> \in Seq(Entries) /\ DOMAIN <<>> = {}
  OBVIOUS

HonestInv == ReportProgress /\ CredentialReported

\* A step that leaves the report and the command alone keeps the invariant if
\* the places it leads to ask for nothing new.
LEMMA HonestKept ==
  ASSUME HonestInv, report' = report, command' = command, password' = password,
         pc' \in {pc, "shell", "runtime", "service"}
  PROVE  HonestInv'
<1>1. report' \in Seq(Entries) /\ NamesInOrder' /\ SkipsExplained'
  BY ReportKept DEF HonestInv
<1> QED
  BY <1>1 DEF HonestInv, ReportProgress, CredentialReported, Reporting

\* Every step of a command keeps the report in step with where it is.
LEMMA HonestStep == HonestInv /\ [Next]_vars => HonestInv'
<1> SUFFICES ASSUME HonestInv, [Next]_vars PROVE HonestInv'
  OBVIOUS
<1> USE DEF hostVars, processVars
<1>0. ReportProgress /\ CredentialReported
  BY DEF HonestInv
<1>1. CASE HostChanges
  BY <1>1, HonestKept DEF HostChanges
<1>2. ASSUME NEW asked \in Commands, Run(asked) PROVE HonestInv'
  <2>1. report' = <<>> /\ password' = <<>> /\ pc' = "config metadata" /\ command' \in Commands
    BY <1>2 DEF Run
  <2>2. report' \in Seq(Entries) /\ NamesInOrder' /\ SkipsExplained'
    <3>1. report' \in Seq(Entries) /\ DOMAIN report' = {}
      BY <2>1, EmptyReport, Zenon
    <3> QED
      BY <3>1 DEF NamesInOrder, SkipsExplained
  <2> QED
    BY <2>1, <2>2 DEF HonestInv, ReportProgress, CredentialReported, Reporting
<1>3. CASE ConfigMetadata
  <2>1. report' = report /\ password' = password /\ command' = command
        /\ pc' \in {"shell", "config read"} /\ pc = "config metadata"
    BY <1>3 DEF ConfigMetadata, GoTo, Exit
  <2>2. report' \in Seq(Entries) /\ NamesInOrder' /\ SkipsExplained'
    BY <1>0, <2>1, ReportKept
  <2> QED
    BY <1>0, <2>1, <2>2 DEF HonestInv, ReportProgress, CredentialReported, Reporting
<1>4. CASE ConfigRead
  <2>1. report' = report /\ password' = password /\ command' = command
        /\ pc' \in {"shell", FirstStep} /\ pc = "config read"
    BY <1>4 DEF ConfigRead, GoTo, Exit
  <2>2. report' \in Seq(Entries) /\ NamesInOrder' /\ SkipsExplained'
    BY <1>0, <2>1, ReportKept
  <2> QED
    BY <1>0, <2>1, <2>2
       DEF HonestInv, ReportProgress, CredentialReported, Reporting, FirstStep, Checks
<1>5. ASSUME CredentialFailure, pc \in {"credential metadata", "credential read"} PROVE HonestInv'
  <2>1. report = <<>> /\ password = <<>> /\ command \in Commands /\ command # "print-once"
    BY <1>0, <1>5 DEF ReportProgress
  <2>2. CASE command = "daemon"
    BY <1>5, <2>2, HonestKept DEF CredentialFailure, Exit
  <2>3. CASE command # "daemon"
    <3>1. /\ pc' = "identity" /\ command' = command /\ password' = password
          /\ Report("credentials", "Failure")
      BY <1>5, <2>3 DEF CredentialFailure, GoTo
    <3>2. /\ report' \in Seq(Entries) /\ NamesInOrder' /\ SkipsExplained'
          /\ Len(report') = 1 /\ report'[1].status = "Failure"
      BY <1>0, <2>1, <3>1, CredentialEntry
    <3>3. command \in Checks
      BY <2>1, <2>3 DEF Commands, Checks
    <3> QED
      BY <2>1, <3>1, <3>2, <3>3 DEF HonestInv, ReportProgress, CredentialReported, Reporting
  <2> QED
    BY <2>2, <2>3
<1>6. CASE CredentialMetadata
  <2>1. CASE CredentialFailure
    BY <1>5, <1>6, <2>1 DEF CredentialMetadata
  <2>2. CASE GoTo("credential read") /\ UNCHANGED <<source, password, report>>
    <3>1. report' = report /\ password' = password /\ command' = command
          /\ pc' = "credential read" /\ pc = "credential metadata"
      BY <1>6, <2>2 DEF CredentialMetadata, GoTo
    <3>2. report' \in Seq(Entries) /\ NamesInOrder' /\ SkipsExplained'
      BY <1>0, <3>1, ReportKept
    <3> QED
      BY <1>0, <3>1, <3>2 DEF HonestInv, ReportProgress, CredentialReported, Reporting
  <2> QED
    BY <1>6, <2>1, <2>2 DEF CredentialMetadata
<1>7. CASE CredentialRead
  <2>1. CASE CredentialFailure
    BY <1>5, <1>7, <2>1 DEF CredentialRead
  <2>2. CASE /\ password' # <<>> /\ command = "daemon"
             /\ GoTo("collector") /\ UNCHANGED report
    <3>1. report' = report /\ command' = command /\ command = "daemon"
          /\ pc' = "collector" /\ pc = "credential read"
      BY <1>7, <2>2 DEF CredentialRead, GoTo
    <3>2. report' \in Seq(Entries) /\ NamesInOrder' /\ SkipsExplained'
      BY <1>0, <3>1, ReportKept
    <3> QED
      BY <1>0, <3>1, <3>2 DEF HonestInv, ReportProgress, CredentialReported, Reporting, Checks
  <2>3. CASE /\ password' # <<>> /\ command # "daemon"
             /\ GoTo("identity") /\ Report("credentials", "Pass")
    <3>1. /\ report = <<>> /\ command \in Commands /\ command # "print-once"
          /\ command' = command /\ pc' = "identity"
      BY <1>0, <1>7, <2>3 DEF ReportProgress, CredentialRead, GoTo
    <3>2. /\ report' \in Seq(Entries) /\ NamesInOrder' /\ SkipsExplained'
          /\ Len(report') = 1 /\ report'[1].status = "Pass"
      BY <1>0, <2>3, <3>1, CredentialEntry
    <3>3. command \in Checks
      BY <2>3, <3>1 DEF Commands, Checks
    <3> QED
      BY <2>3, <3>1, <3>2, <3>3 DEF HonestInv, ReportProgress, CredentialReported, Reporting
  <2> QED
    BY <1>7, <2>1, <2>2, <2>3 DEF CredentialRead, Usable
<1>8. ASSUME NEW identity \in Identities, CheckIdentityAndArchitecture(identity) PROVE HonestInv'
  <2>1. /\ report' \in Seq(Entries) /\ NamesInOrder' /\ SkipsExplained'
        /\ Len(report') = 3 /\ report'[1] = report[1]
    BY <1>0, <1>8, IdentityEntries
  <2>2. pc = "identity" /\ pc' = "collector" /\ command' = command /\ password' = password
    BY <1>8 DEF CheckIdentityAndArchitecture, GoTo
  <2> QED
    BY <1>0, <2>1, <2>2 DEF HonestInv, ReportProgress, CredentialReported, Reporting
<1>9. ASSUME NEW first \in {"Pass", "Warning", "Failure"},
             NEW second \in {"Pass", "Warning", "Skipped"}, NEW third \in {"Pass", "Warning", "Skipped"},
             "Skipped" \in {second, third} => first = "Failure",
             report' = report \o <<[name |-> "collector", status |-> first],
                                   [name |-> "metadata", status |-> second],
                                   [name |-> "power", status |-> third]>>,
             pc = "collector", pc' = "mqtt", command \in Checks, command' = command,
             password' = password
      PROVE  HonestInv'
  <2>1. /\ report' \in Seq(Entries) /\ NamesInOrder' /\ SkipsExplained'
        /\ Len(report') = 6 /\ report'[1] = report[1]
    BY <1>0, <1>9, CollectorEntries
  <2>2. pc = "collector" /\ pc' = "mqtt" /\ command' = command /\ password' = password
    BY <1>9
  <2> QED
    BY <1>0, <1>9, <2>1, <2>2 DEF HonestInv, ReportProgress, CredentialReported, Reporting
<1>10. ASSUME NEW errors \in SUBSET Metrics, NEW complete \in BOOLEAN,
              NEW flags \in {"now", "since boot", "clear"}, CheckSnapshot(errors, complete, flags)
       PROVE  HonestInv'
  <2> DEFINE first  == CollectorStatus(errors)
             second == IF complete THEN "Pass" ELSE "Warning"
             third  == PowerStatus(errors, flags)
  <2>1. first \in {"Pass", "Warning", "Failure"} /\ third \in {"Pass", "Warning", "Skipped"}
        /\ (third = "Skipped" => first = "Failure")
    BY StatusTypes
  <2>2. second \in {"Pass", "Warning"}
    OBVIOUS
  <2>3. /\ report' = report \o <<[name |-> "collector", status |-> first],
                                 [name |-> "metadata", status |-> second],
                                 [name |-> "power", status |-> third]>>
        /\ pc = "collector" /\ pc' = "mqtt" /\ command \in Checks /\ command' = command
        /\ password' = password
    BY <1>10 DEF CheckSnapshot, GoTo
  <2> HIDE DEF first, second, third
  <2> QED
    BY <1>9, <2>1, <2>2, <2>3
<1>11. CASE CheckNoCollector
  <2>1. /\ report' = report \o <<[name |-> "collector", status |-> "Failure"],
                                 [name |-> "metadata", status |-> "Skipped"],
                                 [name |-> "power", status |-> "Skipped"]>>
        /\ pc = "collector" /\ pc' = "mqtt" /\ command \in Checks /\ command' = command
        /\ password' = password
    BY <1>11 DEF CheckNoCollector, GoTo
  <2> QED
    BY <1>9, <2>1
<1>12. ASSUME NEW connected \in BOOLEAN, CheckMqtt(connected) PROVE HonestInv'
  <2>1. /\ report' \in Seq(Entries) /\ NamesInOrder' /\ SkipsExplained'
        /\ Len(report') = 7 /\ \A i \in 1..6 : report'[i] = report[i]
    BY <1>0, <1>12, MqttEntry
  <2>2. pc = "mqtt" /\ pc' = "report" /\ command' = command /\ password' = password
    BY <1>12 DEF CheckMqtt, GoTo
  <2> QED
    BY <1>0, <2>1, <2>2 DEF HonestInv, ReportProgress, CredentialReported, Reporting
<1>13. CASE PrintReport \/ StartCollector \/ \E serialized \in BOOLEAN : PrintOnce(serialized)
  BY <1>13, HonestKept DEF PrintReport, PrintOnce, StartCollector, GoTo, Exit
<1>14. CASE \/ \E built \in BOOLEAN : BuildRuntime(built)
            \/ \E code \in {SUCCESS, RUNTIME_ERROR} : ServiceEnds(code)
  BY <1>14, HonestKept DEF BuildRuntime, ServiceEnds, GoTo, Exit
<1>15. ASSUME NEW built \in BOOLEAN, BuildDiagnosticRuntime(built) PROVE HonestInv'
  <2>1. report' = report /\ password' = password /\ command' = command
        /\ pc' \in {"shell", "credential metadata"} /\ pc = "diagnostics"
    BY <1>15 DEF BuildDiagnosticRuntime, GoTo, Exit
  <2>2. report' \in Seq(Entries) /\ NamesInOrder' /\ SkipsExplained'
    BY <1>0, <2>1, ReportKept
  <2> QED
    BY <1>0, <2>1, <2>2 DEF HonestInv, ReportProgress, CredentialReported, Reporting
<1>16. CASE UNCHANGED vars
  BY <1>16, HonestKept DEF vars
<1> QED
  BY <1>1, <1>2, <1>3, <1>4, <1>6, <1>7, <1>8, <1>10, <1>11, <1>12, <1>13, <1>14, <1>15, <1>16
     DEF Next

LEMMA HonestInit == Init => HonestInv
<1> SUFFICES ASSUME Init PROVE HonestInv
  OBVIOUS
<1>1. report = <<>> /\ pc = "shell" /\ command \in Commands
  BY DEF Init, Commands
<1>2. report \in Seq(Entries) /\ NamesInOrder /\ SkipsExplained
  BY <1>1 DEF NamesInOrder, SkipsExplained
<1> QED
  BY <1>1, <1>2 DEF HonestInv, ReportProgress, CredentialReported, Reporting

\* Whatever the host looks like and however it changes under the check, the
\* report of run_checks has every entry in its place, and an entry that was
\* skipped was not wanted or follows the failure that explains it.
THEOREM ReportsHonest == Spec => []ReportHonest
<1>1. HonestInv => ReportHonest
  BY OrderAt DEF HonestInv, ReportProgress, NamesInOrder, SkipsExplained, ReportHonest
<1> QED
  BY HonestInit, HonestStep, <1>1, PTL DEF Spec

-----------------------------------------------------------------------------
(***************************************************************************)
(* The check foretells the start.  As long as the host has not changed     *)
(* since the process began, which is so while checked is not "no", where   *)
(* the process is says what the host has.                                  *)
(***************************************************************************)
\* What Config::load, MqttCredentials::load and Collector::new ask of the host.
ConfigLooks == LooksRight(config, config.size, MaxConfigBytes)

ConfigGood == ConfigLooks /\ config.kind = "file" /\ Parses(config)

SecretLooks == LooksRight(secret, Len(secret.text), MaxPasswordBytes) /\ secret.private

SecretGood ==
  /\ SecretLooks /\ secret.kind = "file"
  /\ "invalid" \notin ToSet(secret.text) /\ Usable(WithoutLineEnding(secret.text))

ToolGood == ResolveVcgencmd(tools) # "none"

HostKnown ==
  /\ pc = "config read" => ConfigLooks
  /\ pc \in {"diagnostics", "credential metadata", "credential read", "identity", "collector",
             "mqtt", "report", "runtime", "service"} => ConfigGood
  /\ pc = "diagnostics" => command # "daemon"
  /\ pc = "credential read" => SecretLooks
  /\ command = "daemon" /\ pc \in {"collector", "runtime", "service"} => SecretGood
  /\ pc \in {"runtime", "service"} => ToolGood
  /\ Reporting => (report[1].status = "Failure" <=> ~SecretGood)
  /\ pc \in {"mqtt", "report"} =>
       /\ report[5].status = "Skipped" <=> ~ToolGood
       /\ ~ToolGood => report[4].status = "Failure"

\* What the last check said of the host, and a start of the daemon since.
Foretold ==
  /\ checked = "passed" => ConfigGood /\ SecretGood /\ ToolGood
  /\ checked = "blocked" => ~(SecretGood /\ ToolGood)
  /\ checked = "passed" /\ command = "daemon" /\ exit # NoExit => cause \in {"runtime", "service"}

CheckedInv ==
  /\ checked # "no" => HostKnown
  /\ Foretold
  /\ pc \in {"runtime", "service"} => command = "daemon"
  /\ checked \in {"no", "running", "passed", "blocked"}

\* On a host that stays as it is, what the files are good for stays as well.
SameHost ==
  /\ ConfigLooks' <=> ConfigLooks
  /\ ConfigGood' <=> ConfigGood
  /\ SecretLooks' <=> SecretLooks
  /\ SecretGood' <=> SecretGood
  /\ ToolGood' <=> ToolGood

LEMMA HostKept ==
  ASSUME UNCHANGED hostVars
  PROVE  SameHost
<1>1. config' = config /\ secret' = secret /\ tools' = tools
  BY DEF hostVars
<1> QED
  BY <1>1 DEF SameHost, ConfigLooks, ConfigGood, SecretGood, SecretLooks, ToolGood

LEMMA GoodLooks == (ConfigGood => ConfigLooks) /\ (SecretGood => SecretLooks)
  BY DEF ConfigGood, ConfigLooks, SecretGood

\* A step that neither adds to the report nor gets further keeps the invariant,
\* if it ends the daemon only as foretold.
LEMMA CheckedKept ==
  ASSUME CheckedInv, SameHost, report' = report, command' = command, checked' = checked,
         pc' \in {pc, "shell"},
         UNCHANGED <<exit, cause>> \/ checked # "passed" \/ command # "daemon"
           \/ cause' \in {"runtime", "service"}
  PROVE  CheckedInv'
  BY DEF CheckedInv, HostKnown, Foretold, SameHost, Reporting

\* Every step keeps it.
LEMMA CheckedStep == HonestInv /\ CheckedInv /\ [Next]_vars => CheckedInv'
<1> SUFFICES ASSUME HonestInv, CheckedInv, [Next]_vars PROVE CheckedInv'
  OBVIOUS
<1>0. ReportProgress /\ CredentialReported
  BY DEF HonestInv
<1>1. CASE HostChanges
  BY <1>1 DEF HostChanges, processVars, CheckedInv, Foretold
<1>2. ASSUME NEW asked \in Commands, Run(asked) PROVE CheckedInv'
  <2>1. SameHost
    BY <1>2, HostKept DEF Run
  <2>2. pc' = "config metadata" /\ exit' = NoExit /\ checked' \in {checked, "running"}
    BY <1>2 DEF Run
  <2> QED
    BY <2>1, <2>2 DEF SameHost, CheckedInv, HostKnown, Foretold, Reporting
<1>3. CASE ConfigMetadata
  <2>1. SameHost
    BY <1>3, HostKept DEF ConfigMetadata
  <2>2. pc = "config metadata" /\ report' = report /\ command' = command /\ checked' = checked
    BY <1>3 DEF ConfigMetadata, GoTo, Exit
  <2>3. CASE ConfigLooks
    <3>1. pc' = "config read" /\ exit' = exit /\ cause' = cause
      BY <1>3, <2>3 DEF ConfigMetadata, ConfigLooks, GoTo
    <3> QED
      BY <2>1, <2>2, <2>3, <3>1 DEF SameHost, CheckedInv, HostKnown, Foretold, Reporting
  <2>4. CASE ~ConfigLooks
    <3>1. pc' = "shell" /\ checked # "passed"
      BY <1>3, <2>4, GoodLooks DEF ConfigMetadata, ConfigLooks, Exit, CheckedInv, Foretold
    <3> QED
      BY <2>1, <2>2, <3>1, CheckedKept
  <2> QED
    BY <2>3, <2>4
<1>4. CASE ConfigRead
  <2>1. SameHost
    BY <1>4, HostKept DEF ConfigRead
  <2>2. pc = "config read" /\ report' = report /\ command' = command /\ checked' = checked
    BY <1>4 DEF ConfigRead, GoTo, Exit
  <2>3. CASE config.kind = "file" /\ Parses(config)
    <3>1. pc' = FirstStep /\ exit' = exit /\ cause' = cause
      BY <1>4, <2>3 DEF ConfigRead, GoTo
    <3>2. checked # "no" => ConfigGood
      BY <2>2, <2>3 DEF CheckedInv, HostKnown, ConfigGood
    <3>3. \/ FirstStep = "credential metadata"
          \/ FirstStep = "diagnostics" /\ command # "daemon"
          \/ FirstStep = "collector" /\ command = "print-once"
      BY DEF FirstStep, Checks
    <3> QED
      BY <2>1, <2>2, <3>1, <3>2, <3>3
         DEF SameHost, CheckedInv, HostKnown, Foretold, Reporting, Checks
  <2>4. CASE ~(config.kind = "file" /\ Parses(config))
    <3>1. pc' = "shell" /\ checked # "passed"
      BY <1>4, <2>4 DEF ConfigRead, ConfigGood, Exit, CheckedInv, Foretold
    <3> QED
      BY <2>1, <2>2, <3>1, CheckedKept
  <2> QED
    BY <2>3, <2>4
<1>5. ASSUME CredentialFailure, pc \in {"credential metadata", "credential read"},
             ~SecretGood, SameHost, checked' = checked
      PROVE  CheckedInv'
  <2>1. CASE command = "daemon"
    <3>1. pc' = "shell" /\ report' = report /\ command' = command /\ checked # "passed"
      BY <1>5, <2>1 DEF CredentialFailure, Exit, CheckedInv, Foretold
    <3> QED
      BY <1>5, <3>1, CheckedKept
  <2>2. CASE command # "daemon"
    <3>1. /\ pc' = "identity" /\ command' = command /\ exit' = exit /\ cause' = cause
          /\ report = <<>> /\ Report("credentials", "Failure")
      BY <1>0, <1>5, <2>2 DEF CredentialFailure, GoTo, ReportProgress
    <3>2. report'[1].status = "Failure"
      BY <1>0, <3>1, CredentialEntry
    <3> QED
      BY <1>5, <2>2, <3>1, <3>2 DEF SameHost, CheckedInv, HostKnown, Foretold, Reporting
  <2> QED
    BY <2>1, <2>2
<1>6. CASE CredentialMetadata
  <2>1. SameHost /\ checked' = checked /\ pc = "credential metadata"
    BY <1>6, HostKept DEF CredentialMetadata
  <2>2. CASE SecretLooks
    <3>1. pc' = "credential read" /\ command' = command /\ exit' = exit /\ cause' = cause
      BY <1>6, <2>2 DEF CredentialMetadata, SecretLooks, GoTo
    <3> QED
      BY <2>1, <2>2, <3>1 DEF SameHost, CheckedInv, HostKnown, Foretold, Reporting
  <2>3. CASE ~SecretLooks
    BY <1>5, <1>6, <2>1, <2>3, GoodLooks DEF CredentialMetadata, SecretLooks
  <2> QED
    BY <2>2, <2>3
<1>7. CASE CredentialRead
  <2> DEFINE good == /\ secret.kind = "file" /\ "invalid" \notin ToSet(secret.text)
                     /\ Usable(WithoutLineEnding(secret.text))
  <2>1. SameHost /\ checked' = checked /\ pc = "credential read"
    BY <1>7, HostKept DEF CredentialRead
  <2>2. CASE ~good
    BY <1>5, <1>7, <2>1, <2>2 DEF CredentialRead, SecretGood
  <2>3. CASE good
    <3>1. checked # "no" => SecretGood
      BY <2>1, <2>3 DEF CheckedInv, HostKnown, SecretGood
    <3>2. CASE command = "daemon"
      <4>1. pc' = "collector" /\ command' = command /\ exit' = exit /\ cause' = cause
        BY <1>7, <2>3, <3>2 DEF CredentialRead, GoTo
      <4> QED
        BY <2>1, <3>1, <3>2, <4>1 DEF SameHost, CheckedInv, HostKnown, Foretold, Reporting, Checks
    <3>3. CASE command # "daemon"
      <4>1. /\ pc' = "identity" /\ command' = command /\ exit' = exit /\ cause' = cause
            /\ report = <<>> /\ Report("credentials", "Pass")
        BY <1>0, <1>7, <2>3, <3>3 DEF CredentialRead, GoTo, ReportProgress
      <4>2. report'[1].status = "Pass"
        BY <1>0, <4>1, CredentialEntry
      <4> QED
        BY <2>1, <3>1, <3>3, <4>1, <4>2 DEF SameHost, CheckedInv, HostKnown, Foretold, Reporting
    <3> QED
      BY <3>2, <3>3
  <2> QED
    BY <2>2, <2>3
<1>8. ASSUME NEW identity \in Identities, CheckIdentityAndArchitecture(identity) PROVE CheckedInv'
  <2>1. report'[1] = report[1]
    BY <1>0, <1>8, IdentityEntries
  <2>2. /\ pc = "identity" /\ pc' = "collector" /\ command' = command /\ exit' = exit
        /\ cause' = cause /\ checked' = checked /\ SameHost
    BY <1>8, HostKept DEF CheckIdentityAndArchitecture, GoTo
  <2>3. command \in Checks /\ command # "daemon"
    BY <1>0, <2>2 DEF ReportProgress, Checks
  <2> QED
    BY <2>1, <2>2, <2>3 DEF SameHost, CheckedInv, HostKnown, Foretold, Reporting
<1>9. ASSUME NEW first \in {"Pass", "Warning", "Failure"},
             NEW second \in {"Pass", "Warning", "Skipped"}, NEW third \in {"Pass", "Warning", "Skipped"},
             "Skipped" \in {second, third} => first = "Failure",
             report' = report \o <<[name |-> "collector", status |-> first],
                                   [name |-> "metadata", status |-> second],
                                   [name |-> "power", status |-> third]>>,
             pc = "collector", GoTo("mqtt"), command \in Checks, checked' = checked, SameHost,
             second = "Skipped" <=> ~ToolGood
      PROVE  CheckedInv'
  <2>1. pc' = "mqtt" /\ command' = command /\ exit' = exit /\ cause' = cause
    BY <1>9 DEF GoTo
  <2>2. report'[1] = report[1] /\ report'[4].status = first /\ report'[5].status = second
    BY <1>0, <1>9, <2>1, CollectorEntries
  <2>3. second = "Skipped" => first = "Failure"
    BY <1>9
  <2>4. command \in Checks /\ pc = "collector" /\ SameHost /\ checked' = checked
        /\ (second = "Skipped" <=> ~ToolGood)
    BY <1>9
  <2> QED
    BY <2>1, <2>2, <2>3, <2>4 DEF SameHost, CheckedInv, HostKnown, Foretold, Reporting
<1>10. ASSUME NEW errors \in SUBSET Metrics, NEW complete \in BOOLEAN,
              NEW flags \in {"now", "since boot", "clear"}, CheckSnapshot(errors, complete, flags)
       PROVE  CheckedInv'
  <2> DEFINE first  == CollectorStatus(errors)
             second == IF complete THEN "Pass" ELSE "Warning"
             third  == PowerStatus(errors, flags)
  <2>1. first \in {"Pass", "Warning", "Failure"} /\ third \in {"Pass", "Warning", "Skipped"}
        /\ (third = "Skipped" => first = "Failure")
    BY StatusTypes
  <2>2. second \in {"Pass", "Warning"}
    OBVIOUS
  <2>3. /\ report' = report \o <<[name |-> "collector", status |-> first],
                                 [name |-> "metadata", status |-> second],
                                 [name |-> "power", status |-> third]>>
        /\ pc = "collector" /\ GoTo("mqtt") /\ command \in Checks /\ checked' = checked
        /\ SameHost /\ ToolGood
    BY <1>10, HostKept DEF CheckSnapshot, ToolGood
  <2> HIDE DEF first, second, third
  <2> QED
    BY <1>9, <2>1, <2>2, <2>3
<1>11. CASE CheckNoCollector
  <2>1. /\ report' = report \o <<[name |-> "collector", status |-> "Failure"],
                                 [name |-> "metadata", status |-> "Skipped"],
                                 [name |-> "power", status |-> "Skipped"]>>
        /\ pc = "collector" /\ GoTo("mqtt") /\ command \in Checks /\ checked' = checked
        /\ SameHost /\ ~ToolGood
    BY <1>11, HostKept DEF CheckNoCollector, ToolGood
  <2> QED
    BY <1>9, <2>1
<1>12. ASSUME NEW connected \in BOOLEAN, CheckMqtt(connected) PROVE CheckedInv'
  <2>1. \A i \in 1..6 : report'[i] = report[i]
    BY <1>0, <1>12, MqttEntry
  <2>2. report'[1] = report[1] /\ report'[4] = report[4] /\ report'[5] = report[5]
    BY <2>1
  <2>3. /\ pc = "mqtt" /\ pc' = "report" /\ command' = command /\ exit' = exit
        /\ cause' = cause /\ checked' = checked /\ SameHost
    BY <1>12, HostKept DEF CheckMqtt, GoTo
  <2>4. command \in Checks /\ command # "daemon"
    BY <1>0, <2>3 DEF ReportProgress, Checks
  <2> QED
    BY <2>2, <2>3, <2>4 DEF SameHost, CheckedInv, HostKnown, Foretold, Reporting
<1>13. CASE PrintReport
  <2>1. /\ pc = "report" /\ pc' = "shell" /\ command' = command /\ SameHost
        /\ checked' = IF checked = "running" THEN Verdict ELSE "no"
    BY <1>13, HostKept DEF PrintReport, Exit
  <2>2. command \in Checks /\ command # "daemon" /\ report \in Seq(Entries) /\ Len(report) = 7
    BY <1>0, <2>1 DEF ReportProgress, Checks
  <2>3. DOMAIN report = 1..7
    BY <2>2
  <2>4. 1 \in DOMAIN report /\ 4 \in DOMAIN report
    BY <2>3
  <2>5. ~HasFailures => report[1].status # "Failure" /\ report[4].status # "Failure"
    BY <2>4 DEF HasFailures
  <2>6. Verdict \in {"passed", "blocked", "no"}
        /\ (Verdict = "passed" => ~HasFailures)
        /\ (Verdict = "blocked" => report[1].status = "Failure" \/ report[5].status = "Skipped")
    BY DEF Verdict
  <2>7. checked = "running" => HostKnown
    BY DEF CheckedInv
  <2>8. /\ checked = "running" /\ Verdict = "passed" => ConfigGood /\ SecretGood /\ ToolGood
        /\ checked = "running" /\ Verdict = "blocked" => ~(SecretGood /\ ToolGood)
    BY <2>1, <2>2, <2>5, <2>6, <2>7 DEF HostKnown, Reporting
  <2> QED
    BY <2>1, <2>2, <2>6, <2>8 DEF SameHost, CheckedInv, HostKnown, Foretold, Reporting
<1>14. ASSUME NEW serialized \in BOOLEAN, PrintOnce(serialized) PROVE CheckedInv'
  <2>1. /\ pc' = "shell" /\ command' = command /\ report' = report /\ checked' = checked
        /\ command # "daemon" /\ SameHost
    BY <1>14, HostKept DEF PrintOnce, Exit
  <2> QED
    BY <2>1, CheckedKept
<1>15. CASE StartCollector
  <2>1. /\ pc = "collector" /\ command = "daemon" /\ command' = command /\ report' = report
        /\ checked' = checked /\ SameHost
    BY <1>15, HostKept DEF StartCollector, GoTo, Exit
  <2>2. CASE ToolGood
    <3>1. pc' = "runtime" /\ exit' = exit /\ cause' = cause
      BY <1>15, <2>2 DEF StartCollector, ToolGood, GoTo
    <3> QED
      BY <2>1, <2>2, <3>1 DEF SameHost, CheckedInv, HostKnown, Foretold, Reporting, Checks
  <2>3. CASE ~ToolGood
    <3>1. pc' = "shell" /\ checked # "passed"
      BY <1>15, <2>3 DEF StartCollector, ToolGood, Exit, CheckedInv, Foretold
    <3> QED
      BY <2>1, <3>1, CheckedKept
  <2> QED
    BY <2>2, <2>3
<1>16. ASSUME NEW built \in BOOLEAN, BuildRuntime(built) PROVE CheckedInv'
  <2>1. /\ pc = "runtime" /\ command' = command /\ report' = report /\ checked' = checked /\ SameHost
    BY <1>16, HostKept DEF BuildRuntime, GoTo, Exit
  <2>2. \/ pc' = "service" /\ exit' = exit /\ cause' = cause
        \/ pc' = "shell" /\ cause' = "runtime"
    BY <1>16 DEF BuildRuntime, GoTo, Exit
  <2> QED
    BY <2>1, <2>2 DEF SameHost, CheckedInv, HostKnown, Foretold, Reporting
<1>17. ASSUME NEW code \in {SUCCESS, RUNTIME_ERROR}, ServiceEnds(code) PROVE CheckedInv'
  <2>1. /\ pc' = "shell" /\ command' = command /\ report' = report /\ checked' = checked
        /\ cause' = "service" /\ SameHost
    BY <1>17, HostKept DEF ServiceEnds, Exit
  <2> QED
    BY <2>1, CheckedKept
<1>18. ASSUME NEW built \in BOOLEAN, BuildDiagnosticRuntime(built) PROVE CheckedInv'
  <2>1. /\ pc = "diagnostics" /\ command' = command /\ report' = report /\ checked' = checked
        /\ SameHost
    BY <1>18, HostKept DEF BuildDiagnosticRuntime, GoTo, Exit
  <2>2. \/ pc' = "credential metadata" /\ exit' = exit /\ cause' = cause
        \/ pc' = "shell" /\ cause' = "runtime"
    BY <1>18 DEF BuildDiagnosticRuntime, GoTo, Exit
  <2> QED
    BY <2>1, <2>2 DEF SameHost, CheckedInv, HostKnown, Foretold, Reporting
<1>19. CASE UNCHANGED vars
  <2>1. /\ pc' = pc /\ command' = command /\ report' = report /\ checked' = checked
        /\ UNCHANGED <<exit, cause>> /\ SameHost
    BY <1>19, HostKept DEF vars, processVars
  <2> QED
    BY <2>1, CheckedKept
<1> QED
  BY <1>1, <1>2, <1>3, <1>4, <1>6, <1>7, <1>8, <1>10, <1>11, <1>12, <1>13, <1>14, <1>15, <1>16,
     <1>17, <1>18, <1>19 DEF Next

\* On a host that did not change, for any limits and contents of the files: what
\* `check` reported of configuration, credential and collector decides whether
\* daemon::run gets to the service.
THEOREM CheckForetells == Spec => []StartAsChecked
<1>1. Init => CheckedInv
  BY DEF Init, CheckedInv, Foretold
<1>2. CheckedInv => StartAsChecked
  <2> SUFFICES ASSUME CheckedInv, command = "daemon", pc \in {"shell", "service"}
               PROVE  /\ checked = "passed" /\ exit # NoExit => cause \in {"runtime", "service"}
                      /\ checked = "blocked" => pc # "service"
    BY DEF StartAsChecked
  <2>1. checked = "passed" /\ exit # NoExit => cause \in {"runtime", "service"}
    BY DEF CheckedInv, Foretold
  <2>2. checked = "blocked" => pc # "service"
    BY DEF CheckedInv, Foretold, HostKnown
  <2> QED
    BY <2>1, <2>2
<1> QED
  BY HonestInit, HonestStep, <1>1, CheckedStep, <1>2, PTL DEF Spec
=============================================================================
