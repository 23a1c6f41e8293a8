----------------------------- MODULE PanelPages -----------------------------
(***************************************************************************)
(* The pages of the panel: the module registry, the calls each page makes  *)
(* to the agent before it renders, and what each page derives from the     *)
(* answers: rows, counts, verdicts and amounts.  Copy and layout are left  *)
(* out.                                                                    *)
(***************************************************************************)
EXTENDS Naturals, Sequences, FiniteSets

(* Calls of agent-client.ts that only read.                                *)
Reads == {"setup", "status", "overview", "jobs", "audit", "logs", "settings", "services"}

Foundation == {"dashboard", "hardware", "services", "logs", "audit", "settings"}

Scaffold == {"metrics", "containers", "apps", "databases", "firewall", "wireguard", "terminal",
             "files", "sites", "cron", "backups", "diagnostics", "updates", "kernel", "storage",
             "alerts", "tokens"}

Modules == Foundation \cup Scaffold

(* The lanes of a module's page, in the order of the registry.             *)
LaneKinds(module) ==
  CASE module \in {"dashboard", "hardware", "containers", "apps", "terminal"} -> <<"overview", "safety", "actions">>
    [] module = "services" -> <<"actions", "overview", "safety">>
    [] module = "logs" -> <<"overview", "overview", "safety">>
    [] OTHER -> <<"overview", "actions", "safety">>

(* What a lane of a module page claims about its delivery.                 *)
DeliveryState(module, kind) ==
  CASE module \in Foundation /\ kind = "actions" -> "audited live path"
    [] module \in Foundation /\ kind # "actions" -> "live surface"
    [] module \notin Foundation /\ kind = "actions" -> "awaiting verbs"
    [] module \notin Foundation /\ kind # "actions" -> "blueprint ready"

LaneLabel(kind) ==
  CASE kind = "overview" -> "Visibility"
    [] kind = "actions" -> "Mutation path"
    [] OTHER -> "Guardrail"

Lane(module, index) ==
  LET kind == LaneKinds(module)[index]
  IN [number |-> index, label |-> LaneLabel(kind), state |-> DeliveryState(module, kind)]

(* The shell's rail: the links of the two sections.                        *)
CoreLinks == Modules \cap Foundation
ExpansionLinks == Modules \ Foundation

(* A link is marked for its own path and for what lies under it; a path is *)
(* the sequence of its segments.                                           *)
Active(module, path) == Len(path) > 0 /\ path[1] = module

(* The shell's layout reads the agent besides checking the session.        *)
LayoutReads == {"status", "overview"}

(* What a page reads before it renders: any failure is the page's failure. *)
DashboardReads == {"status", "jobs", "audit", "overview"}
HardwareReads == {"overview"}
LogsReads == {"logs"}
AuditReads == {"audit"}
ServicesReads == {"services"}
SettingsReads == {"settings"}
ScaffoldReads == {"status", "overview", "jobs", "audit"}

PageReads(module) ==
  CASE module = "dashboard" -> DashboardReads
    [] module = "hardware" -> HardwareReads
    [] module = "logs" -> LogsReads
    [] module = "audit" -> AuditReads
    [] module = "services" -> ServicesReads
    [] module = "settings" -> SettingsReads
    [] OTHER -> ScaffoldReads

-----------------------------------------------------------------------------
(* The formatters of the pages.                                            *)
Minute == 60
Hour == 60 * Minute
Day == 24 * Hour

Uptime(seconds) ==
  LET days == seconds \div Day
      hours == (seconds % Day) \div Hour
      minutes == (seconds % Hour) \div Minute
  IN CASE days > 0 -> [days |-> days, hours |-> hours, minutes |-> 0]
       [] days = 0 /\ hours > 0 -> [days |-> 0, hours |-> hours, minutes |-> minutes]
       [] OTHER -> [days |-> 0, hours |-> 0, minutes |-> minutes]

(* Log lines and hashes are cut and marked.                                *)
Ellipsis == <<".", ".", ".">>
Truncate(value, maxLength) ==
  IF Len(value) <= maxLength THEN value ELSE SubSeq(value, 1, maxLength) \o Ellipsis

Kilo == 1024
Mega == 1024 * Kilo
Giga == 1024 * Mega

(* The largest unit not above the value, and no larger than a terabyte.    *)
Unit(value) ==
  CASE value < Kilo -> 1
    [] value >= Kilo /\ value < Mega -> Kilo
    [] value >= Mega /\ value < Giga -> Mega
    [] value >= Giga /\ value \div Giga < Kilo -> Giga
    [] OTHER -> Kilo * Giga

(* Whole units, or tenths of them below ten; toFixed rounds a half up.     *)
FormatBytes(value) ==
  LET unit == Unit(value)
      parts == IF value >= 10 * unit \/ unit = 1 THEN 1 ELSE 10
  IN [amount |-> (2 * parts * value + unit) \div (2 * unit), parts |-> parts, unit |-> unit]

(* Amounts as a reader compares them: by their unit, then by their digits. *)
Tenths(shown) == shown.amount * (10 \div shown.parts)
NotAbove(one, other) ==
  IF one.unit = other.unit THEN Tenths(one) <= Tenths(other)
  ELSE one.unit < other.unit /\ Tenths(one) <= Tenths(other) * Kilo

-----------------------------------------------------------------------------
(* What the pages show.                                                    *)
Or(value, fallback) == IF value = "" THEN fallback ELSE value

(* The agent lists jobs and audit entries newest first, up to the limit    *)
(* that the page asks for.                                                 *)
Newest(list, limit) == SubSeq(list, 1, IF Len(list) < limit THEN Len(list) ELSE limit)

UsedOf(usage) == [used |-> FormatBytes(usage.used), total |-> FormatBytes(usage.total)]
Space(usage) == [used |-> FormatBytes(usage.used), free |-> FormatBytes(usage.free), total |-> FormatBytes(usage.total)]
Interface(item) == [name |-> item.name, sent |-> FormatBytes(item.sent), received |-> FormatBytes(item.received)]
Event(entry) == [action |-> entry.action, actor |-> Or(entry.actor, "system"), resource |-> Or(entry.resource, "system")]

DashboardPage(status, overview, jobs, entries, brokenAt) ==
  [host |-> Or(overview.hostname, status.service),
   memory |-> UsedOf(overview.memory),
   mounts |-> [i \in DOMAIN overview.mounts |-> [path |-> overview.mounts[i].path, space |-> UsedOf(overview.mounts[i])]],
   network |-> [i \in DOMAIN overview.interfaces |-> Interface(overview.interfaces[i])],
   jobs |-> Newest(jobs, 5),
   audit |-> [i \in DOMAIN Newest(entries, 5) |-> [Event(entries[i]) EXCEPT !.actor = entries[i].actor]],
   brokenAt |-> brokenAt]

HardwarePage(overview) ==
  [host |-> Or(overview.hostname, "Unknown host"),
   uptime |-> Uptime(overview.uptime),
   virtualization |-> Or(overview.virtualization, "Bare metal or unknown hypervisor"),
   memory |-> Space(overview.memory),
   swap |-> Space(overview.swap),
   mounts |-> [i \in DOMAIN overview.mounts |-> [path |-> overview.mounts[i].path, space |-> Space(overview.mounts[i])]],
   interfaces |-> [i \in DOMAIN overview.interfaces |-> Interface(overview.interfaces[i])]]

Hash(value) == IF value = <<>> THEN "n/a" ELSE Truncate(value, 18)

AuditRow(entry) ==
  [id |-> entry.id, event |-> Event(entry), kind |-> entry.kind, result |-> entry.result,
   source |-> Or(entry.source, "unknown"), job |-> Or(entry.job, "n/a"),
   hmac |-> Hash(entry.hmac), prev |-> Hash(entry.prev), payload |-> entry.before \/ entry.after]

(* The verdict is on the whole chain, the counts on the entries shown.     *)
AuditPage(entries, brokenAt) ==
  LET items == Newest(entries, 50)
  IN [intact |-> brokenAt = 0,
      visible |-> Len(items),
      actors |-> Cardinality({Or(items[i].actor, "system") : i \in 1 .. Len(items)}),
      failed |-> Cardinality({i \in 1 .. Len(items) : items[i].result # "ok"}),
      rows |-> [i \in DOMAIN items |-> AuditRow(items[i])]]

LogSection(section) ==
  [id |-> section.id, count |-> Len(section.lines), notice |-> section.notice,
   raw |-> [i \in DOMAIN section.lines |-> Truncate(section.lines[i], 800)]]

LogsPage(sections) ==
  LET lines == UNION {{i} \X (1 .. Len(sections[i].lines)) : i \in 1 .. Len(sections)}
  IN [active |-> Cardinality({line[1] : line \in lines}),
      sources |-> Len(sections),
      total |-> Cardinality(lines),
      attention |-> \E i \in 1 .. Len(sections) :
                      /\ sections[i].id = "control-plane" /\ sections[i].notice # ""
                      /\ \A j \in 1 .. i - 1 : sections[j].id # "control-plane",
      sections |-> [i \in DOMAIN sections |-> LogSection(sections[i])]]

Stage(module) ==
  IF module \in Foundation THEN [label |-> "Agent-backed", percent |-> 78]
  ELSE [label |-> "Design locked", percent |-> 46]

ModulePage(module, status, overview, jobs, entries, brokenAt) ==
  [stage |-> Stage(module),
   lanes |-> [i \in 1 .. Len(LaneKinds(module)) |-> Lane(module, i)],
   host |-> Or(overview.hostname, status.service),
   memory |-> UsedOf(overview.memory),
   uptime |-> Uptime(overview.uptime),
   kernel |-> Or(overview.kernel, "unknown kernel"),
   operators |-> status.operators,
   storage |-> <<Len(overview.mounts), Len(overview.interfaces)>>,
   jobs |-> Newest(jobs, 5),
   audit |-> [i \in DOMAIN Newest(entries, 4) |-> Event(entries[i])],
   sampled |-> <<Len(Newest(entries, 4)), brokenAt>>]

(* The frame of every page.                                                *)
PanelShell(status, overview, operator, path) ==
  [role |-> operator.role, identity |-> operator.name,
   host |-> Or(overview.hostname, status.service),
   kernel |-> Or(overview.kernel, "unknown"),
   uptime |-> Uptime(overview.uptime),
   operators |-> status.operators, modules |-> status.modules, jobs |-> Len(status.jobs),
   initialized |-> status.initialized,
   links |-> <<CoreLinks, ExpansionLinks>>,
   marked |-> {module \in Modules : Active(module, path)}]
=============================================================================
