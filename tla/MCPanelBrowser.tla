--------------------------- MODULE MCPanelBrowser ---------------------------
(* Two tabs, two sessions, two pages of the panel, one stop of the agent;  *)
(* and what the pages derive from the agent's answers, on bounded inputs.  *)
EXTENDS PanelBrowser

TwoPages == {"dashboard", "services"}
NoSystemd == {"services"}

-----------------------------------------------------------------------------
(* Amounts around every boundary of formatBytes below half a gigabyte.     *)
Near(value) == {value - 1, value, value + 1}
Amounts ==
  1 .. 60 \cup UNION {Near(n * unit + part * (unit \div 20)) :
                        n \in {1, 2, 9, 10, 11, 99, 512}, part \in {0, 1, 19}, unit \in {Kilo, Mega}}
          \cup Near(Mega) \cup Near(Mega - Kilo \div 2)

(* The amount shown is the one nearest to the value in the unit shown,     *)
(* with tenths exactly below ten units; the unit is the largest that fits. *)
Nearest(value, shown) ==
  /\ shown.unit \in {1, Kilo, Mega}
  /\ shown.unit <= value /\ value \div shown.unit < Kilo
  /\ shown.parts = 10 <=> shown.unit # 1 /\ value \div shown.unit < 10
  /\ \E exact \in {value * shown.parts} :
       /\ 2 * exact <= 2 * shown.amount * shown.unit + shown.unit
       /\ 2 * shown.amount * shown.unit < 2 * exact + shown.unit + 1

ASSUME AmountsAreNearest == \A value \in Amounts : Nearest(value, FormatBytes(value))

(* In the order of two values the pages never show the larger one smaller. *)
ASSUME AmountsAreOrdered ==
  \A one, other \in Amounts : one <= other => NotAbove(FormatBytes(one), FormatBytes(other))

(* An uptime reads back to its seconds but for what is left out.           *)
ASSUME UptimesReadBack ==
  \A days \in {0, 1, 2}, hours \in {0, 1, 23}, minutes \in {0, 1, 59}, seconds \in {0, 59} :
    Uptime(days * Day + hours * Hour + minutes * Minute + seconds) =
      [days |-> days, hours |-> hours, minutes |-> IF days = 0 THEN minutes ELSE 0]

-----------------------------------------------------------------------------
(* Audit entries as the agent lists them, and snapshots of the log.        *)
Entry(id, actor, result) ==
  [id |-> id, action |-> "service.restart", actor |-> actor, kind |-> "", resource |-> "", result |-> result,
   source |-> "", job |-> "", hmac |-> [i \in 1 .. 64 |-> "h"], prev |-> <<>>, before |-> FALSE, after |-> TRUE]
Trails == UNION {[1 .. n -> {Entry(1, "", "ok"), Entry(2, "system", "error"), Entry(3, "ada", "ok")}] : n \in 0 .. 3}

RECURSIVE CountFailed(_)
CountFailed(trail) ==
  IF trail = <<>> THEN 0 ELSE CountFailed(Tail(trail)) + IF Head(trail).result = "ok" THEN 0 ELSE 1

(* The page counts what it shows: an entry without an actor is the         *)
(* system's, also when another entry names the system.                     *)
ASSUME AuditPageCounts ==
  \A trail \in Trails : \A brokenAt \in {0, 2} :
    LET page == AuditPage(trail, brokenAt) IN
    /\ page.intact <=> brokenAt = 0
    /\ page.failed = CountFailed(trail)
    /\ page.actors = Cardinality({page.rows[i].event.actor : i \in 1 .. page.visible})
    /\ \A i \in 1 .. page.visible : Len(page.rows[i].hmac) = 21 /\ page.rows[i].prev = "n/a"

ASSUME AuditPageIsCapped ==
  LET page == AuditPage([i \in 1 .. 60 |-> Entry(i, "ada", "error")], 0)
  IN page.visible = 50 /\ page.failed = 50 /\ page.actors = 1 /\ page.rows[50].id = 50

Section(id, lines, notice) == [id |-> id, lines |-> [i \in 1 .. lines |-> <<"l">>], notice |-> notice]
Snapshots == UNION {[1 .. n -> {Section("control-plane", 2, ""), Section("control-plane", 0, "no journal"),
                                Section("install", 1, "cut"), Section("caddy", 0, "missing")}] : n \in 0 .. 3}

RECURSIVE CountLines(_)
CountLines(sections) == IF sections = <<>> THEN 0 ELSE CountLines(Tail(sections)) + Len(Head(sections).lines)

(* The page adds up what it shows, and only the first journal's notice     *)
(* asks for attention.                                                     *)
ASSUME LogsPageCounts ==
  \A sections \in Snapshots :
    LET page == LogsPage(sections)
        shown == SelectSeq(page.sections, LAMBDA section : section.count > 0)
        journals == SelectSeq(sections, LAMBDA section : section.id = "control-plane")
    IN /\ page.total = CountLines(sections)
       /\ page.active = Len(shown)
       /\ page.attention <=> journals # <<>> /\ journals[1].notice # ""

-----------------------------------------------------------------------------
(* The pages about the host agree on what they show of it.                 *)
Usage(used) == [used |-> used, free |-> 3000 - used, total |-> 3000]
Mounted(path) == [path |-> path, used |-> 1, free |-> 2, total |-> 3]
Hosts == [hostname: {"", "aegis"}, uptime: {59, 90061}, virtualization: {"", "kvm"}, kernel: {"", "6.8"},
          memory: {Usage(1024)}, swap: {Usage(0)}, mounts: {<<>>, <<Mounted("/"), Mounted("/srv")>>},
          interfaces: {<<>>, <<[name |-> "eth0", sent |-> 0, received |-> 2048]>>}]
Status == [service |-> "aegis-agent", operators |-> 1, modules |-> 24, jobs |-> <<>>, initialized |-> TRUE]
Owner == [role |-> "owner", name |-> "Ada"]

ASSUME PagesAgree ==
  \A host \in Hosts, module \in Scaffold :
    LET dashboard == DashboardPage(Status, host, <<>>, <<>>, 0)
        hardware == HardwarePage(host)
        page == ModulePage(module, Status, host, <<>>, <<>>, 0)
        shell == PanelShell(Status, host, Owner, <<module, "detail">>)
    IN /\ dashboard.host = shell.host /\ page.host = shell.host
       /\ host.hostname # "" => hardware.host = shell.host
       /\ shell.uptime = hardware.uptime /\ page.uptime = shell.uptime
       /\ page.memory = dashboard.memory /\ hardware.memory.used = page.memory.used
       /\ Len(dashboard.mounts) = page.storage[1] /\ Len(hardware.interfaces) = page.storage[2]
       /\ shell.marked = {module}
       /\ page.stage.label = "Design locked" /\ Len(page.lanes) = 3

(* Every module is in exactly one section of the rail.                     *)
ASSUME RailIsComplete ==
  /\ CoreLinks \cup ExpansionLinks = Modules /\ CoreLinks \cap ExpansionLinks = {}
  /\ \A module \in ExpansionLinks : PageReads(module) = ScaffoldReads
=============================================================================
