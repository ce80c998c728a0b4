---------------------------- MODULE SystemLayout ----------------------------
(***************************************************************************)
(* The page of one system (routes/system.tsx, and the part of              *)
(* use-system-data.ts about tabs and keys): which charts it draws in its   *)
(* two display modes, the tabs and their lazy mounting, keyboard           *)
(* navigation, the sheets with more charts, and the memos from which the   *)
(* GPU charts take their series.  How the records get there is in          *)
(* SystemView, how one chart draws them in ChartCanvas.                    *)
(*                                                                         *)
(* A chart is a tuple: its kind, and its file system, GPU or core.         *)
(***************************************************************************)
EXTENDS Naturals, FiniteSets, Sequences

CONSTANTS Points,       \* the records that may arrive
          Versions,     \* 100 * minor + patch of the agents, by system 1 .. n
          MaxPoints,    \* length of the window of records
          MaxLaid      \* bound on what happens

\* gpus: [id, name, p, pp, vram : BOOLEAN, e : engines]; io: metrics of the
\* disk above zero; extra: other file systems; cores: number of cores, whose
\* times come with a breakdown.

VARIABLES
    points,     \* systemStats
    contained,  \* containerData is not empty
    shownId,    \* the id of the route, as an index into $systems
    mode,       \* displayMode
    activeTab,
    mountedTabs,
    tabsRef,    \* the tabs as of the last render
    opened,     \* sheets that have been opened, and the one that is open
    powerMemo,  \* GpuPowerChart: key and series
    engineMemo, \* GpuEnginesChart: key and series
    laid        \* steps so far

vars == <<points, contained, shownId, mode, activeTab, mountedTabs, tabsRef, opened,
          powerMemo, engineMemo, laid>>

Tabs == {"core", "disk", "gpu", "containers"}
Sheets == {"cpu", "net", "root"} \cup UNION {r.extra : r \in Points}
SystemIds == DOMAIN Versions

TypeOK ==
    /\ points \in Seq(Points) /\ Len(points) <= MaxPoints /\ contained \in BOOLEAN
    /\ shownId \in SystemIds /\ mode \in {"default", "tabs"}
    /\ activeTab \in Tabs /\ mountedTabs \subseteq Tabs
    /\ tabsRef \in Seq(Tabs)
    /\ opened \in [had : SUBSET Sheets, open : SUBSET Sheets] /\ opened.open \subseteq opened.had
    /\ laid \in 0 .. MaxLaid

-----------------------------------------------------------------------------
(* What the records have.                                                  *)

Latest(s) == IF s = <<>> THEN {} ELSE {s[Len(s)]}     \* systemStats.at(-1)
All(s) == {s[i] : i \in DOMAIN s}
LastGpus(s) == UNION {r.gpus : r \in Latest(s)}
GpusOf(s) == UNION {r.gpus : r \in All(s)}

hasGpuData(s) == LastGpus(s) # {}
hasGpuEnginesData(s) == LastGpus(s) # {} /\ \E g \in GpusOf(s) : g.e # {}
hasGpuPowerData(s) == LastGpus(s) # {} /\ \E g \in GpusOf(s) : g.p \/ g.pp
HasGpu(s) == hasGpuData(s) \/ hasGpuPowerData(s)

TabsOf(s, c) == <<"core", "disk">> \o (IF HasGpu(s) THEN <<"gpu">> ELSE <<>>)
                                   \o (IF c THEN <<"containers">> ELSE <<>>)

-----------------------------------------------------------------------------
(* Series of the GPU charts.                                               *)

\* The last record that satisfies P, as a set.
LastWith(s, P(_)) == {s[i] : i \in {j \in DOMAIN s : P(s[j]) /\ \A k \in j + 1 .. Len(s) : ~P(s[k])}}
LeastId(gs) == CHOOSE i \in {g.id : g \in gs} : \A g \in gs : i <= g.id

\* gpuPowerKey: what the last record with GPUs says of their power.
PowerKey(s) ==
    LET gs == UNION {r.gpus : r \in LastWith(s, LAMBDA r : r.gpus # {})}
    IN  {<<g.id, g.name, "p">> : g \in {x \in gs : x.p}}
            \cup {<<g.id, g.name, "pp">> : g \in {x \in gs : x.pp}}

\* totals: a series per name of a GPU, with the id it first came with, and one
\* more per name whose package power was measured.
FirstId(s, n, Q(_)) ==
    LET Has(r) == \E g \in r.gpus : g.name = n /\ Q(g)
        i == CHOOSE j \in DOMAIN s : Has(s[j]) /\ \A k \in 1 .. j - 1 : ~Has(s[k])
    IN  LeastId({g \in s[i].gpus : g.name = n /\ Q(g)})
PowerSeries(s) ==
    {[name |-> g.name, of |-> "p", id |-> FirstId(s, g.name, LAMBDA x : TRUE)] : g \in GpusOf(s)}
        \cup {[name |-> g.name, of |-> "pp", id |-> FirstId(s, g.name, LAMBDA x : x.pp)] :
                 g \in {x \in GpusOf(s) : x.pp}}

\* enginesKey: the engines of the first GPU that has any, in the last record
\* where one has.
EngineGpus(s) == {g \in UNION {r.gpus : r \in LastWith(s, LAMBDA r : \E x \in r.gpus : x.e # {})} : g.e # {}}
EnginesKey(s) ==
    {<<g.id, g.e>> : g \in {x \in EngineGpus(s) : x.id = LeastId(EngineGpus(s))}}
EngineSeries(s) == UNION {{g.id} \X g.e : g \in {x \in EngineGpus(s) : x.id = LeastId(EngineGpus(s))}}

NoMemo == [key |-> {}, series |-> {}]
Memo(m, key, series) == IF key = m.key THEN m ELSE [key |-> key, series |-> series]

-----------------------------------------------------------------------------
(* Charts.  A chart that returns null is not in the set.  A page has its   *)
(* records (s), whether there are containers (c), the agent's version (v), *)
(* the sheets that have been opened (had) and the mounted tabs (tabs).     *)

CpuChart(p) == {<<"cpu">>}
\* The cards of a sheet, and the sheet: for the cores from version 0.15.3 on, and
\* once it has been opened.
CpuCards(r) == {<<"cpu breakdown">>, <<"cpu cores">>} \cup {<<"cpu core", i>> : i \in 1 .. r.cores}
CpuCoresSheet(p) ==
    IF p.v < 1503 \/ "cpu" \notin p.had THEN {}
    ELSE UNION {CpuCards(r) : r \in {x \in Latest(p.s) : x.cores > 0}}
MemoryChart(p) == {<<"memory">>}
SwapChart(p) == {<<"swap">> : r \in {x \in Latest(p.s) : x.swap}}
LoadAverageChart(p) == IF p.v < 1300 THEN {} ELSE {<<"load">>}
NetworkCards == {<<"net", c>> : c \in {"download", "upload", "sum download", "sum upload"}}
NetworkSheet(p) ==
    IF "net" \notin p.had \/ ~\E r \in Latest(p.s) : r.net THEN {} ELSE NetworkCards
BandwidthChart(p) == {<<"bandwidth">>} \cup NetworkSheet(p)

DiskUsageChart(fs) == {<<"disk usage", fs>>}
\* The button is there if a record of the root file system has read time.
HasMoreIOMetrics(p) == \E r \in All(p.s) : "time" \in r.io
DiskCards(p, fs) ==
    {<<"io throughput", fs>>, <<"io time", fs>>}
        \cup {<<"io", m, fs>> : m \in {"util", "queue", "await"} \cap UNION {r.io : r \in All(p.s)}}
DiskIOSheet(p, fs) == IF fs \notin p.had \/ ~HasMoreIOMetrics(p) THEN {} ELSE DiskCards(p, fs)
DiskIOChart(p, fs) == IF p.s = <<>> THEN {} ELSE {<<"disk io", fs>>} \cup DiskIOSheet(p, fs)
RootDiskCharts(p) == DiskUsageChart("root") \cup DiskIOChart(p, "root")
ExtraFsCharts(p) ==
    UNION {DiskUsageChart(fs) \cup DiskIOChart(p, fs) : fs \in UNION {r.extra : r \in Latest(p.s)}}

GpuPowerChart(p) == IF hasGpuPowerData(p.s) THEN {<<"gpu power">>} ELSE {}
GpuDetailCharts(p) ==
    (IF hasGpuEnginesData(p.s) THEN {<<"gpu engines">>} ELSE {})
        \cup {<<"gpu usage", g.id>> : g \in LastGpus(p.s)}
        \cup {<<"gpu vram", g.id>> : g \in {x \in LastGpus(p.s) : x.vram}}

ContainerCharts(p) ==
    IF p.c THEN {<<"container cpu">>, <<"container memory">>, <<"container network">>} ELSE {}
\* hasContainersTable.
ContainersTable(p) == IF p.c /\ p.v >= 1400 THEN {<<"containers table">>} ELSE {}

defaultLayout(p) ==
    CpuChart(p) \cup CpuCoresSheet(p) \cup MemoryChart(p) \cup RootDiskCharts(p) \cup BandwidthChart(p)
        \cup ContainerCharts(p) \cup SwapChart(p) \cup LoadAverageChart(p) \cup GpuPowerChart(p)
        \cup GpuDetailCharts(p) \cup ExtraFsCharts(p) \cup ContainersTable(p)

CoreTab(p) == CpuChart(p) \cup CpuCoresSheet(p) \cup MemoryChart(p) \cup LoadAverageChart(p)
                  \cup BandwidthChart(p) \cup SwapChart(p)
DiskTab(p) == RootDiskCharts(p) \cup ExtraFsCharts(p)
GpuTab(p) == IF HasGpu(p.s) THEN GpuPowerChart(p) \cup GpuDetailCharts(p) ELSE {}
ContainersTab(p) == ContainerCharts(p) \cup ContainersTable(p)

\* Of the disk and the containers tab nothing is mounted before a visit.
tabbedLayout(p) == CoreTab(p) \cup GpuTab(p)
                       \cup (IF "disk" \in p.tabs THEN DiskTab(p) ELSE {})
                       \cup (IF "containers" \in p.tabs THEN ContainersTab(p) ELSE {})

Drawn(m, p) == IF m = "tabs" THEN tabbedLayout(p) ELSE defaultLayout(p)

\* The sheets whose components are still mounted.
KeptSheets(m, p, x) ==
    x \cap ({"cpu", "net"} \cup (IF HasMoreIOMetrics(p) THEN {c[2] : c \in {d \in Drawn(m, p) : d[1] = "disk io"}}
                                 ELSE {}))

Page == [s |-> points, c |-> contained, v |-> Versions[shownId], had |-> opened.had, tabs |-> mountedTabs]

-----------------------------------------------------------------------------
\* A render: tabsRef, the sheets, and the memos of the charts that are mounted.
\* Another display mode mounts everything anew.
Render(sheets) ==
    LET p == [s |-> points', c |-> contained', v |-> Versions[shownId'], had |-> {}, tabs |-> mountedTabs']
        Fresh(memo) == IF mode' = mode THEN memo ELSE NoMemo
        left == IF mode' = mode THEN sheets ELSE [had |-> {}, open |-> {}]
    IN  /\ tabsRef' = TabsOf(points', contained')
        /\ opened' = [had |-> KeptSheets(mode', p, left.had), open |-> KeptSheets(mode', p, left.open)]
        /\ powerMemo' = IF <<"gpu power">> \in Drawn(mode', p)
                        THEN Memo(Fresh(powerMemo), PowerKey(points'), PowerSeries(points')) ELSE NoMemo
        /\ engineMemo' = IF <<"gpu engines">> \in Drawn(mode', p)
                         THEN Memo(Fresh(engineMemo), EnginesKey(points'), EngineSeries(points')) ELSE NoMemo

StepWith(sheets) == laid < MaxLaid /\ laid' = laid + 1 /\ Render(sheets)
Step == StepWith(opened)

\* A record arrives.
Arrive(r) ==
    /\ points' = IF Len(points) < MaxPoints THEN Append(points, r) ELSE Append(Tail(points), r)
    /\ UNCHANGED <<contained, shownId, mode, activeTab, mountedTabs>>
    /\ Step

ContainersArrive ==
    /\ contained' = ~contained
    /\ UNCHANGED <<points, shownId, mode, activeTab, mountedTabs>>
    /\ Step

setDisplayMode(m) ==
    /\ m # mode
    /\ mode' = m
    /\ UNCHANGED <<points, contained, shownId, activeTab, mountedTabs>>
    /\ Step

setActiveTab(t) ==
    /\ activeTab' = t
    /\ mountedTabs' = mountedTabs \cup {t}

\* A click on a tab.
SelectTab(t) ==
    /\ mode = "tabs" /\ t # activeTab
    /\ \E i \in DOMAIN tabsRef : tabsRef[i] = t
    /\ setActiveTab(t)
    /\ UNCHANGED <<points, contained, shownId, mode>>
    /\ Step

\* Another system: the charts' data is cleared, the tabs are not.
Navigate(i) ==
    /\ i # shownId
    /\ shownId' = i
    /\ points' = <<>> /\ contained' = FALSE
    /\ UNCHANGED <<mode, activeTab, mountedTabs>>
    /\ Step

\* Indices count from 0, the tab that is not there has index -1.
NextIndex(i, n, left) == IF left THEN (i + n - 1) % n ELSE (i + 1) % n

\* In a list of tabs; an unknown tab goes to the last but one, or the first.
TabAt(tabs, t, left) ==
    LET n == Len(tabs)
        known == \E j \in DOMAIN tabs : tabs[j] = t
        i == CHOOSE j \in DOMAIN tabs : tabs[j] = t
        next == IF known THEN NextIndex(i - 1, n, left) ELSE IF left THEN n - 2 ELSE 0
    IN  IF next < n THEN {tabs[next + 1]} ELSE {}

\* Plain arrows in tabs mode.
TabKey(left) ==
    /\ mode = "tabs"
    /\ \E t \in TabAt(tabsRef, activeTab, left) : setActiveTab(t)
    /\ UNCHANGED <<points, contained, shownId, mode>>
    /\ Step

\* Arrows, with shift in tabs mode.
SystemKey(left) ==
    /\ Cardinality(SystemIds) > 1
    /\ LET next == NextIndex(shownId - 1, Cardinality(SystemIds), left) + 1
       IN  next \in SystemIds /\ shownId' = next
    /\ activeTab' = "core" /\ mountedTabs' = {"core"}
    /\ points' = <<>> /\ contained' = FALSE
    /\ UNCHANGED mode
    /\ Step

\* hasOpened: the content of a sheet stays once it was opened.
ToggleSheet(x) ==
    /\ \/ x = "cpu" /\ Versions[shownId] >= 1503
       \/ x = "net" /\ \E r \in Latest(points) : r.net
       \/ x \notin {"cpu", "net"} /\ HasMoreIOMetrics(Page) /\ <<"disk io", x>> \in Drawn(mode, Page)
    /\ UNCHANGED <<points, contained, shownId, mode, activeTab, mountedTabs>>
    /\ StepWith(IF x \in opened.open THEN [opened EXCEPT !.open = @ \ {x}]
                ELSE [had |-> opened.had \cup {x}, open |-> {x}])

-----------------------------------------------------------------------------
Init ==
    /\ points = <<>> /\ contained = FALSE /\ shownId = 1
    /\ mode \in {"default", "tabs"}           \* as the browser kept it
    /\ activeTab = "core" /\ mountedTabs = {"core"} /\ tabsRef = <<"core", "disk">>
    /\ opened = [had |-> {}, open |-> {}]
    /\ powerMemo = NoMemo /\ engineMemo = NoMemo /\ laid = 0

Next ==
    \/ \E r \in Points : Arrive(r)
    \/ ContainersArrive
    \/ \E m \in {"default", "tabs"} : setDisplayMode(m)
    \/ \E t \in Tabs : SelectTab(t)
    \/ \E i \in SystemIds : Navigate(i)
    \/ \E left \in BOOLEAN : TabKey(left) \/ SystemKey(left)
    \/ \E x \in Sheets : ToggleSheet(x)

Spec == Init /\ [][Next]_vars

-----------------------------------------------------------------------------
(* Properties.                                                             *)

\* Tabs that are mounted lazily and kept lose nothing: in tabs mode the page
\* draws what the default layout draws, but for the tabs that were never
\* visited, and the active tab is among the visited.
TabsLoseNothing ==
    /\ activeTab \in mountedTabs
    /\ defaultLayout(Page) = tabbedLayout(Page)
           \cup (IF "disk" \in mountedTabs THEN {} ELSE DiskTab(Page))
           \cup (IF "containers" \in mountedTabs THEN {} ELSE ContainersTab(Page))

\* The series of the GPU charts follow the records although they are only
\* computed when a key changes: the engines drawn are those of the last record
\* that has any, and every GPU with a name of its own whose power was measured
\* last has a series that reads it.
SeriesCurrent ==
    LET drawn == Drawn(mode, Page)
        known == UNION {r.gpus : r \in Points}
    IN  /\ <<"gpu engines">> \in drawn => engineMemo.series = EngineSeries(points)
        /\ <<"gpu power">> \in drawn =>
               \A k \in PowerKey(points) :
                   (\A g \in known : g.name = k[2] => g.id = k[1]) =>
                       [name |-> k[2], of |-> k[3], id |-> k[1]] \in powerMemo.series

\* An arrow key leads to a tab there is, also when the tab it was pressed on
\* has gone with the records of its GPU or its containers, and two in opposite
\* directions lead back.
ArrowsCycle ==
    mode = "tabs" => \A left \in BOOLEAN :
        /\ TabAt(tabsRef, activeTab, left) # {}
        /\ (\E j \in DOMAIN tabsRef : tabsRef[j] = activeTab) =>
               \E t \in TabAt(tabsRef, activeTab, left) : TabAt(tabsRef, t, ~left) = {activeTab}
=============================================================================
