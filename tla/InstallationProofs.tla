------------------------- MODULE InstallationProofs -------------------------
(***************************************************************************)
(* What is proved of the connections to other programs: the files of a     *)
(* client, the scheduled task, the projects a client is served in, and the *)
(* adapter of Hermes.  They share no state, and neither do the proofs.     *)
(***************************************************************************)
EXTENDS Installation, ScheduledTask, Connections, Hermes, WellFoundedInduction, TLAPS

(***************************************************************************)
(* Installation.  Of every file the invariant says what it holds in terms of *)
(* the plan, the step the installation is at, and whether others edited it. *)
(***************************************************************************)

File == {"toml", "hooks", "project", "selector", "receipt"}

ContentOf(f) ==
    CASE f \in Client   -> Settings
      [] f = "project"  -> Project
      [] f = "selector" -> Selector
      [] f = "receipt"  -> Receipt

Values == Settings \cup Project \cup Selector \cup Receipt
Changes == [file : File, before : Values, after : Values]

Steps == {"compare", "write", "undo", "restore"}

\* What install_user plans.
Proper(plan) ==
    LET last == plan[Len(plan)] IN
    /\ Len(plan) \in Nat /\ Len(plan) >= 3 /\ DOMAIN plan = 1 .. Len(plan)
    /\ plan[1].file = "toml" /\ plan[2].file = "hooks" /\ last.file = "receipt"
    /\ \A i \in 3 .. Len(plan) - 1 : plan[i].file \in {"project", "selector"}
    /\ \A i \in DOMAIN plan :
          /\ plan[i].before \in ContentOf(plan[i].file) /\ plan[i].after \in ContentOf(plan[i].file)
          /\ Theirs(plan[i].file, plan[i].before) = Theirs(plan[i].file, plan[i].after)
    /\ \A i, j \in DOMAIN plan :
          i # j /\ plan[i].file = plan[j].file =>
             plan[i].before = plan[j].before /\ plan[i].after = plan[j].after /\ plan[i].before # plan[i].after
    /\ \A i \in {1, 2} :
          plan[i].before.ours = last.before.version /\ plan[i].after.ours = last.after.version

Applied(i) == IF run.step \in {"compare", "write"} THEN i < run.at ELSE i <= run.at

Same(i, j) == run.plan[i].file = run.plan[j].file

RunType == [op : {"none", "install", "remove"}, plan : Seq(Changes), at : Nat, step : {"idle"} \cup Steps]

Running ==
    /\ run \in RunType /\ run.step \in Steps /\ Proper(run.plan)
    /\ run.at <= Len(run.plan) + 1
    /\ run.step # "compare" => run.at <= Len(run.plan)
    /\ run.step # "undo" => run.at >= 1

Holds(i) ==
    /\ Applied(i) => /\ disk[run.plan[i].file] = run.plan[i].after
                     /\ \A j \in DOMAIN run.plan \ {i} : Same(i, j) => ~Applied(j)
    /\ (\A j \in DOMAIN run.plan : Same(i, j) => ~Applied(j)) =>
          disk[run.plan[i].file] = run.plan[i].before

AsPlanned == \A i \in DOMAIN run.plan : run.plan[i].file \notin since => Holds(i)

Looked ==
    run.step \in {"write", "restore"} =>
        IF window THEN This.file \in since
        ELSE disk[This.file] = IF run.step = "write" THEN This.before ELSE This.after

Parts ==
    ~halfway => \A i \in {1, 2} : run.plan[i].file \notin edited =>
        disk[run.plan[i].file].ours = IF Applied(i) THEN run.plan[i].after.ours ELSE run.plan[i].before.ours

Last == run.plan[Len(run.plan)]

Retirement ==
    ~halfway /\ "project" \notin edited =>
        /\ \A i \in DOMAIN run.plan : run.plan[i].file = "project" =>
              /\ run.plan[i].before = "empty" => Last.before.retired > 0
              /\ run.plan[i].after = "empty" => Last.after.retired > 0
        /\ (\A i \in DOMAIN run.plan : run.plan[i].file # "project") /\ disk.project = "empty" =>
              Last.before.retired > 0 /\ Last.after.retired > 0

Ground ==
    /\ disk \in Disk /\ window \in BOOLEAN /\ halfway \in BOOLEAN /\ edits \in 0 .. MaxEdits
    /\ since \subseteq File \ {"receipt"} /\ edited \subseteq File
    /\ "project" \in since => "project" \in edited

Working == Running /\ AsPlanned /\ Looked /\ Parts /\ Retirement

InstInv == /\ Ground
           /\ run = NoRun => since = {} /\ ReceiptTrue
           /\ run # NoRun => Working

PlannedNow(plan) ==
    LET last == plan[Len(plan)] IN
    /\ \A i \in DOMAIN plan : plan[i].before = disk[plan[i].file]
    /\ \A i \in DOMAIN plan : plan[i].file = "project" =>
          /\ plan[i].before = "empty" => disk.receipt.retired > 0
          /\ plan[i].after = "empty" => last.after.retired > 0
    /\ (\A i \in DOMAIN plan : plan[i].file # "project") /\ disk.project = "empty" /\ disk.receipt.retired > 0 =>
          last.after.retired > 0

LEMMA DiskType ==
    ASSUME disk \in Disk, NEW f \in File
    PROVE  disk[f] \in ContentOf(f)
  BY DEF Disk, File, ContentOf, Client

LEMMA Replaced ==
    ASSUME disk \in Disk, NEW f \in File, NEW v \in ContentOf(f), disk' = [disk EXCEPT ![f] = v]
    PROVE  disk' \in Disk /\ disk'[f] = v /\ \A g \in File \ {f} : disk'[g] = disk[g]
<1>1. CASE f \in Client
  BY <1>1 DEF Disk, File, ContentOf, Client
<1>2. CASE f = "project"
  BY <1>2 DEF Disk, File, ContentOf, Client
<1>3. CASE f = "selector"
  BY <1>3 DEF Disk, File, ContentOf, Client
<1>4. CASE f = "receipt"
  BY <1>4 DEF Disk, File, ContentOf, Client
<1> QED  BY <1>1, <1>2, <1>3, <1>4 DEF File, Client

LEMMA BlockProper ==
    ASSUME disk \in Disk, Owned, NEW f \in Client, NEW v \in Version \cup {None}
    PROVE  LET c == Block(f, v) IN
           /\ c.file = f /\ c.before \in Settings /\ c.after \in Settings
           /\ c.before = disk[f]
           /\ c.before.ours = disk.receipt.version /\ c.after.ours = v
           /\ Theirs(f, c.before) = Theirs(f, c.after)
<1>1. disk[f] \in Settings /\ disk[f].ours = disk.receipt.version /\ disk.receipt.version \in Version \cup {None}
  BY DEF Disk, Client, Owned, Receipt
<1>2. [disk[f] EXCEPT !.ours = v] \in Settings
  BY <1>1 DEF Settings
<1>3. [disk[f] EXCEPT !.ours = v].user = disk[f].user /\ [disk[f] EXCEPT !.ours = v].ours = v
  BY <1>1 DEF Settings
<1>4. disk[f].ours # Edited /\ v # Edited
  BY <1>1, InstallationAssumption
<1> QED  BY <1>1, <1>2, <1>3, <1>4 DEF Block, Change, Theirs, Client

LEMMA InstallingProper ==
    ASSUME disk \in Disk, Owned, NEW v \in Version, NEW retire \in BOOLEAN,
           retire => disk.project = "local" /\ disk.receipt.retired < MaxRetired
    PROVE  /\ Proper(Installing(v, retire)) /\ Installing(v, retire) \in Seq(Changes)
           /\ PlannedNow(Installing(v, retire))
<1> DEFINE t == Block("toml", v)
           h == Block("hooks", v)
           p == Change("project", "empty")
           s == Change("selector", [disk.selector EXCEPT !.mcp = TRUE])
           r == Change("receipt", [version |-> v, retired |-> Retired(retire)])
<1>1. /\ t.file = "toml" /\ t.before \in Settings /\ t.after \in Settings
      /\ t.before = disk.toml /\ t.before.ours = disk.receipt.version /\ t.after.ours = v
      /\ Theirs("toml", t.before) = Theirs("toml", t.after)
  BY BlockProper DEF Client
<1>2. /\ h.file = "hooks" /\ h.before \in Settings /\ h.after \in Settings
      /\ h.before = disk.hooks /\ h.before.ours = disk.receipt.version /\ h.after.ours = v
      /\ Theirs("hooks", h.before) = Theirs("hooks", h.after)
  BY BlockProper DEF Client
<1>3. /\ s.file = "selector" /\ s.before \in Selector /\ s.after \in Selector /\ s.before = disk.selector
      /\ Theirs("selector", s.before) = Theirs("selector", s.after)
  BY DEF Disk, Selector, Change, Theirs, Client
<1>4. /\ r.file = "receipt" /\ r.before \in Receipt /\ r.after \in Receipt
      /\ r.before.version = disk.receipt.version /\ r.after.version = v
      /\ r.before = disk.receipt /\ r.after.retired = Retired(retire)
      /\ Theirs("receipt", r.before) = Theirs("receipt", r.after)
  <2>1. disk.receipt \in Receipt
    BY DEF Disk
  <2>2. Retired(retire) \in 0 .. MaxRetired
    BY <2>1, InstallationAssumption DEF Retired, Receipt
  <2> QED  BY <2>1, <2>2 DEF Receipt, Change, Theirs, Client
<1>5. retire => /\ p.file = "project" /\ p.before \in Project /\ p.after \in Project
                /\ Theirs("project", p.before) = Theirs("project", p.after)
                /\ p.before = disk.project /\ p.before = "local"
  BY DEF Change, Theirs, Client, Project
<1> DEFINE middle == IF retire THEN <<p>> ELSE <<>>
           plan == <<t, h>> \o middle \o <<s, r>>
           n == Len(middle)
<1>6. Installing(v, retire) = plan
  BY DEF Installing
<1>7. t \in Changes /\ h \in Changes /\ s \in Changes /\ r \in Changes /\ (retire => p \in Changes)
  BY <1>1, <1>2, <1>3, <1>4, <1>5 DEF Changes, Values, File, Block, Change
<1> HIDE DEF t, h, p, s, r
<1>8. /\ middle \in Seq(Changes) /\ n \in {0, 1} /\ (n = 1 => retire /\ middle[1] = p) /\ (n = 0 => ~retire)
  BY <1>7
<1> HIDE DEF middle
<1>9. /\ Len(plan) = n + 4 /\ DOMAIN plan = 1 .. n + 4 /\ plan \in Seq(Changes)
      /\ plan[1] = t /\ plan[2] = h /\ plan[n + 3] = s /\ plan[n + 4] = r
      /\ n = 1 => plan[3] = p
  <2>1. <<t, h>> \in Seq(Changes) /\ <<s, r>> \in Seq(Changes) /\ Len(<<t, h>>) = 2 /\ Len(<<s, r>>) = 2
    BY <1>7
  <2> DEFINE front == <<t, h>> \o middle
  <2>2. /\ front \in Seq(Changes) /\ Len(front) = n + 2
        /\ front[1] = t /\ front[2] = h /\ (n = 1 => front[3] = p)
    BY <1>8, <2>1
  <2> HIDE DEF front
  <2>3. /\ front \o <<s, r>> \in Seq(Changes) /\ Len(front \o <<s, r>>) = n + 4
        /\ \A i \in 1 .. n + 2 : (front \o <<s, r>>)[i] = front[i]
        /\ (front \o <<s, r>>)[n + 3] = s /\ (front \o <<s, r>>)[n + 4] = r
    BY <1>7, <1>8, <2>1, <2>2
  <2> QED  BY <1>8, <2>2, <2>3 DEF front
<1> HIDE DEF plan, n
<1>10. \A i \in DOMAIN plan :
          \/ i = 1 /\ plan[i] = t
          \/ i = 2 /\ plan[i] = h
          \/ i = 3 /\ n = 1 /\ plan[i] = p /\ retire
          \/ i = n + 3 /\ plan[i] = s
          \/ i = n + 4 /\ plan[i] = r
  BY <1>8, <1>9
<1>11. \A i \in DOMAIN plan :
          /\ plan[i].before \in ContentOf(plan[i].file) /\ plan[i].after \in ContentOf(plan[i].file)
          /\ Theirs(plan[i].file, plan[i].before) = Theirs(plan[i].file, plan[i].after)
  BY <1>1, <1>2, <1>3, <1>4, <1>5, <1>10 DEF ContentOf, Client
<1>12. \A i, j \in DOMAIN plan : plan[i].file = plan[j].file => i = j
  BY <1>1, <1>2, <1>3, <1>4, <1>5, <1>8, <1>10
<1>13. \A i \in 3 .. Len(plan) - 1 : plan[i].file \in {"project", "selector"}
  BY <1>3, <1>5, <1>8, <1>9, <1>10
<1>14. plan[Len(plan)] = r
  BY <1>9
<1>15. Proper(plan)
  BY <1>1, <1>2, <1>4, <1>8, <1>9, <1>11, <1>12, <1>13, <1>14 DEF Proper
<1>16. disk.receipt.retired \in Nat /\ (retire => r.after.retired > 0)
       /\ (~retire => r.after.retired = disk.receipt.retired)
  BY <1>4, InstallationAssumption DEF Disk, Receipt, Retired
<1>17. n = 1 => 3 \in DOMAIN plan /\ plan[3].file = "project"
  BY <1>5, <1>8, <1>9
<1>18. PlannedNow(plan)
  <2>1. \A i \in DOMAIN plan : plan[i].before = disk[plan[i].file]
    BY <1>1, <1>2, <1>3, <1>4, <1>5, <1>10
  <2>2. \A i \in DOMAIN plan : plan[i].file = "project" => retire /\ plan[i].before # "empty"
    BY <1>1, <1>2, <1>3, <1>4, <1>5, <1>10
  <2>3. (\A i \in DOMAIN plan : plan[i].file # "project") => ~retire
    BY <1>8, <1>17
  <2> QED  BY <1>14, <1>16, <2>1, <2>2, <2>3 DEF PlannedNow
<1> QED  BY <1>6, <1>9, <1>15, <1>18

LEMMA RemovingProper ==
    ASSUME disk \in Disk, Owned
    PROVE  Proper(Removing) /\ Removing \in Seq(Changes) /\ PlannedNow(Removing)
<1> DEFINE n == IF disk.project = "empty" THEN disk.receipt.retired ELSE 0
           t == Block("toml", None)
           h == Block("hooks", None)
           p == Change("project", "local")
           r == Change("receipt", [version |-> None, retired |-> 0])
           middle == [i \in 1 .. n |-> p]
           plan == <<t, h>> \o middle \o <<r>>
<1>1. /\ t.file = "toml" /\ t.before \in Settings /\ t.after \in Settings
      /\ t.before = disk.toml /\ t.before.ours = disk.receipt.version /\ t.after.ours = None
      /\ Theirs("toml", t.before) = Theirs("toml", t.after)
  BY BlockProper DEF Client
<1>2. /\ h.file = "hooks" /\ h.before \in Settings /\ h.after \in Settings
      /\ h.before = disk.hooks /\ h.before.ours = disk.receipt.version /\ h.after.ours = None
      /\ Theirs("hooks", h.before) = Theirs("hooks", h.after)
  BY BlockProper DEF Client
<1>3. /\ r.file = "receipt" /\ r.before \in Receipt /\ r.after \in Receipt
      /\ r.before.version = disk.receipt.version /\ r.after.version = None
      /\ r.before = disk.receipt
      /\ Theirs("receipt", r.before) = Theirs("receipt", r.after)
  BY InstallationAssumption DEF Disk, Receipt, Change, Theirs, Client
<1>4. /\ p.file = "project" /\ p.before \in Project /\ p.after \in Project
      /\ p.before = disk.project
      /\ n > 0 => p.before = "empty" /\ p.after = "local"
      /\ n > 0 => Theirs("project", p.before) = Theirs("project", p.after)
  BY DEF Disk, Change, Theirs, Client, Project
<1>5. n \in Nat
  BY InstallationAssumption DEF Disk, Receipt
<1>6. t \in Changes /\ h \in Changes /\ r \in Changes /\ p \in Changes
  BY <1>1, <1>2, <1>3, <1>4 DEF Changes, Values, File, Block, Change
<1>7. Removing = plan
  BY DEF Removing
<1> HIDE DEF t, h, p, r, n
<1>8. /\ Len(plan) = n + 3 /\ DOMAIN plan = 1 .. n + 3 /\ plan \in Seq(Changes)
      /\ plan[1] = t /\ plan[2] = h /\ plan[n + 3] = r
      /\ \A i \in 3 .. n + 2 : plan[i] = p
  <2>1. middle \in Seq(Changes) /\ Len(middle) = n /\ \A i \in 1 .. n : middle[i] = p
    BY <1>5, <1>6
  <2> HIDE DEF middle
  <2>2. <<t, h>> \in Seq(Changes) /\ <<r>> \in Seq(Changes) /\ Len(<<t, h>>) = 2 /\ Len(<<r>>) = 1
    BY <1>6
  <2>3. /\ <<t, h>> \o middle \in Seq(Changes) /\ Len(<<t, h>> \o middle) = n + 2
        /\ (<<t, h>> \o middle)[1] = t /\ (<<t, h>> \o middle)[2] = h
        /\ \A i \in 3 .. n + 2 : (<<t, h>> \o middle)[i] = p
    BY <1>5, <2>1, <2>2
  <2> DEFINE front == <<t, h>> \o middle
  <2> HIDE DEF front
  <2>4. /\ front \in Seq(Changes) /\ Len(front) = n + 2 /\ front[1] = t /\ front[2] = h
        /\ \A i \in 3 .. n + 2 : front[i] = p
    BY <2>3 DEF front
  <2>5. /\ front \o <<r>> \in Seq(Changes) /\ Len(front \o <<r>>) = n + 3
        /\ \A i \in 1 .. n + 2 : (front \o <<r>>)[i] = front[i]
        /\ (front \o <<r>>)[n + 3] = r
    BY <1>5, <1>6, <2>2, <2>4
  <2> QED  BY <1>5, <2>4, <2>5 DEF front
<1> HIDE DEF plan
<1>9. \A i \in DOMAIN plan :
         \/ i = 1 /\ plan[i] = t
         \/ i = 2 /\ plan[i] = h
         \/ i \in 3 .. n + 2 /\ plan[i] = p /\ n > 0
         \/ i = n + 3 /\ plan[i] = r
  BY <1>5, <1>8
<1>10. \A i \in DOMAIN plan :
          /\ plan[i].before \in ContentOf(plan[i].file) /\ plan[i].after \in ContentOf(plan[i].file)
          /\ Theirs(plan[i].file, plan[i].before) = Theirs(plan[i].file, plan[i].after)
  BY <1>1, <1>2, <1>3, <1>4, <1>9 DEF ContentOf, Client
<1>11. \A i, j \in DOMAIN plan : i # j /\ plan[i].file = plan[j].file =>
          plan[i].before = plan[j].before /\ plan[i].after = plan[j].after /\ plan[i].before # plan[i].after
  BY <1>1, <1>2, <1>3, <1>4, <1>5, <1>9
<1>12. \A i \in 3 .. Len(plan) - 1 : plan[i].file \in {"project", "selector"}
  BY <1>4, <1>5, <1>8
<1>13. plan[Len(plan)] = r
  BY <1>8
<1>14. Proper(plan)
  BY <1>1, <1>2, <1>3, <1>5, <1>8, <1>10, <1>11, <1>12, <1>13 DEF Proper
<1>15. PlannedNow(plan)
  <2>1. \A i \in DOMAIN plan : plan[i].before = disk[plan[i].file]
    BY <1>1, <1>2, <1>3, <1>4, <1>9
  <2>2. \A i \in DOMAIN plan : plan[i].file = "project" =>
            n > 0 /\ plan[i].before = "empty" /\ plan[i].after = "local"
    BY <1>1, <1>2, <1>3, <1>4, <1>9
  <2>3. n > 0 => 3 \in DOMAIN plan /\ plan[3].file = "project"
    BY <1>4, <1>5, <1>8
  <2>4. (n > 0 => n = disk.receipt.retired) /\ (n = 0 => disk.project # "empty" \/ disk.receipt.retired = 0)
    BY DEF n
  <2> QED  BY <1>5, <2>1, <2>2, <2>3, <2>4 DEF PlannedNow
<1> QED  BY <1>7, <1>8, <1>14, <1>15

LEMMA Idle == NoRun.step = "idle" /\ "idle" \notin Steps
  BY DEF NoRun, Steps

LEMMA GotoRun ==
    ASSUME run \in RunType, NEW st \in Steps, NEW k \in Nat, Goto(st, k)
    PROVE  /\ run'.step = st /\ run'.at = k /\ run'.plan = run.plan /\ run' # NoRun
           /\ run' \in RunType
<1>1. run'.step = st /\ run'.at = k /\ run'.plan = run.plan /\ run' \in RunType
  BY DEF Goto, RunType
<1> QED  BY <1>1, Idle

LEMMA PlanFacts ==
    ASSUME Proper(run.plan)
    PROVE  /\ Len(run.plan) \in Nat /\ Len(run.plan) >= 3 /\ DOMAIN run.plan = 1 .. Len(run.plan)
           /\ \A i \in DOMAIN run.plan :
                 /\ run.plan[i].file \in File
                 /\ run.plan[i].before \in ContentOf(run.plan[i].file)
                 /\ run.plan[i].after \in ContentOf(run.plan[i].file)
           /\ \A i, j \in DOMAIN run.plan : i # j /\ Same(i, j) =>
                 /\ run.plan[i].before = run.plan[j].before /\ run.plan[i].after = run.plan[j].after
                 /\ run.plan[i].before # run.plan[i].after
           /\ \A i \in {1, 2} : \A j \in DOMAIN run.plan \ {i} : ~Same(i, j)
           /\ 1 \in DOMAIN run.plan /\ 2 \in DOMAIN run.plan
           /\ run.plan[1].file = "toml" /\ run.plan[2].file = "hooks"
<1>1. /\ Len(run.plan) \in Nat /\ Len(run.plan) >= 3 /\ DOMAIN run.plan = 1 .. Len(run.plan)
      /\ run.plan[1].file = "toml" /\ run.plan[2].file = "hooks" /\ run.plan[Len(run.plan)].file = "receipt"
      /\ \A i \in 3 .. Len(run.plan) - 1 : run.plan[i].file \in {"project", "selector"}
  BY DEF Proper
<1>2. \A i \in DOMAIN run.plan : i = 1 \/ i = 2 \/ i = Len(run.plan) \/ i \in 3 .. Len(run.plan) - 1
  BY <1>1
<1>3. \A i \in DOMAIN run.plan : run.plan[i].file \in File
  BY <1>1, <1>2 DEF File
<1>4. \A i \in {1, 2} : \A j \in DOMAIN run.plan \ {i} : ~Same(i, j)
  BY <1>1, <1>2 DEF Same
<1>5. \A i \in DOMAIN run.plan :
         /\ run.plan[i].before \in ContentOf(run.plan[i].file)
         /\ run.plan[i].after \in ContentOf(run.plan[i].file)
  BY DEF Proper
<1>6. \A i, j \in DOMAIN run.plan : i # j /\ Same(i, j) =>
         /\ run.plan[i].before = run.plan[j].before /\ run.plan[i].after = run.plan[j].after
         /\ run.plan[i].before # run.plan[i].after
  BY DEF Proper, Same
<1> QED  BY <1>1, <1>3, <1>4, <1>5, <1>6

\* The work goes on without anything being done or undone.
LEMMA WorkStays ==
    ASSUME Working, run'.plan = run.plan, disk' = disk, since' = since, edited' = edited,
           halfway' = halfway, \A i \in DOMAIN run.plan : Applied(i)' = Applied(i)
    PROVE  AsPlanned' /\ Parts' /\ Retirement'
<1>1. Retirement'
  BY DEF Working, Retirement, Last
<1>2. \A i \in {1, 2} : Applied(i)' = Applied(i)
  BY PlanFacts DEF Working, Running
<1>3. Parts'
  BY <1>2 DEF Working, Parts
<1>4. ASSUME NEW i \in DOMAIN run.plan, Holds(i) PROVE Holds(i)'
  BY <1>4 DEF Holds, Same
<1>5. AsPlanned'
  BY <1>4 DEF Working, AsPlanned
<1> QED  BY <1>1, <1>3, <1>5

\* One change is made or taken back; a file that others edited is at worst
\* noted as left behind.
LEMMA WorkMoves ==
    ASSUME Working, NEW k \in DOMAIN run.plan, run'.plan = run.plan,
           since' = since, edited' = edited, halfway' \/ ~halfway,
           \A i \in DOMAIN run.plan \ {k} : Applied(i)' = Applied(i),
           Applied(k)' <=> ~Applied(k),
           \A g \in File \ {run.plan[k].file} : disk'[g] = disk[g],
           run.plan[k].file \notin since =>
              /\ disk'[run.plan[k].file] = IF Applied(k)' THEN run.plan[k].after ELSE run.plan[k].before
              /\ \A j \in DOMAIN run.plan \ {k} : Same(k, j) => ~Applied(j),
           ~halfway' /\ k \in {1, 2} /\ run.plan[k].file \notin edited =>
              disk'[run.plan[k].file].ours = IF Applied(k)' THEN run.plan[k].after.ours ELSE run.plan[k].before.ours
    PROVE  AsPlanned' /\ Parts' /\ Retirement'
<1>0. Running
  BY DEF Working
<1>1. Retirement'
  <2>1. (\A i \in DOMAIN run.plan : run.plan[i].file # "project") => disk'["project"] = disk["project"]
    BY DEF File
  <2> QED  BY <2>1 DEF Working, Retirement, Last
<1>2. Parts'
  <2> SUFFICES ASSUME ~halfway', NEW i \in {1, 2}, run.plan[i].file \notin edited
               PROVE  disk'[run.plan[i].file].ours =
                         IF Applied(i)' THEN run.plan[i].after.ours ELSE run.plan[i].before.ours
    BY DEF Parts
  <2>1. CASE i = k
    BY <2>1
  <2>2. CASE i # k
    <3>1. run.plan[i].file # run.plan[k].file /\ run.plan[i].file \in File /\ i \in DOMAIN run.plan
      BY <1>0, <2>2, PlanFacts DEF Running, Same
    <3>2. disk'[run.plan[i].file] = disk[run.plan[i].file] /\ Applied(i)' = Applied(i)
      BY <2>2, <3>1
    <3> QED  BY <3>2 DEF Working, Parts
  <2> QED  BY <2>1, <2>2
<1>3. ASSUME NEW i \in DOMAIN run.plan, run.plan[i].file \notin since
      PROVE  Holds(i)'
  <2>0. Holds(i) /\ run.plan[i].file \in File
    BY <1>0, <1>3, PlanFacts DEF Working, AsPlanned, Running
  <2>1. CASE ~Same(i, k)
    <3>1. i # k /\ disk'[run.plan[i].file] = disk[run.plan[i].file]
      BY <2>0, <2>1 DEF Same
    <3>2. \A j \in DOMAIN run.plan : Same(i, j) => j # k /\ Applied(j)' = Applied(j)
      BY <2>1
    <3> QED  BY <2>0, <3>1, <3>2 DEF Holds, Same
  <2>2. CASE Same(i, k)
    <3>1. /\ disk'[run.plan[k].file] = IF Applied(k)' THEN run.plan[k].after ELSE run.plan[k].before
          /\ \A j \in DOMAIN run.plan \ {k} : Same(k, j) => ~Applied(j)'
      BY <1>3, <2>2 DEF Same
    <3>2. run.plan[i].before = run.plan[k].before /\ run.plan[i].after = run.plan[k].after
      BY <1>0, <2>2, PlanFacts DEF Running
    <3>3. run.plan[i].file = run.plan[k].file
      BY <2>2 DEF Same
    <3>4. \A j \in DOMAIN run.plan : Same(i, j) <=> Same(k, j)
      BY <3>3 DEF Same
    <3>5. CASE Applied(k)'
      <4>1. Applied(i)' => i = k
        BY <3>1, <3>3 DEF Same
      <4> QED  BY <3>1, <3>2, <3>3, <3>4, <3>5, <4>1 DEF Holds, Same
    <3>6. CASE ~Applied(k)'
      <4>1. \A j \in DOMAIN run.plan : Same(i, j) => ~Applied(j)'
        BY <3>1, <3>4, <3>6
      <4>2. ~Applied(i)'
        BY <4>1 DEF Same
      <4> QED  BY <3>1, <3>2, <3>3, <3>6, <4>1, <4>2 DEF Holds, Same
    <3> QED  BY <3>5, <3>6
  <2> QED  BY <2>1, <2>2
<1>4. AsPlanned'
  BY <1>3 DEF AsPlanned
<1> QED  BY <1>1, <1>2, <1>4

\* The change it is at.
LEMMA AtPlan ==
    ASSUME Running, run.at >= 1, run.at <= Len(run.plan)
    PROVE  /\ run.at \in DOMAIN run.plan /\ This = run.plan[run.at] /\ This.file \in File
           /\ This.before \in ContentOf(This.file) /\ This.after \in ContentOf(This.file)
           /\ run.at - 1 \in Nat /\ run.at + 1 \in Nat /\ run.at \in Nat
           /\ run.at + 1 <= Len(run.plan) + 1 /\ run.at - 1 <= Len(run.plan)
<1>1. run.at \in Nat /\ Len(run.plan) \in Nat
  BY PlanFacts DEF Running, RunType
<1> QED  BY <1>1, PlanFacts DEF Running, This

LEMMA CompareKeeps ==
    ASSUME Ground, Working, Compare
    PROVE  Working' /\ run' # NoRun
<1>0. Running /\ run.at >= 1 /\ run.at <= Len(run.plan)
  BY DEF Compare, Working, Running, RunType
<1> PICK k \in DOMAIN run.plan : k = run.at
  BY <1>0, AtPlan
<1>1. /\ run.step = "compare" /\ k >= 1 /\ k <= Len(run.plan) /\ Running
      /\ window' = FALSE /\ UNCHANGED <<disk, halfway, edits, since, edited>>
  BY <1>0 DEF Compare, Quiet
<1>2. /\ k \in DOMAIN run.plan /\ This = run.plan[k] /\ This.file \in File
      /\ k - 1 \in Nat /\ k + 1 \in Nat /\ k \in Nat /\ k + 1 <= Len(run.plan) + 1 /\ k - 1 <= Len(run.plan)
  BY <1>1, AtPlan
<1>3. run \in RunType /\ Proper(run.plan) /\ Len(run.plan) \in Nat /\ DOMAIN run.plan = 1 .. Len(run.plan)
  BY <1>1, PlanFacts DEF Running
<1>4. CASE disk[This.file] # This.before
  <2>1. Goto("undo", k - 1)
    BY <1>4 DEF Compare
  <2>2. run'.step = "undo" /\ run'.at = k - 1 /\ run'.plan = run.plan /\ run' # NoRun /\ run' \in RunType
    BY <1>2, <1>3, <2>1, GotoRun DEF Steps
  <2>3. \A i \in DOMAIN run.plan : Applied(i)' = Applied(i)
    BY <1>1, <1>2, <1>3, <2>2 DEF Applied
  <2>4. AsPlanned' /\ Parts' /\ Retirement'
    BY <1>1, <2>2, <2>3, WorkStays
  <2>5. Running' /\ Looked'
    BY <1>2, <1>3, <2>2 DEF Running, Looked, Steps
  <2> QED  BY <2>2, <2>4, <2>5 DEF Working
<1>5. CASE disk[This.file] = This.before /\ This.before = This.after
  <2>1. Goto("compare", k + 1)
    BY <1>5 DEF Compare
  <2>2. run'.step = "compare" /\ run'.at = k + 1 /\ run'.plan = run.plan /\ run' # NoRun /\ run' \in RunType
    BY <1>2, <1>3, <2>1, GotoRun DEF Steps
  <2>3. /\ \A i \in DOMAIN run.plan \ {k} : Applied(i)' = Applied(i)
        /\ Applied(k)' /\ ~Applied(k)
    BY <1>1, <1>2, <1>3, <2>2 DEF Applied
  <2>4. \A j \in DOMAIN run.plan \ {k} : ~Same(k, j)
    BY <1>2, <1>3, <1>5, PlanFacts
  <2>5. AsPlanned' /\ Parts' /\ Retirement'
    BY <1>1, <1>2, <1>5, <2>2, <2>3, <2>4, WorkMoves
  <2>6. Running' /\ Looked'
    BY <1>2, <1>3, <2>2 DEF Running, Looked, Steps
  <2> QED  BY <2>2, <2>5, <2>6 DEF Working
<1>6. CASE disk[This.file] = This.before /\ This.before # This.after
  <2>1. Goto("write", k)
    BY <1>6 DEF Compare
  <2>2. run'.step = "write" /\ run'.at = k /\ run'.plan = run.plan /\ run' # NoRun /\ run' \in RunType
    BY <1>2, <1>3, <2>1, GotoRun DEF Steps
  <2>3. \A i \in DOMAIN run.plan : Applied(i)' = Applied(i)
    BY <1>1, <1>2, <1>3, <2>2 DEF Applied
  <2>4. AsPlanned' /\ Parts' /\ Retirement'
    BY <1>1, <2>2, <2>3, WorkStays
  <2>5. Running'
    BY <1>1, <1>2, <1>3, <2>2 DEF Running, Steps
  <2>6. Looked'
    BY <1>1, <1>2, <1>6, <2>2 DEF Looked, This
  <2> QED  BY <2>2, <2>4, <2>5, <2>6 DEF Working
<1> QED  BY <1>4, <1>5, <1>6

LEMMA WriteKeeps ==
    ASSUME Ground, Working, Write
    PROVE  Working' /\ run' # NoRun /\ disk' \in Disk
<1>0. Running /\ run.at >= 1 /\ run.at <= Len(run.plan)
  BY DEF Write, Working, Running, RunType
<1> PICK k \in DOMAIN run.plan : k = run.at
  BY <1>0, AtPlan
<1>1. /\ run.step = "write" /\ k >= 1 /\ k <= Len(run.plan) /\ Running
      /\ window' = FALSE /\ UNCHANGED <<halfway, edits, since, edited>>
  BY <1>0 DEF Write, Quiet
<1>2. /\ k \in DOMAIN run.plan /\ This = run.plan[k] /\ This.file \in File
      /\ This.before \in ContentOf(This.file) /\ This.after \in ContentOf(This.file)
      /\ k - 1 \in Nat /\ k + 1 \in Nat /\ k \in Nat /\ k + 1 <= Len(run.plan) + 1 /\ k - 1 <= Len(run.plan)
  BY <1>1, AtPlan
<1>3. run \in RunType /\ Proper(run.plan) /\ Len(run.plan) \in Nat /\ DOMAIN run.plan = 1 .. Len(run.plan)
  BY <1>1, PlanFacts DEF Running
<1>4. CASE disk' = [disk EXCEPT ![This.file] = This.after] /\ Goto("compare", k + 1)
  <2>1. disk' \in Disk /\ disk'[This.file] = This.after /\ \A g \in File \ {This.file} : disk'[g] = disk[g]
    BY <1>2, <1>4, Replaced DEF Ground
  <2>2. run'.step = "compare" /\ run'.at = k + 1 /\ run'.plan = run.plan /\ run' # NoRun /\ run' \in RunType
    BY <1>2, <1>3, <1>4, GotoRun DEF Steps
  <2>3. /\ \A i \in DOMAIN run.plan \ {k} : Applied(i)' = Applied(i)
        /\ Applied(k)' /\ ~Applied(k)
    BY <1>1, <1>2, <1>3, <2>2 DEF Applied
  <2>4. This.file \notin since => disk[This.file] = This.before
    BY <1>1 DEF Working, Looked
  <2>5. ASSUME This.file \notin since, NEW j \in DOMAIN run.plan \ {k}, Same(k, j)
        PROVE  ~Applied(j)
    <3>1. run.plan[j].file = This.file /\ run.plan[j].after = This.after /\ This.before # This.after
      BY <1>2, <1>3, <2>5, PlanFacts DEF Same
    <3>2. Applied(j) => disk[This.file] = This.after
      BY <2>5, <3>1 DEF Working, AsPlanned, Holds
    <3> QED  BY <2>4, <2>5, <3>1, <3>2
  <2>6. AsPlanned' /\ Parts' /\ Retirement'
    BY <1>1, <1>2, <2>1, <2>2, <2>3, <2>5, WorkMoves
  <2>7. Running' /\ Looked'
    BY <1>2, <1>3, <2>2 DEF Running, Looked, Steps
  <2> QED  BY <2>1, <2>2, <2>6, <2>7 DEF Working
<1>5. CASE Goto("undo", k - 1) /\ disk' = disk
  <2>2. run'.step = "undo" /\ run'.at = k - 1 /\ run'.plan = run.plan /\ run' # NoRun /\ run' \in RunType
    BY <1>2, <1>3, <1>5, GotoRun DEF Steps
  <2>3. \A i \in DOMAIN run.plan : Applied(i)' = Applied(i)
    BY <1>1, <1>2, <1>3, <2>2 DEF Applied
  <2>4. AsPlanned' /\ Parts' /\ Retirement'
    BY <1>1, <1>5, <2>2, <2>3, WorkStays
  <2>5. Running' /\ Looked'
    BY <1>2, <1>3, <2>2 DEF Running, Looked, Steps
  <2> QED  BY <1>5, <2>2, <2>4, <2>5 DEF Working, Ground
<1> QED  BY <1>4, <1>5 DEF Write

\* What counts as done while it is undone.
LEMMA AppliedUndo ==
    ASSUME NEW k \in Nat, NEW n \in Nat, DOMAIN run.plan = 1 .. n,
           run.step \in {"undo", "restore"}, run.at = k, run'.step = "undo", run'.at = k - 1
    PROVE  (\A i \in DOMAIN run.plan \ {k} : Applied(i)' = Applied(i)) /\ ~Applied(k)'
<1>1. ASSUME NEW i \in 1 .. n, i # k PROVE (i <= k - 1) = (i <= k)
  <2>1. (i <= k - 1) <=> (i <= k)
    BY <1>1
  <2> QED  BY <2>1
<1>2. \A i : Applied(i)' = (i <= k - 1)
  BY DEF Applied
<1>3. \A i : Applied(i) = (i <= k)
  BY DEF Applied
<1>4. ~(k <= k - 1)
  OBVIOUS
<1>5. ASSUME NEW i \in DOMAIN run.plan \ {k} PROVE Applied(i)' = Applied(i)
  BY <1>1, <1>2, <1>3
<1> QED  BY <1>2, <1>4, <1>5

LEMMA UndoKeeps ==
    ASSUME Ground, Working, Undo
    PROVE  Working' /\ run' # NoRun /\ halfway' \in BOOLEAN
<1>0. Running /\ run.at >= 1 /\ run.at <= Len(run.plan)
  BY DEF Undo, Working, Running, RunType
<1> PICK k \in DOMAIN run.plan : k = run.at
  BY <1>0, AtPlan
<1>1. /\ run.step = "undo" /\ k >= 1 /\ k <= Len(run.plan) /\ Running
      /\ window' = FALSE /\ UNCHANGED <<disk, edits, since, edited>>
  BY <1>0 DEF Undo, Quiet
<1>2. /\ k \in DOMAIN run.plan /\ This = run.plan[k] /\ This.file \in File
      /\ k - 1 \in Nat /\ k + 1 \in Nat /\ k \in Nat /\ k + 1 <= Len(run.plan) + 1 /\ k - 1 <= Len(run.plan)
  BY <1>1, AtPlan
<1>3. run \in RunType /\ Proper(run.plan) /\ Len(run.plan) \in Nat /\ DOMAIN run.plan = 1 .. Len(run.plan)
  BY <1>1, PlanFacts DEF Running
<1>4. Applied(k)
  BY <1>1, <1>2 DEF Applied
<1>5. This.file \notin since => /\ disk[This.file] = This.after
                                /\ \A j \in DOMAIN run.plan \ {k} : Same(k, j) => ~Applied(j)
  BY <1>2, <1>4 DEF Working, AsPlanned, Holds
<1>6. CASE This.before = This.after
  <2>1. Goto("undo", k - 1) /\ halfway' = halfway
    BY <1>6 DEF Undo
  <2>2. run'.step = "undo" /\ run'.at = k - 1 /\ run'.plan = run.plan /\ run' # NoRun /\ run' \in RunType
    BY <1>2, <1>3, <2>1, GotoRun DEF Steps
  <2>3. /\ \A i \in DOMAIN run.plan \ {k} : Applied(i)' = Applied(i)
        /\ ~Applied(k)'
    BY <1>1, <1>2, <1>3, <2>2, AppliedUndo
  <2>4. ~halfway' /\ k \in {1, 2} /\ This.file \notin edited => disk'[This.file].ours = This.before.ours
    BY <1>1, <1>2, <1>4, <1>6, <2>1 DEF Working, Parts
  <2>5. AsPlanned' /\ Parts' /\ Retirement'
    BY <1>1, <1>2, <1>4, <1>5, <1>6, <2>1, <2>2, <2>3, <2>4, WorkMoves
  <2>6. Running' /\ Looked'
    BY <1>2, <1>3, <2>2 DEF Running, Looked, Steps
  <2> QED  BY <2>1, <2>2, <2>5, <2>6 DEF Working, Ground
<1>7. CASE This.before # This.after /\ disk[This.file] = This.after
  <2>1. Goto("restore", k) /\ halfway' = halfway
    BY <1>7 DEF Undo
  <2>2. run'.step = "restore" /\ run'.at = k /\ run'.plan = run.plan /\ run' # NoRun /\ run' \in RunType
    BY <1>2, <1>3, <2>1, GotoRun DEF Steps
  <2>3. \A i \in DOMAIN run.plan : Applied(i)' = Applied(i)
    BY <1>1, <1>2, <1>3, <2>2 DEF Applied
  <2>4. AsPlanned' /\ Parts' /\ Retirement'
    BY <1>1, <2>1, <2>2, <2>3, WorkStays
  <2>5. Running'
    BY <1>1, <1>2, <1>3, <2>2 DEF Running, Steps
  <2>6. Looked'
    BY <1>1, <1>2, <1>7, <2>2 DEF Looked, This
  <2> QED  BY <2>1, <2>2, <2>4, <2>5, <2>6 DEF Working, Ground
<1>8. CASE This.before # This.after /\ disk[This.file] # This.after
  <2>1. Goto("undo", k - 1) /\ halfway' = TRUE
    BY <1>8 DEF Undo
  <2>2. run'.step = "undo" /\ run'.at = k - 1 /\ run'.plan = run.plan /\ run' # NoRun /\ run' \in RunType
    BY <1>2, <1>3, <2>1, GotoRun DEF Steps
  <2>3. /\ \A i \in DOMAIN run.plan \ {k} : Applied(i)' = Applied(i)
        /\ ~Applied(k)'
    BY <1>1, <1>2, <1>3, <2>2, AppliedUndo
  <2>4. AsPlanned' /\ Parts' /\ Retirement'
    BY <1>1, <1>2, <1>4, <1>5, <1>8, <2>1, <2>2, <2>3, WorkMoves
  <2>5. Running' /\ Looked'
    BY <1>2, <1>3, <2>2 DEF Running, Looked, Steps
  <2> QED  BY <2>1, <2>2, <2>4, <2>5 DEF Working
<1> QED  BY <1>6, <1>7, <1>8

LEMMA RestoreKeeps ==
    ASSUME Ground, Working, Restore
    PROVE  Working' /\ run' # NoRun /\ disk' \in Disk
<1>0. Running /\ run.at >= 1 /\ run.at <= Len(run.plan)
  BY DEF Restore, Working, Running, RunType
<1> PICK k \in DOMAIN run.plan : k = run.at
  BY <1>0, AtPlan
<1>1. /\ run.step = "restore" /\ k >= 1 /\ k <= Len(run.plan) /\ Running
      /\ window' = FALSE /\ UNCHANGED <<halfway, edits, since, edited>>
      /\ disk' = [disk EXCEPT ![This.file] = This.before] /\ Goto("undo", k - 1)
  BY <1>0 DEF Restore, Quiet
<1>2. /\ k \in DOMAIN run.plan /\ This = run.plan[k] /\ This.file \in File
      /\ This.before \in ContentOf(This.file)
      /\ k - 1 \in Nat /\ k + 1 \in Nat /\ k \in Nat /\ k + 1 <= Len(run.plan) + 1 /\ k - 1 <= Len(run.plan)
  BY <1>1, AtPlan
<1>3. run \in RunType /\ Proper(run.plan) /\ Len(run.plan) \in Nat /\ DOMAIN run.plan = 1 .. Len(run.plan)
  BY <1>1, PlanFacts DEF Running
<1>4. Applied(k)
  BY <1>1, <1>2 DEF Applied
<1>5. This.file \notin since => \A j \in DOMAIN run.plan \ {k} : Same(k, j) => ~Applied(j)
  BY <1>2, <1>4 DEF Working, AsPlanned, Holds
<1>6. disk' \in Disk /\ disk'[This.file] = This.before /\ \A g \in File \ {This.file} : disk'[g] = disk[g]
  BY <1>1, <1>2, Replaced DEF Ground
<1>7. run'.step = "undo" /\ run'.at = k - 1 /\ run'.plan = run.plan /\ run' # NoRun /\ run' \in RunType
  BY <1>1, <1>2, <1>3, GotoRun DEF Steps
<1>8. /\ \A i \in DOMAIN run.plan \ {k} : Applied(i)' = Applied(i)
      /\ ~Applied(k)'
  BY <1>1, <1>2, <1>3, <1>7, AppliedUndo
<1>9. AsPlanned' /\ Parts' /\ Retirement'
  <2>1. since' = since /\ edited' = edited /\ halfway' = halfway /\ This = run.plan[k]
    BY <1>1, <1>2
  <2> QED  BY <1>4, <1>5, <1>6, <1>7, <1>8, <2>1, WorkMoves
<1>10. Running' /\ Looked'
  BY <1>2, <1>3, <1>7 DEF Running, Looked, Steps
<1> QED  BY <1>6, <1>7, <1>9, <1>10 DEF Working

LEMMA GroundStays ==
    ASSUME Ground, disk' \in Disk, window' \in BOOLEAN, halfway' \in BOOLEAN, UNCHANGED <<edits, since, edited>>
    PROVE  Ground'
  BY DEF Ground

\* Others edit whatever they like, but not the receipt.
LEMMA EditsType ==
    ASSUME disk \in Disk, NEW f \in Client \cup {"project", "selector"}, NEW value \in Edits(f)
    PROVE  value \in ContentOf(f)
<1>1. CASE f \in Client
  <2>1. disk.receipt.version \in Version \cup {None} /\ disk[f].ours \in Version \cup {None, Edited}
    BY <1>1 DEF Disk, Receipt, Settings, Client
  <2>2. value \in [user : Text, ours : {None, Edited, disk.receipt.version, disk[f].ours}]
    <3>1. f # "project" /\ f # "selector"
      BY <1>1 DEF Client
    <3> QED  BY <1>1, <3>1, Zenon DEF Edits
  <2>3. value \in Settings
    BY <2>1, <2>2 DEF Settings
  <2>4. f = "toml" \/ f = "hooks"
    BY <1>1 DEF Client
  <2> QED  BY <2>3, <2>4 DEF ContentOf, Client
<1>2. CASE f = "project"
  <2>1. Edits(f) = Project
    BY <1>2 DEF Edits, Client
  <2> QED  BY <1>2, <2>1 DEF ContentOf, Client
<1>3. CASE f = "selector"
  <2>1. Edits(f) = Selector
    BY <1>3 DEF Edits, Client
  <2> QED  BY <1>3, <2>1 DEF ContentOf, Client
<1> QED  BY <1>1, <1>2, <1>3

LEMMA EditKeeps ==
    ASSUME InstInv, NEW f \in Client \cup {"project", "selector"}, NEW value \in Edits(f), Edit(f, value)
    PROVE  InstInv'
<1>0. Ground /\ f \in File /\ f # "receipt" /\ value \in ContentOf(f)
  BY EditsType DEF InstInv, Ground, File, Client
<1>1. /\ disk' = [disk EXCEPT ![f] = value] /\ edits' = edits + 1 /\ edits < MaxEdits
      /\ since' = IF run = NoRun THEN {} ELSE since \cup {f}
      /\ window' = (window \/ (run.step \in {"write", "restore"} /\ run.plan[run.at].file = f))
      /\ edited' = edited \cup (IF f \in Client => value.ours # disk[f].ours THEN {f} ELSE {})
      /\ run' = run /\ halfway' = halfway
  BY DEF Edit
<1>2. disk' \in Disk /\ disk'[f] = value /\ \A g \in File \ {f} : disk'[g] = disk[g]
  BY <1>0, <1>1, Replaced DEF Ground
<1>1a. edited \subseteq edited' /\ edited' \subseteq edited \cup {f} /\ (f \notin Client => f \in edited')
  BY <1>1
<1>1b. "project" \notin Client
  BY DEF Client
<1>3. Ground'
  <2>1. f = "project" => "project" \in edited'
    BY <1>1a, <1>1b
  <2>2. window' \in BOOLEAN /\ edits' \in 0 .. MaxEdits
    BY <1>0, <1>1, InstallationAssumption DEF Ground
  <2>3. since' \subseteq File \ {"receipt"} /\ edited' \subseteq File
    BY <1>0, <1>1, <1>1a DEF Ground
  <2>4. "project" \in since' => "project" \in edited'
    <3>1. since' \subseteq since \cup {f}
      BY <1>1
    <3> QED  BY <1>0, <1>1a, <2>1, <3>1 DEF Ground
  <2>5. halfway' \in BOOLEAN
    BY <1>0, <1>1 DEF Ground
  <2> QED  BY <1>2, <2>2, <2>3, <2>4, <2>5 DEF Ground
<1>4. \A g \in Client : g \notin edited' => g \notin edited /\ disk'[g].ours = disk[g].ours
  BY <1>1, <1>2 DEF File, Client
<1>5. "project" \notin edited' => "project" \notin edited /\ disk'.project = disk.project
  <2>1. f = "project" => "project" \in edited'
    BY <1>1a, <1>1b
  <2>2. f # "project" => disk'["project"] = disk["project"]
    BY <1>2 DEF File
  <2> QED  BY <1>1, <2>1, <2>2
<1>6. disk'.receipt = disk.receipt
  <2>1. disk'["receipt"] = disk["receipt"]
    BY <1>0, <1>2 DEF File
  <2> QED  BY <2>1
<1>7. CASE run = NoRun
  <2>1. ReceiptTrue
    BY <1>7 DEF InstInv
  <2>2. ReceiptTrue'
    BY <1>1, <1>4, <1>5, <1>6, <2>1 DEF ReceiptTrue
  <2> QED  BY <1>1, <1>3, <1>7, <2>2 DEF InstInv
<1>8. CASE run # NoRun
  <2>0. Working /\ Running /\ since' = since \cup {f}
    BY <1>1, <1>8 DEF InstInv, Working
  <2>1. Running'
    BY <1>1, <2>0 DEF Running
  <2>2. AsPlanned'
    <3> SUFFICES ASSUME NEW i \in DOMAIN run.plan, run.plan[i].file \notin since \cup {f}
                 PROVE  Holds(i)'
      BY <1>1, <2>0 DEF AsPlanned
    <3>1. disk'[run.plan[i].file] = disk[run.plan[i].file]
      BY <1>2, <2>0, PlanFacts DEF Running
    <3>2. Holds(i)
      BY <2>0 DEF Working, AsPlanned
    <3> QED  BY <1>1, <3>1, <3>2 DEF Holds, Same, Applied
  <2>3. Looked'
    <3> SUFFICES ASSUME run.step \in {"write", "restore"}
                 PROVE  IF window' THEN This.file \in since'
                        ELSE disk'[This.file] = IF run.step = "write" THEN This.before ELSE This.after
      BY <1>1 DEF Looked, This
    <3>1. IF window THEN This.file \in since
          ELSE disk[This.file] = IF run.step = "write" THEN This.before ELSE This.after
      BY <2>0 DEF Working, Looked
    <3>2. This.file \in File
      BY <2>0, AtPlan DEF Running
    <3>3. CASE This.file = f
      BY <1>1, <2>0, <3>3 DEF This
    <3>4. CASE This.file # f
      BY <1>1, <1>2, <2>0, <3>1, <3>2, <3>4 DEF This, Ground
    <3> QED  BY <3>3, <3>4
  <2>4. Parts'
    <3> SUFFICES ASSUME ~halfway, NEW i \in {1, 2}, run.plan[i].file \notin edited'
                 PROVE  disk'[run.plan[i].file].ours =
                           IF Applied(i) THEN run.plan[i].after.ours ELSE run.plan[i].before.ours
      BY <1>1 DEF Parts, Applied
    <3>1. run.plan[i].file \in Client
      BY <2>0, PlanFacts DEF Running, Client
    <3> QED  BY <1>4, <2>0, <3>1 DEF Working, Parts
  <2>5. Retirement'
    BY <1>1, <1>5, <2>0 DEF Working, Retirement, Last
  <2> QED  BY <1>1, <1>3, <1>8, <2>1, <2>2, <2>3, <2>4, <2>5 DEF InstInv, Working
<1> QED  BY <1>7, <1>8

\* A plan is made of what the files hold.
LEMMA BeginKeeps ==
    ASSUME InstInv, NEW op \in {"install", "remove"}, NEW plan \in Seq(Changes),
           Proper(plan), PlannedNow(plan), Begin(op, plan)
    PROVE  InstInv'
<1>1. /\ run' = [op |-> op, plan |-> plan, at |-> 1, step |-> "compare"]
      /\ UNCHANGED <<disk, edits, since, window, edited, halfway>> /\ run = NoRun /\ Owned
  BY DEF Begin, aux
<1>2. run'.plan = plan /\ run'.at = 1 /\ run'.step = "compare" /\ run' \in RunType /\ run' # NoRun
  BY <1>1, Idle DEF RunType, Steps, NoRun
<1>3. Ground /\ Ground' /\ since = {} /\ ReceiptTrue
  BY <1>1 DEF InstInv, Ground
<1>4. Len(plan) \in Nat /\ Len(plan) >= 3 /\ DOMAIN plan = 1 .. Len(plan)
  BY DEF Proper
<1>5. Running'
  BY <1>2, <1>4 DEF Running, Steps
<1>6. \A i \in DOMAIN plan : ~Applied(i)'
  BY <1>2, <1>4 DEF Applied
<1>7. \A i \in DOMAIN plan : disk'[plan[i].file] = plan[i].before
  BY <1>1 DEF PlannedNow
<1>8. AsPlanned' /\ Looked'
  BY <1>2, <1>6, <1>7 DEF AsPlanned, Holds, Looked
<1>9. Parts'
  BY <1>2, <1>4, <1>6, <1>7 DEF Parts
<1>10. Retirement'
  <2> DEFINE last == plan[Len(plan)]
  <2>1. last.file = "receipt" /\ last.before = disk[last.file]
    BY <1>4 DEF Proper, PlannedNow
  <2>2. last.before = disk.receipt
    BY <2>1
  <2>3. ~halfway /\ "project" \notin edited /\ disk.project = "empty" => disk.receipt.retired > 0
    BY <1>1, <1>3 DEF ReceiptTrue
  <2> QED  BY <1>1, <1>2, <2>2, <2>3 DEF Retirement, Last, PlannedNow
<1> QED  BY <1>2, <1>3, <1>5, <1>8, <1>9, <1>10 DEF InstInv, Working

\* When everything was done, or everything put back, the receipt is right.
LEMMA RestingTrue ==
    ASSUME Ground, Working, ~halfway,
           \/ \A i \in DOMAIN run.plan : Applied(i)
           \/ \A i \in DOMAIN run.plan : ~Applied(i)
    PROVE  /\ \A f \in Client \ edited : disk[f].ours = disk.receipt.version
           /\ disk.project = "empty" /\ "project" \notin edited => disk.receipt.retired > 0
<1>0. Running /\ Proper(run.plan)
  BY DEF Working, Running
<1>1. Len(run.plan) \in DOMAIN run.plan /\ Last.file = "receipt"
  BY <1>0 DEF Proper, Last
<1>2. /\ \A i \in {1, 2} : run.plan[i].before.ours = Last.before.version /\ run.plan[i].after.ours = Last.after.version
      /\ 1 \in DOMAIN run.plan /\ 2 \in DOMAIN run.plan
      /\ run.plan[1].file = "toml" /\ run.plan[2].file = "hooks"
  BY <1>0, PlanFacts DEF Proper, Last
<1>3. CASE \A i \in DOMAIN run.plan : Applied(i)
  <2>1. \A i \in DOMAIN run.plan : run.plan[i].file \notin since => disk[run.plan[i].file] = run.plan[i].after
    BY <1>3 DEF Working, AsPlanned, Holds
  <2>2. disk.receipt = Last.after
    <3>1. disk["receipt"] = Last.after
      BY <1>1, <2>1 DEF Ground, Last
    <3> QED  BY <3>1
  <2>3. \A f \in Client \ edited : disk[f].ours = disk.receipt.version
    BY <1>2, <1>3, <2>2 DEF Working, Parts, Client
  <2>4. ASSUME disk.project = "empty", "project" \notin edited PROVE disk.receipt.retired > 0
    <3>1. ASSUME NEW i \in DOMAIN run.plan, run.plan[i].file = "project" PROVE Last.after.retired > 0
      <4>1. disk["project"] = run.plan[i].after
        BY <2>1, <2>4, <3>1 DEF Ground
      <4> QED  BY <2>4, <3>1, <4>1 DEF Working, Retirement
    <3> QED  BY <2>2, <2>4, <3>1 DEF Working, Retirement
  <2> QED  BY <2>3, <2>4
<1>4. CASE \A i \in DOMAIN run.plan : ~Applied(i)
  <2>1. \A i \in DOMAIN run.plan : run.plan[i].file \notin since => disk[run.plan[i].file] = run.plan[i].before
    BY <1>4 DEF Working, AsPlanned, Holds
  <2>2. disk.receipt = Last.before
    <3>1. disk["receipt"] = Last.before
      BY <1>1, <2>1 DEF Ground, Last
    <3> QED  BY <3>1
  <2>3. \A f \in Client \ edited : disk[f].ours = disk.receipt.version
    BY <1>2, <1>4, <2>2 DEF Working, Parts, Client
  <2>4. ASSUME disk.project = "empty", "project" \notin edited PROVE disk.receipt.retired > 0
    <3>1. ASSUME NEW i \in DOMAIN run.plan, run.plan[i].file = "project" PROVE Last.before.retired > 0
      <4>1. disk["project"] = run.plan[i].before
        BY <2>1, <2>4, <3>1 DEF Ground
      <4> QED  BY <2>4, <3>1, <4>1 DEF Working, Retirement
    <3> QED  BY <2>2, <2>4, <3>1 DEF Working, Retirement
  <2> QED  BY <2>3, <2>4
<1> QED  BY <1>3, <1>4

LEMMA OverKeeps ==
    ASSUME InstInv, run # NoRun, NEW half \in BOOLEAN, Over(half), disk' = disk,
           \/ half
           \/ \A i \in DOMAIN run.plan : Applied(i)
           \/ \A i \in DOMAIN run.plan : ~Applied(i)
    PROVE  InstInv'
<1>1. /\ run' = NoRun /\ since' = {} /\ window' = FALSE /\ halfway' = (halfway \/ half)
      /\ UNCHANGED <<edits, edited>>
  BY DEF Over
<1>2. Ground /\ Working
  BY DEF InstInv
<1>3. Ground'
  BY <1>1, <1>2 DEF Ground
<1>4. ReceiptTrue'
  BY <1>1, <1>2, RestingTrue DEF ReceiptTrue
<1> QED  BY <1>1, <1>3, <1>4 DEF InstInv

LEMMA InstStep == InstInv /\ [Next]_vars => InstInv'
<1> SUFFICES ASSUME InstInv, [Next]_vars PROVE InstInv'
  OBVIOUS
<1>0. Ground /\ (run # NoRun => Working /\ Running)
  BY DEF InstInv, Working
<1>1. ASSUME NEW f \in Client \cup {"project", "selector"}, NEW value \in Edits(f), Edit(f, value)
      PROVE  InstInv'
  BY <1>1, EditKeeps
<1>2. ASSUME NEW v \in Version, NEW retire \in BOOLEAN, Install(v, retire) PROVE InstInv'
  BY <1>0, <1>2, InstallingProper, BeginKeeps DEF Install, Begin, Ground
<1>3. CASE Remove
  BY <1>0, <1>3, RemovingProper, BeginKeeps DEF Remove, Begin, Ground
<1>4. CASE Refuse \/ UNCHANGED vars
  <2>1. UNCHANGED <<disk, run, edits, since, window, edited, halfway>>
    BY <1>4 DEF Refuse, vars, aux
  <2> QED
    BY <2>1 DEF InstInv, Ground, ReceiptTrue, Working, Running, AsPlanned, Holds, Same, Applied,
                Looked, This, Parts, Retirement, Last
<1>5. CASE Compare
  <2>1. run # NoRun
    BY <1>5, Idle DEF Compare
  <2>2. Working' /\ run' # NoRun
    BY <1>0, <1>5, <2>1, CompareKeeps
  <2>3. Ground'
    BY <1>0, <1>5, GroundStays DEF Compare, Quiet, Ground
  <2> QED  BY <2>2, <2>3 DEF InstInv
<1>6. CASE Write
  <2>1. run # NoRun
    BY <1>6, Idle DEF Write
  <2>2. Working' /\ run' # NoRun /\ disk' \in Disk
    BY <1>0, <1>6, <2>1, WriteKeeps
  <2>3. Ground'
    BY <1>0, <1>6, <2>2, GroundStays DEF Write, Quiet, Ground
  <2> QED  BY <2>2, <2>3 DEF InstInv
<1>7. CASE Undo
  <2>1. run # NoRun
    BY <1>7, Idle DEF Undo
  <2>2. Working' /\ run' # NoRun /\ halfway' \in BOOLEAN
    BY <1>0, <1>7, <2>1, UndoKeeps
  <2>3. Ground'
    BY <1>0, <1>7, <2>2, GroundStays DEF Undo, Quiet, Ground
  <2> QED  BY <2>2, <2>3 DEF InstInv
<1>8. CASE Restore
  <2>1. run # NoRun
    BY <1>8, Idle DEF Restore
  <2>2. Working' /\ run' # NoRun /\ disk' \in Disk
    BY <1>0, <1>8, <2>1, RestoreKeeps
  <2>3. Ground'
    BY <1>0, <1>8, <2>2, GroundStays DEF Restore, Quiet, Ground
  <2> QED  BY <2>2, <2>3 DEF InstInv
<1>9. CASE Finish
  <2>1. run # NoRun
    BY <1>9, Idle DEF Finish
  <2>2. \A i \in DOMAIN run.plan : Applied(i)
    BY <1>0, <1>9, <2>1, PlanFacts DEF Finish, Applied, Running, RunType
  <2> QED  BY <1>9, <2>1, <2>2, OverKeeps DEF Finish
<1>10. CASE GiveUp
  <2>1. run # NoRun
    BY <1>10, Idle DEF GiveUp
  <2>2. CASE run.step = "undo" /\ run.at = 0 /\ Over(FALSE)
    <3>1. \A i \in DOMAIN run.plan : ~Applied(i)
      BY <1>0, <2>1, <2>2, PlanFacts DEF Applied, Running
    <3> QED  BY <1>10, <2>1, <2>2, <3>1, OverKeeps DEF GiveUp
  <2>3. CASE run.step = "restore" /\ Over(TRUE)
    BY <1>10, <2>1, <2>3, OverKeeps DEF GiveUp
  <2> QED  BY <1>10, <2>2, <2>3 DEF GiveUp
<1>11. CASE Crash
  BY <1>11, OverKeeps DEF Crash
<1> QED
  BY <1>1, <1>2, <1>3, <1>4, <1>5, <1>6, <1>7, <1>8, <1>9, <1>10, <1>11 DEF Next

LEMMA InstStarts == Init => InstInv
<1> SUFFICES ASSUME Init PROVE InstInv
  OBVIOUS
<1>1. PICK t \in Text :
         disk = [toml |-> [user |-> t, ours |-> None], hooks |-> [user |-> t, ours |-> None],
                 project |-> "local", selector |-> [user |-> t, mcp |-> FALSE],
                 receipt |-> [version |-> None, retired |-> 0]]
  BY DEF Init
<1>2. disk \in Disk
  <2>1. 0 \in 0 .. MaxRetired
    BY InstallationAssumption
  <2>2. /\ [user |-> t, ours |-> None] \in Settings /\ [user |-> t, mcp |-> FALSE] \in Selector
        /\ [version |-> None, retired |-> 0] \in Receipt /\ "local" \in Project
    BY <2>1 DEF Settings, Selector, Receipt, Project
  <2>3. ASSUME NEW a \in Settings, NEW s \in Selector, NEW r \in Receipt
        PROVE  [toml |-> a, hooks |-> a, project |-> "local", selector |-> s, receipt |-> r] \in Disk
    BY <2>2 DEF Disk
  <2> QED  BY <1>1, <2>2, <2>3
<1>3. Ground
  <2>1. edits = 0 /\ since = {} /\ window = FALSE /\ edited = {} /\ halfway = FALSE
    BY DEF Init
  <2>2. 0 \in 0 .. MaxEdits
    BY InstallationAssumption
  <2> QED  BY <1>2, <2>1, <2>2 DEF Ground
<1>4. ReceiptTrue
  BY <1>1 DEF ReceiptTrue, Client
<1> QED  BY <1>3, <1>4 DEF Init, InstInv

LEMMA InstInvariant == Spec => []InstInv
  BY InstStarts, InstStep, PTL DEF Spec

\* Every file and every plan is of a kind the program writes.
THEOREM InstallationTypes == Spec => []TypeOK
<1>1. InstInv => TypeOK
  <2> SUFFICES ASSUME InstInv PROVE TypeOK
    OBVIOUS
  <2>1. Ground
    BY DEF InstInv
  <2>2. ASSUME NEW f \in File, NEW v \in ContentOf(f) PROVE [disk EXCEPT ![f] = v] \in Disk
    <3>1. CASE f = "toml"
      BY <2>1, <2>2, <3>1 DEF Ground, Disk, ContentOf, Client
    <3>2. CASE f = "hooks"
      BY <2>1, <2>2, <3>2 DEF Ground, Disk, ContentOf, Client
    <3>3. CASE f = "project"
      BY <2>1, <2>2, <3>3 DEF Ground, Disk, ContentOf, Client
    <3>4. CASE f = "selector"
      BY <2>1, <2>2, <3>4 DEF Ground, Disk, ContentOf, Client
    <3>5. CASE f = "receipt"
      BY <2>1, <2>2, <3>5 DEF Ground, Disk, ContentOf, Client
    <3> QED  BY <3>1, <3>2, <3>3, <3>4, <3>5 DEF File
  <2>3. DOMAIN disk = File
    BY <2>1 DEF Ground, Disk, File
  <2>4. /\ disk \in Disk /\ edits \in 0 .. MaxEdits /\ since \subseteq DOMAIN disk /\ edited \subseteq DOMAIN disk
        /\ {window, halfway} \subseteq BOOLEAN
    BY <2>1, <2>3 DEF Ground
  <2>5. CASE run = NoRun
    <3>1. run.op = "none" /\ run.step = "idle" /\ run.at = 0 /\ run.plan = << >>
      BY <2>5 DEF NoRun
    <3>2. Len(<< >>) = 0 /\ DOMAIN << >> = {}
      OBVIOUS
    <3> QED  BY <2>4, <3>1, <3>2 DEF TypeOK
  <2>6. CASE run # NoRun
    <3>1. Running
      BY <2>6 DEF InstInv, Working
    <3>2. run.op \in {"none", "install", "remove"} /\ run.step \in {"idle", "compare", "write", "undo", "restore"}
      BY <3>1 DEF Running, RunType, Steps
    <3>3. run.at \in 0 .. Len(run.plan) + 1
      BY <3>1, PlanFacts DEF Running, RunType
    <3>4. \A i \in DOMAIN run.plan :
             LET c == run.plan[i] IN [disk EXCEPT ![c.file] = c.before] \in Disk
                                     /\ [disk EXCEPT ![c.file] = c.after] \in Disk
      BY <2>2, <3>1, PlanFacts DEF Running
    <3> QED  BY <2>4, <3>2, <3>3, <3>4 DEF TypeOK
  <2> QED  BY <2>5, <2>6
<1> QED  BY <1>1, InstInvariant, PTL

\* An installation that failed has put back every file that nobody edited.
THEOREM RolledBack == Spec => []AllOrNothing
<1>1. InstInv => AllOrNothing
  <2> SUFFICES ASSUME InstInv, run.step = "undo", run.at = 0, NEW i \in DOMAIN run.plan,
                      run.plan[i].file \notin since
               PROVE  disk[run.plan[i].file] = run.plan[i].before
    BY DEF AllOrNothing
  <2>1. Working /\ Running
    BY Idle DEF InstInv, Working
  <2>2. \A j \in DOMAIN run.plan : ~Applied(j)
    BY <2>1, PlanFacts DEF Applied, Running
  <2> QED  BY <2>1, <2>2 DEF Working, AsPlanned, Holds
<1> QED  BY <1>1, InstInvariant, PTL

\* Removal can go by the receipt as long as no installation ended halfway.
THEOREM ReceiptRight == Spec => []ReceiptTrue
<1>1. InstInv => ReceiptTrue
  BY DEF InstInv, ReceiptTrue
<1> QED  BY <1>1, InstInvariant, PTL

\* An edit is lost only when it falls between the comparison of that file and
\* the write that follows.
THEOREM EditsOutliveInstallation == Spec => LaterEditsKept
<1> DEFINE Kept == \A f \in DOMAIN disk :
              run # NoRun /\ edits' = edits /\ ~window => Theirs(f, disk'[f]) = Theirs(f, disk[f])
<1>1. InstInv /\ [Next]_vars => [Kept]_vars
  <2> SUFFICES ASSUME InstInv, Next, run # NoRun, edits' = edits, ~window, NEW f \in DOMAIN disk
               PROVE  Theirs(f, disk'[f]) = Theirs(f, disk[f])
    BY DEF vars
  <2>0. Ground /\ Working /\ Running /\ f \in File
    BY DEF InstInv, Working, Ground, Disk, File
  <2>1. CASE disk' = disk
    BY <2>1
  <2>2. CASE Write /\ disk' = [disk EXCEPT ![This.file] = This.after]
    <3>1. disk[This.file] = This.before
      BY <2>0, <2>2 DEF Write, Working, Looked
    <3>2. /\ This.file \in File /\ This.after \in ContentOf(This.file)
          /\ Theirs(This.file, This.before) = Theirs(This.file, This.after)
      BY <2>0, <2>2, AtPlan DEF Write, Running, Proper
    <3>3. disk'[This.file] = This.after /\ \A g \in File \ {This.file} : disk'[g] = disk[g]
      BY <2>0, <2>2, <3>2, Replaced DEF Ground
    <3> QED  BY <2>0, <3>1, <3>2, <3>3
  <2>3. CASE Restore
    <3>1. disk[This.file] = This.after /\ disk' = [disk EXCEPT ![This.file] = This.before]
      BY <2>0, <2>3 DEF Restore, Working, Looked
    <3>2. /\ This.file \in File /\ This.before \in ContentOf(This.file)
          /\ Theirs(This.file, This.before) = Theirs(This.file, This.after)
      BY <2>0, <2>3, AtPlan DEF Restore, Running, Proper
    <3>3. disk'[This.file] = This.before /\ \A g \in File \ {This.file} : disk'[g] = disk[g]
      BY <2>0, <3>1, <3>2, Replaced DEF Ground
    <3> QED  BY <2>0, <3>1, <3>2, <3>3
  <2>4. ASSUME NEW g \in Client \cup {"project", "selector"}, NEW value \in Edits(g), Edit(g, value)
        PROVE  FALSE
    BY <2>0, <2>4 DEF Edit, Ground
  <2>5. disk' = disk \/ (Write /\ disk' = [disk EXCEPT ![This.file] = This.after]) \/ Restore
    BY <2>4 DEF Next, Install, Remove, Begin, Refuse, vars, Compare, Write, Finish, Undo, GiveUp, Crash
  <2> QED  BY <2>1, <2>2, <2>3, <2>5
<1> QED  BY <1>1, InstInvariant, PTL DEF Spec, LaterEditsKept

-----------------------------------------------------------------------------
(***************************************************************************)
(* The scheduled task.  A call goes back to what the receipt says, receipts *)
(* never name a task the user edited, and between a comparison and the change *)
(* that follows the task is what was compared.                             *)
(***************************************************************************)

\* What is there is what the receipt says, or will say.
TaskAccounted ==
    IF call.step \in {"receipt", "recompare", "restore"}
    THEN task \in {NoTask, call.after} \/ task.edited
    ELSE task \in {NoTask, receipt} \/ task.edited

TaskOurs == ~receipt.edited /\ ~call.after.edited /\ call.before \in {NoTask, receipt}

TaskCompared ==
    /\ call.step = "change" /\ ~touched => task = call.before
    /\ call.step = "restore" /\ ~touched => task = call.after

TaskInv == TaskTypeOK /\ TaskOurs /\ TaskCompared /\ (broken \/ TaskAccounted)

LEMMA NoTaskType == NoTask \in Task /\ ~NoTask.edited
  BY DEF Task, NoTask

LEMMA NoCallType == /\ NoCall.step = "idle" /\ NoCall.before = NoTask /\ NoCall.after = NoTask
                    /\ NoCall \in [before : Task, after : Task,
                                   step : {"idle", "compare", "change", "receipt", "recompare", "restore"}]
  BY NoTaskType DEF NoCall

\* The end of a call keeps the invariant when what is there is accounted for,
\* or the call is noted as unfinished.
LEMMA TaskEnds ==
    ASSUME TaskInv, NEW b \in BOOLEAN, EndTask(b), task' \in Task, receipt' \in Task, touched' \in BOOLEAN,
           ~receipt'.edited,
           b \/ broken \/ (task' \in {NoTask, receipt'} \/ task'.edited)
    PROVE  TaskInv'
<1>1. broken' = (broken \/ b) /\ broken' \in BOOLEAN
  BY DEF EndTask, TaskInv, TaskTypeOK
<1>2. /\ call'.step = "idle" /\ call'.before = NoTask /\ call'.after = NoTask
      /\ call' \in [before : Task, after : Task,
                    step : {"idle", "compare", "change", "receipt", "recompare", "restore"}]
  BY NoCallType DEF EndTask
<1>3. TaskTypeOK'
  BY <1>1, <1>2 DEF TaskTypeOK
<1>4. TaskOurs' /\ TaskCompared'
  BY <1>2, NoTaskType DEF TaskOurs, TaskCompared
<1>5. broken' \/ TaskAccounted'
  BY <1>1, <1>2 DEF TaskAccounted
<1> QED  BY <1>3, <1>4, <1>5 DEF TaskInv

\* A call goes on, with the same task before and after it.
LEMMA TaskGoes ==
    ASSUME TaskTypeOK, NEW st \in {"idle", "compare", "change", "receipt", "recompare", "restore"}, GotoTask(st)
    PROVE  /\ call'.step = st /\ call'.before = call.before /\ call'.after = call.after
           /\ call' \in [before : Task, after : Task,
                         step : {"idle", "compare", "change", "receipt", "recompare", "restore"}]
  BY DEF TaskTypeOK, GotoTask

LEMMA TaskStarts == TaskInit => TaskInv
  BY NoTaskType, NoCallType DEF TaskInit, TaskInv, TaskTypeOK, TaskOurs, TaskCompared, TaskAccounted

LEMMA TouchKeeps == ASSUME TaskInv, NEW new \in Task, Touch(new) PROVE TaskInv'
<1>1. new = NoTask \/ new.edited
  BY DEF Touch
<1>2. TaskTypeOK' /\ TaskOurs' /\ TaskCompared'
  BY DEF Touch, TaskInv, TaskTypeOK, TaskOurs, TaskCompared
<1>3. TaskAccounted'
  BY <1>1 DEF Touch, TaskAccounted
<1> QED  BY <1>2, <1>3 DEF TaskInv

LEMMA TaskBegins ==
    ASSUME TaskInv, NEW after \in Task, ~after.edited, BeginTask(after)
    PROVE  TaskInv'
<1>1. /\ call'.step = "compare" /\ call'.before = task /\ call'.after = after
      /\ call' \in [before : Task, after : Task,
                    step : {"idle", "compare", "change", "receipt", "recompare", "restore"}]
  BY DEF BeginTask, TaskInv, TaskTypeOK
<1>2. TaskTypeOK' /\ TaskCompared'
  BY <1>1 DEF BeginTask, TaskInv, TaskTypeOK, TaskCompared
<1>3. TaskOurs' /\ TaskAccounted'
  BY <1>1 DEF BeginTask, Allowed, TaskInv, TaskOurs, TaskAccounted
<1> QED  BY <1>2, <1>3 DEF TaskInv

LEMMA ManageKeeps == ASSUME TaskInv, Manage PROVE TaskInv'
<1>0. /\ task \in Task /\ receipt \in Task /\ touched \in BOOLEAN /\ broken \in BOOLEAN
      /\ call.after \in Task /\ call.before \in Task
      /\ ~receipt.edited /\ ~call.after.edited /\ call.before \in {NoTask, receipt}
  BY DEF TaskInv, TaskTypeOK, TaskOurs
<1>1. CASE CompareTask
  <2>1. CASE task = call.before
    <3>1. GotoTask("change") /\ UNCHANGED <<task, receipt, broken>> /\ touched' = FALSE
      BY <1>1, <2>1 DEF CompareTask
    <3> QED  BY <1>0, <1>1, <2>1, <3>1, TaskGoes DEF CompareTask, TaskInv, TaskTypeOK, TaskOurs, TaskCompared, TaskAccounted
  <2>2. CASE task # call.before
    BY <1>0, <1>1, <2>2, TaskEnds DEF CompareTask, TaskInv, TaskAccounted
  <2> QED  BY <2>1, <2>2
<1>2. CASE ChangeTask
  <2>1. CASE task' = call.after /\ GotoTask("receipt") /\ UNCHANGED broken
    BY <1>0, <1>2, <2>1, TaskGoes DEF ChangeTask, TaskInv, TaskTypeOK, TaskOurs, TaskCompared, TaskAccounted
  <2>2. CASE task' \in {task, call.after} /\ EndTask(task' # task)
    <3>1. (task' # task) \in BOOLEAN /\ task' \in Task
      BY <1>0, <2>2
    <3>2. receipt' = receipt /\ touched' = touched /\ call.step = "change"
      BY <1>2 DEF ChangeTask
    <3>3. (task' # task) \/ broken \/ (task' \in {NoTask, receipt'} \/ task'.edited)
      BY <3>2 DEF TaskInv, TaskAccounted
    <3> QED  BY <1>0, <2>2, <3>1, <3>2, <3>3, TaskEnds
  <2> QED  BY <1>2, <2>1, <2>2 DEF ChangeTask
<1>3. CASE SaveReceipt
  <2>1. CASE receipt' = call.after /\ EndTask(FALSE)
    <3>1. task' = task /\ touched' = touched /\ call.step = "receipt"
      BY <1>3 DEF SaveReceipt
    <3>2. broken \/ (task' \in {NoTask, receipt'} \/ task'.edited)
      BY <2>1, <3>1 DEF TaskInv, TaskAccounted
    <3> QED  BY <1>0, <2>1, <3>1, <3>2, TaskEnds
  <2>2. CASE GotoTask("recompare") /\ UNCHANGED <<receipt, broken>>
    BY <1>0, <1>3, <2>2, TaskGoes DEF SaveReceipt, TaskInv, TaskTypeOK, TaskOurs, TaskCompared, TaskAccounted
  <2> QED  BY <1>3, <2>1, <2>2 DEF SaveReceipt
<1>4. CASE Recompare
  <2>1. CASE task = call.after
    <3>1. GotoTask("restore") /\ UNCHANGED <<task, receipt, broken>> /\ touched' = FALSE
      BY <1>4, <2>1 DEF Recompare
    <3> QED  BY <1>0, <1>4, <2>1, <3>1, TaskGoes DEF Recompare, TaskInv, TaskTypeOK, TaskOurs, TaskCompared, TaskAccounted
  <2>2. CASE task # call.after
    BY <1>0, <1>4, <2>2, TaskEnds DEF Recompare
  <2> QED  BY <2>1, <2>2
<1>5. CASE RestoreTask
  BY <1>0, <1>5, TaskEnds DEF RestoreTask
<1> QED  BY <1>1, <1>2, <1>3, <1>4, <1>5 DEF Manage

LEMMA TaskStep == TaskInv /\ [TaskNext]_taskVars => TaskInv'
<1> SUFFICES ASSUME TaskInv, [TaskNext]_taskVars PROVE TaskInv'
  OBVIOUS
<1>1. CASE \E new \in Task : Touch(new)
  BY <1>1, TouchKeeps
<1>2. ASSUME NEW v \in Target, InstallTask(v) PROVE TaskInv'
  <2>1. [runs |-> v, edited |-> FALSE] \in Task
    BY DEF Task
  <2> QED  BY <1>2, <2>1, TaskBegins DEF InstallTask
<1>3. CASE RemoveTask
  BY <1>3, NoTaskType, TaskBegins DEF RemoveTask
<1>4. CASE Manage
  BY <1>4, ManageKeeps
<1>5. CASE TaskCrash
  BY <1>5, TaskEnds DEF TaskCrash, TaskInv, TaskTypeOK, TaskOurs
<1>6. CASE UNCHANGED taskVars
  BY <1>6 DEF taskVars, TaskInv, TaskTypeOK, TaskOurs, TaskCompared, TaskAccounted
<1> QED  BY <1>1, <1>2, <1>3, <1>4, <1>5, <1>6 DEF TaskNext

\* Every state keeps the types, and a call works from what the receipt says.
THEOREM TaskInvariant == TaskSpec => []TaskInv
  BY TaskStarts, TaskStep, PTL DEF TaskSpec

\* Unless a call was cut short, a task is there only with its receipt or
\* because the user made it (scheduled.py manage_task).
THEOREM ReceiptExact == TaskSpec => []TaskTrue
<1>1. TaskInv => TaskTrue
  BY NoCallType DEF TaskInv, TaskAccounted, TaskTrue
<1> QED  BY <1>1, TaskInvariant, PTL

\* manage_task overwrites what the user made of the task only between the
\* comparison inside the script and its change.
THEOREM EditsSurvive == TaskSpec => TaskEditsKept
<1>1. TaskInv /\ [TaskNext]_taskVars => [Manage /\ ~touched /\ task' # task => ~task.edited]_taskVars
  <2> SUFFICES ASSUME TaskInv, Manage, ~touched, task' # task PROVE ~task.edited
    BY DEF taskVars
  <2>1. call.step = "change" \/ call.step = "restore"
    BY DEF Manage, CompareTask, ChangeTask, SaveReceipt, Recompare, RestoreTask
  <2> QED  BY <2>1, NoTaskType DEF TaskInv, TaskOurs, TaskCompared
<1> QED  BY <1>1, TaskInvariant, PTL DEF TaskSpec, TaskEditsKept

-----------------------------------------------------------------------------
(***************************************************************************)
(* Connections.  Every promise of an exclusion is written in a binding of its *)
(* scope, and what a call has looked at still stands.                      *)
(***************************************************************************)

\* A nonempty set of numbers has a least one.
LEMMA Least ==
    ASSUME NEW S \in SUBSET Nat, S # {}
    PROVE  \E m \in S : \A j \in S : m <= j
<1> DEFINE R == OpToRel(<, Nat)
<1>1. IsWellFoundedOn(R, Nat)
  BY NatLessThanWellFounded
<1>2. PICK m \in S : \A j \in S : ~ (<<j, m>> \in R)
  <2> HIDE DEF R
  <2> QED  BY <1>1, WFMin
<1>3. \A j \in S : ~(j < m)
  BY <1>2 DEF OpToRel
<1> QED  BY <1>3

LEMMA NearestBound ==
    ASSUME NEW data \in Projects, NEW f \in Folder, Bound(data, f) # {}
    PROVE  Nearest(data, f) \in Folder /\ data[Nearest(data, f)] # NoEntry
<1>1. Follows[f] \in Seq(Folder)
  BY ConnectionAssumption
<1>2. Bound(data, f) \subseteq Nat
  BY <1>1 DEF Bound
<1> DEFINE first == CHOOSE i \in Bound(data, f) : \A j \in Bound(data, f) : i <= j
<1>3. first \in Bound(data, f)
  <2>1. \E i \in Bound(data, f) : \A j \in Bound(data, f) : i <= j
    BY <1>2, Least
  <2> QED  BY <2>1
<1>4. first \in DOMAIN Follows[f] /\ data[Follows[f][first]] # NoEntry
  BY <1>3 DEF Bound
<1>5. Nearest(data, f) = Follows[f][first]
  BY DEF Nearest
<1> HIDE DEF first
<1> QED  BY <1>1, <1>4, <1>5

LEMMA ScopeType ==
    ASSUME NEW data \in Projects, NEW f \in Folder
    PROVE  ScopeOf(data, f) \in ProjectScope
<1>1. CASE Bound(data, f) = {}
  BY <1>1, ConnectionAssumption DEF ScopeOf
<1>2. CASE Bound(data, f) # {}
  <2>1. data[Nearest(data, f)] \in Entry
    BY <1>2, NearestBound DEF Projects
  <2> QED  BY <1>2, <2>1 DEF ScopeOf, Entry
<1> QED  BY <1>1, <1>2

\* A command leaves the folder bound, the exclusions it did not take back where
\* they were, and the ones it makes in every binding of the scope.
LEMMA ConfiguredDoes ==
    ASSUME NEW data \in Projects, NEW now \in Projects, NEW c \in Commands
    PROVE  LET new == Configured(data, now, c)
               s == new[c.folder].scope
           IN /\ new \in Projects /\ s \in ProjectScope
              /\ c.folder \in Folder /\ new[c.folder] # NoEntry
              /\ \A g \in Folder : new[g] # NoEntry /\ new[g].scope = s => c.excludes \ c.includes \subseteq new[g].excluded
              /\ \A g \in Folder : data[g] # NoEntry =>
                    /\ new[g] # NoEntry
                    /\ g # c.folder => new[g].scope = data[g].scope
                    /\ data[g].excluded \ c.includes \subseteq new[g].excluded
                    /\ new[g].scope # s => data[g].excluded \subseteq new[g].excluded
<1> DEFINE kept == IF data[c.folder] = NoEntry THEN {} ELSE data[c.folder].excluded
           scope == CASE c.scope # NoScope                              -> c.scope
                      [] c.scope = NoScope /\ data[c.folder] # NoEntry -> data[c.folder].scope
                      [] OTHER                                          -> ScopeOf(now, c.folder)
           own == [data EXCEPT ![c.folder] = [scope |-> scope, excluded |-> kept]]
           new == Configured(data, now, c)
<1>1. /\ c.folder \in Folder /\ c.scope \in ProjectScope \cup {NoScope}
      /\ c.excludes \subseteq Harness /\ c.includes \subseteq Harness
  BY DEF Commands
<1>2. scope \in ProjectScope
  <2>1. ScopeOf(now, c.folder) \in ProjectScope
    BY <1>1, ScopeType
  <2>2. data[c.folder] # NoEntry => data[c.folder].scope \in ProjectScope
    BY <1>1 DEF Projects, Entry
  <2>3. CASE c.scope # NoScope
    BY <1>1, <2>3
  <2>4. CASE c.scope = NoScope /\ data[c.folder] # NoEntry
    BY <2>2, <2>4
  <2>5. CASE c.scope = NoScope /\ data[c.folder] = NoEntry
    BY <2>1, <2>5
  <2> QED  BY <2>3, <2>4, <2>5
<1>3. kept \subseteq Harness
  BY <1>1 DEF Projects, Entry
<1>4. new = [g \in Folder |-> IF own[g] # NoEntry /\ own[g].scope = scope
                              THEN [own[g] EXCEPT !.excluded = (@ \cup c.excludes) \ c.includes]
                              ELSE own[g]]
  BY DEF Configured
<1> HIDE DEF scope, new
<1>5. [scope |-> scope, excluded |-> kept] \in Entry
  BY <1>2, <1>3 DEF Entry
<1>6. own \in Projects /\ own[c.folder] = [scope |-> scope, excluded |-> kept]
      /\ \A g \in Folder \ {c.folder} : own[g] = data[g]
  BY <1>1, <1>5 DEF Projects
<1>7. /\ own[c.folder] # NoEntry /\ own[c.folder].scope = scope /\ own[c.folder].excluded = kept
  <2> HIDE DEF own, kept
  <2>1. NoEntry \notin Entry
    BY ConnectionAssumption
  <2>2. own[c.folder] # NoEntry
    BY <1>5, <1>6, <2>1
  <2> QED  BY <1>6, <2>2
<1> HIDE DEF own, kept
<1>8. ASSUME NEW g \in Folder, own[g] # NoEntry
      PROVE  /\ new[g] \in Entry /\ new[g] # NoEntry /\ new[g].scope = own[g].scope
             /\ own[g].scope = scope => new[g].excluded = (own[g].excluded \cup c.excludes) \ c.includes
             /\ own[g].scope # scope => new[g].excluded = own[g].excluded
  <2>1. own[g] \in Entry
    BY <1>6, <1>8 DEF Projects
  <2>2. CASE own[g].scope = scope
    <3>1. new[g] = [own[g] EXCEPT !.excluded = (@ \cup c.excludes) \ c.includes]
      BY <1>4, <1>8, <2>2
    <3>2. /\ new[g] \in Entry /\ new[g].scope = own[g].scope
          /\ new[g].excluded = (own[g].excluded \cup c.excludes) \ c.includes
      BY <1>1, <2>1, <3>1 DEF Entry
    <3> QED  BY <2>2, <3>2, ConnectionAssumption
  <2>3. CASE own[g].scope # scope
    BY <1>4, <1>8, <2>1, <2>3
  <2> QED  BY <2>2, <2>3
<1>9. \A g \in Folder : own[g] = NoEntry => new[g] = NoEntry
  BY <1>4
<1>10. new \in Projects
  <2>1. \A g \in Folder : new[g] \in Entry \cup {NoEntry}
    BY <1>8, <1>9
  <2>2. new = [g \in Folder |-> new[g]]
    BY <1>4
  <2> QED  BY <2>1, <2>2 DEF Projects
<1>11. new[c.folder] # NoEntry /\ new[c.folder].scope = scope
  BY <1>1, <1>7, <1>8
<1>12. \A g \in Folder : new[g] # NoEntry /\ new[g].scope = scope => c.excludes \ c.includes \subseteq new[g].excluded
  BY <1>8, <1>9
<1>13. ASSUME NEW g \in Folder, data[g] # NoEntry
       PROVE  /\ own[g] # NoEntry /\ own[g].excluded = data[g].excluded
              /\ g # c.folder => own[g].scope = data[g].scope
  <2>1. CASE g = c.folder
    BY <1>7, <1>13, <2>1 DEF kept
  <2>2. CASE g # c.folder
    BY <1>6, <1>13, <2>2
  <2> QED  BY <2>1, <2>2
<1>14. \A g \in Folder : data[g] # NoEntry =>
          /\ new[g] # NoEntry
          /\ g # c.folder => new[g].scope = data[g].scope
          /\ data[g].excluded \ c.includes \subseteq new[g].excluded
          /\ new[g].scope # scope => data[g].excluded \subseteq new[g].excluded
  BY <1>8, <1>13
<1> QED  BY <1>1, <1>2, <1>10, <1>11, <1>12, <1>14 DEF new

\* What is promised is written in a binding of that scope.
BarredWritten ==
    \A x \in barred : \E g \in Folder :
        projects[g] # NoEntry /\ projects[g].scope = x[1] /\ x[2] \in projects[g].excluded

\* What a call has looked at still stands, unless the settings were changed.
LookedAt ==
    visit # NoVisit /\ ~shifted =>
        /\ visit.step \in {"locate", "serve"} => visit.client \notin Excluded(projects, visit.folder)
        /\ visit.step = "serve" => visit.scope = ScopeOf(projects, visit.folder)

ConnectionInv == ConnectionTypeOK /\ BarredWritten /\ LookedAt

LEMMA WriteBackKeeps ==
    ASSUME ConnectionInv, NEW c \in Commands, NEW read \in Projects, WriteBack(c, read)
    PROVE  /\ projects' \in Projects /\ barred' \subseteq ProjectScope \X Harness /\ shifted' \in BOOLEAN
           /\ BarredWritten' /\ LookedAt' /\ visit' = visit /\ modules' = modules
<1> DEFINE new == Configured(read, projects, c)
           s == new[c.folder].scope
           before == IF read = projects THEN barred ELSE {}
           moved == IF read[c.folder] = NoEntry \/ read[c.folder].scope = s THEN {}
                    ELSE {read[c.folder].scope} \X read[c.folder].excluded
<1>1. /\ projects' = new /\ barred' = ((before \ moved) \cup ({s} \X c.excludes)) \ ({s} \X c.includes)
      /\ shifted' = (visit # NoVisit) /\ visit' = visit /\ modules' = modules
  BY DEF WriteBack, Promised
<1>2. /\ new \in Projects /\ s \in ProjectScope
      /\ c.folder \in Folder /\ new[c.folder] # NoEntry
      /\ \A g \in Folder : new[g] # NoEntry /\ new[g].scope = s => c.excludes \ c.includes \subseteq new[g].excluded
      /\ \A g \in Folder : read[g] # NoEntry =>
            /\ new[g] # NoEntry
            /\ g # c.folder => new[g].scope = read[g].scope
            /\ read[g].excluded \ c.includes \subseteq new[g].excluded
            /\ new[g].scope # s => read[g].excluded \subseteq new[g].excluded
  BY ConfiguredDoes DEF ConnectionInv, ConnectionTypeOK
<1>3. c.excludes \subseteq Harness
  BY DEF Commands
<1>4. before \subseteq ProjectScope \X Harness
  BY DEF ConnectionInv, ConnectionTypeOK
<1> HIDE DEF new, s, before
<1>5. barred' \subseteq ProjectScope \X Harness
  BY <1>1, <1>2, <1>3, <1>4
<1>6. ASSUME NEW x \in barred'
      PROVE  \E g \in Folder : new[g] # NoEntry /\ new[g].scope = x[1] /\ x[2] \in new[g].excluded
  <2>1. x \in before \ moved \/ x \in {s} \X c.excludes
    BY <1>1, <1>6
  <2>2. ~(x \in {s} \X c.includes)
    BY <1>1, <1>6
  <2>3. CASE x \in {s} \X c.excludes
    <3>1. x[1] = s /\ x[2] \in c.excludes /\ x[2] \notin c.includes
      BY <2>2, <2>3
    <3> QED  BY <1>2, <3>1 DEF s
  <2>4. CASE x \in before \ moved
    <3>1. read = projects /\ x \in barred /\ x = <<x[1], x[2]>>
      BY <1>4, <2>4 DEF before
    <3>2. PICK g \in Folder : read[g] # NoEntry /\ read[g].scope = x[1] /\ x[2] \in read[g].excluded
      BY <3>1 DEF ConnectionInv, BarredWritten
    <3>3. new[g].scope = x[1]
      <4>1. CASE g # c.folder
        BY <1>2, <3>2, <4>1
      <4>2. CASE g = c.folder
        <5>1. x \in {read[g].scope} \X read[g].excluded
          BY <3>1, <3>2
        <5>2. read[g].scope = s
          BY <2>4, <3>2, <4>2, <5>1
        <5> QED  BY <3>2, <4>2, <5>2 DEF s
      <4> QED  BY <4>1, <4>2
    <3>4. x[2] \in new[g].excluded
      <4>1. CASE x[1] = s
        <5>1. x[2] \notin c.includes
          BY <2>2, <3>1, <4>1
        <5> QED  BY <1>2, <3>2, <5>1
      <4>2. CASE x[1] # s
        BY <1>2, <3>2, <3>3, <4>2
      <4> QED  BY <4>1, <4>2
    <3> QED  BY <1>2, <3>2, <3>3, <3>4
  <2> QED  BY <2>1, <2>3, <2>4
<1>7. BarredWritten'
  BY <1>1, <1>6 DEF BarredWritten
<1>8. LookedAt'
  BY <1>1 DEF LookedAt
<1> QED  BY <1>1, <1>2, <1>5, <1>7, <1>8

LEMMA AsideKeeps ==
    ASSUME ConnectionInv, UNCHANGED <<projects, barred>>, ConnectionTypeOK', LookedAt'
    PROVE  ConnectionInv'
  BY DEF ConnectionInv, BarredWritten

LEMMA VisitsKeep ==
    ASSUME ConnectionInv, NEW c \in Harness, NEW f \in Folder, NEW s \in ProjectScope \cup {NoScope}, Visits(c, f, s)
    PROVE  ConnectionInv'
<1>1. /\ visit' = [client |-> c, folder |-> f, scope |-> s, step |-> "admit"]
      /\ shifted' = FALSE /\ UNCHANGED <<projects, modules, work, barred>>
  BY DEF Visits
<1>2. visit' \in Visit /\ visit'.step = "admit"
  BY <1>1 DEF Visit
<1>3. ConnectionTypeOK'
  BY <1>1, <1>2 DEF ConnectionInv, ConnectionTypeOK
<1>4. LookedAt'
  BY <1>2 DEF LookedAt
<1> QED  BY <1>1, <1>3, <1>4, AsideKeeps

LEMMA EndedKeeps ==
    ASSUME ConnectionInv, Ended, UNCHANGED <<projects, modules, work, barred>>
    PROVE  ConnectionInv'
<1>1. ConnectionTypeOK' /\ LookedAt'
  BY DEF Ended, ConnectionInv, ConnectionTypeOK, LookedAt
<1> QED  BY <1>1, AsideKeeps

LEMMA OnwardVisit ==
    ASSUME visit \in Visit, NEW s \in ProjectScope \cup {NoScope}, NEW st \in {"locate", "serve"}, Onward(s, st)
    PROVE  /\ visit' \in Visit /\ visit'.client = visit.client /\ visit'.folder = visit.folder
           /\ visit'.scope = s /\ visit'.step = st /\ shifted' = shifted
  BY DEF Onward, Visit

LEMMA ConnectionStep == ConnectionInv /\ [ConnectionNext]_connectionVars => ConnectionInv'
<1> SUFFICES ASSUME ConnectionInv, [ConnectionNext]_connectionVars PROVE ConnectionInv'
  OBVIOUS
<1>0. ConnectionTypeOK
  BY DEF ConnectionInv
<1>1. ASSUME NEW c \in Commands, Configure(c) PROVE ConnectionInv'
  <2>1. WriteBack(c, projects) /\ work' = work
    BY <1>1 DEF Configure
  <2> QED  BY <1>0, <2>1, WriteBackKeeps DEF ConnectionInv, ConnectionTypeOK
<1>2. ASSUME NEW c \in Commands, BeginCommand(c) PROVE ConnectionInv'
  <2>1. ConnectionTypeOK'
    BY <1>0, <1>2 DEF BeginCommand, ConnectionTypeOK
  <2>2. LookedAt'
    BY <1>2 DEF BeginCommand, ConnectionInv, LookedAt
  <2> QED  BY <1>2, <2>1, <2>2, AsideKeeps DEF BeginCommand
<1>3. CASE EndCommand
  <2>1. work \in [command : Commands, read : Projects] /\ WriteBack(work.command, work.read) /\ work' = NoWork
    BY <1>0, <1>3 DEF EndCommand, ConnectionTypeOK
  <2>2. work.command \in Commands /\ work.read \in Projects
    BY <2>1
  <2> QED  BY <1>0, <2>1, <2>2, WriteBackKeeps DEF ConnectionInv, ConnectionTypeOK
<1>4. ASSUME NEW m \in Switched, Toggle(m) PROVE ConnectionInv'
  <2>1. ConnectionTypeOK'
    BY <1>0, <1>4, ConnectionAssumption DEF Toggle, ConnectionTypeOK, Module
  <2>2. LookedAt'
    BY <1>4 DEF Toggle, LookedAt
  <2> QED  BY <1>4, <2>1, <2>2, AsideKeeps DEF Toggle
<1>5. ASSUME NEW f \in Folder, NEW s \in ProjectScope, Tool(f, s) PROVE ConnectionInv'
  BY <1>5, VisitsKeep, ConnectionAssumption DEF Tool
<1>6. ASSUME NEW f \in Folder, NEW c \in Harness, Prompt(c, f) PROVE ConnectionInv'
  BY <1>6, VisitsKeep DEF Prompt
<1>7. CASE Admit
  <2>1. visit \in Visit /\ visit.scope \in ProjectScope \cup {NoScope}
    BY <1>0, <1>7 DEF Admit, ConnectionTypeOK, Visit
  <2>2. CASE Permitted /\ Onward(visit.scope, "locate")
    <3>1. /\ visit' \in Visit /\ visit'.client = visit.client /\ visit'.folder = visit.folder
          /\ visit'.step = "locate" /\ shifted' = shifted
      BY <2>1, <2>2, OnwardVisit
    <3>2. UNCHANGED <<projects, modules, work, barred>>
      BY <1>7 DEF Admit
    <3>3. ConnectionTypeOK'
      BY <1>0, <3>1, <3>2 DEF ConnectionTypeOK
    <3>4. Excluded(projects, visit.folder)' = Excluded(projects, visit.folder)
      BY <3>1, <3>2 DEF Excluded, ScopeOf, Nearest, Bound
    <3>5. visit.client \notin Excluded(projects, visit.folder)
      BY <2>2 DEF Permitted
    <3>6. (visit.client \notin Excluded(projects, visit.folder))'
      BY <3>1, <3>4, <3>5
    <3>7. LookedAt'
      BY <3>1, <3>6 DEF LookedAt
    <3> QED  BY <3>2, <3>3, <3>7, AsideKeeps
  <2>3. CASE Ended
    BY <1>7, <2>3, EndedKeeps DEF Admit
  <2> QED  BY <1>7, <2>2, <2>3 DEF Admit
<1>8. CASE Locate
  <2>1. visit \in Visit /\ visit.folder \in Folder /\ projects \in Projects /\ visit # NoVisit
    BY <1>0, <1>8 DEF Locate, ConnectionTypeOK, Visit
  <2>2. CASE Onward(ScopeOf(projects, visit.folder), "serve")
    <3>0. ScopeOf(projects, visit.folder) \in ProjectScope
      BY <2>1, ScopeType
    <3>1. /\ visit' \in Visit /\ visit'.client = visit.client /\ visit'.folder = visit.folder
          /\ visit'.step = "serve" /\ visit'.scope = ScopeOf(projects, visit.folder) /\ shifted' = shifted
      BY <2>1, <2>2, <3>0, OnwardVisit
    <3>2. UNCHANGED <<projects, modules, work, barred>>
      BY <1>8 DEF Locate
    <3>3. ConnectionTypeOK'
      BY <1>0, <3>1, <3>2 DEF ConnectionTypeOK
    <3>4. ~shifted => visit.client \notin Excluded(projects, visit.folder)
      BY <1>8, <2>1 DEF Locate, ConnectionInv, LookedAt
    <3>a. projects' = projects /\ visit'.folder = visit.folder
      BY <3>1, <3>2
    <3>5. Excluded(projects, visit.folder)' = Excluded(projects, visit.folder)
      BY <3>a DEF Excluded, ScopeOf, Nearest, Bound
    <3>6. ScopeOf(projects, visit.folder)' = ScopeOf(projects, visit.folder)
      BY <3>a DEF ScopeOf, Nearest, Bound
    <3>7. (~shifted => visit.client \notin Excluded(projects, visit.folder))'
      BY <3>1, <3>4, <3>5
    <3>8. (visit.scope = ScopeOf(projects, visit.folder))'
      BY <3>1, <3>6
    <3>9. LookedAt'
      BY <3>7, <3>8 DEF LookedAt
    <3> QED  BY <3>2, <3>3, <3>9, AsideKeeps
  <2>3. CASE Ended
    BY <1>8, <2>3, EndedKeeps DEF Locate
  <2> QED  BY <1>8, <2>2, <2>3 DEF Locate
<1>9. CASE Serve
  BY <1>9, EndedKeeps DEF Serve
<1>10. CASE UNCHANGED connectionVars
  <2>1. ConnectionTypeOK'
    BY <1>0, <1>10 DEF connectionVars, ConnectionTypeOK
  <2>2. LookedAt'
    BY <1>10 DEF connectionVars, ConnectionInv, LookedAt
  <2> QED  BY <1>10, <2>1, <2>2, AsideKeeps DEF connectionVars
<1> QED
  BY <1>1, <1>2, <1>3, <1>4, <1>5, <1>6, <1>7, <1>8, <1>9, <1>10 DEF ConnectionNext

LEMMA ConnectionStarts == ConnectionInit => ConnectionInv
<1> SUFFICES ASSUME ConnectionInit PROVE ConnectionInv
  OBVIOUS
<1>1. ConnectionTypeOK
  BY DEF ConnectionInit, ConnectionTypeOK, Projects
<1>2. BarredWritten /\ LookedAt
  BY DEF ConnectionInit, BarredWritten, LookedAt
<1> QED  BY <1>1, <1>2 DEF ConnectionInv

LEMMA ConnectionInvariant == ConnectionSpec => []ConnectionInv
  BY ConnectionStarts, ConnectionStep, PTL DEF ConnectionSpec

\* Settings, commands and calls are always of a kind the code knows.
THEOREM ConnectionTypes == ConnectionSpec => []ConnectionTypeOK
<1>1. ConnectionInv => ConnectionTypeOK
  BY DEF ConnectionInv
<1> QED  BY <1>1, ConnectionInvariant, PTL

\* A client is served only in the scope of its folder, and never where an
\* exclusion stands.
THEOREM ServedRight == ConnectionSpec => ServedAsConfigured
<1> DEFINE Right == Serve /\ ~shifted =>
              /\ visit.scope = ScopeOf(projects, visit.folder)
              /\ <<visit.scope, visit.client>> \notin barred
<1>1. ConnectionInv /\ [ConnectionNext]_connectionVars => [Right]_connectionVars
  <2> SUFFICES ASSUME ConnectionInv, Serve, ~shifted PROVE Right
    OBVIOUS
  <2>1. /\ visit.scope = ScopeOf(projects, visit.folder)
        /\ visit.client \notin Excluded(projects, visit.folder)
    BY DEF Serve, ConnectionInv, LookedAt
  <2>2. ASSUME <<visit.scope, visit.client>> \in barred PROVE FALSE
    <3>1. PICK g \in Folder : projects[g] # NoEntry /\ projects[g].scope = visit.scope
                              /\ visit.client \in projects[g].excluded
      BY <2>2 DEF ConnectionInv, BarredWritten
    <3> QED  BY <2>1, <3>1 DEF Excluded
  <2> QED  BY <2>1, <2>2
<1> QED  BY <1>1, ConnectionInvariant, PTL DEF ConnectionSpec, ServedAsConfigured

-----------------------------------------------------------------------------
(***************************************************************************)
(* Hermes.  What was learned from it was named in this turn, or in an earlier *)
(* turn or session, so that no statement meets an occurrence of its own.   *)
(***************************************************************************)

\* What was learned from Hermes was named in this turn, or in one before it.
NamedBefore ==
    \A b \in 1 .. MaxBindings, n \in 1 .. MaxOrdinal, e \in Event :
        store[<<Profile, <<b, n, e>>>>] # NoFile =>
            \/ b < binding
            \/ b = binding /\ n < turn.ordinal
            \/ b = binding /\ n = turn.ordinal /\ e \in used

\* The user only speaks in a turn of a session.
Spoken == turn.human => binding > 0 /\ turn.ordinal > 0

HermesInv == HermesTypeOK /\ NamedBefore /\ Spoken

OwnId == {<<Profile, o>> : o \in Own}

LEMMA OwnIds == OwnId \subseteq Id /\ OwnId \cap Uuid = {}
<1>1. Own \subseteq Occurrence /\ Profile \in Scope /\ Uuid \cap (Scope \X Occurrence) = {}
  BY HermesAssumption DEF Own
<1> QED  BY <1>1 DEF OwnId, Id

LEMMA HermesStore ==
    /\ Store!TypeOK = (store \in Files) /\ Store!Init = (store = NoMemories)
    /\ \A f : Store!Full(f) = Full(f)
    /\ \A f, id, s, k, c, provisional :
          Store!Duplicate(f, id, s, k, c, provisional) = Duplicate(f, id, s, k, c, provisional)
    /\ \A f, s, target : Store!ValidTarget(f, s, target) = ValidTarget(f, s, target)
    /\ \A f, s, k, target, provisional :
          Store!Priors(f, s, k, target, provisional) = Priors(f, s, k, target, provisional)
    /\ \A f, i : Store!Restorable(f, i) = Restorable(f, i)
    /\ \A m, st : Store!WithStatus(m, st) = WithStatus(m, st)
    /\ Store!Id = Id
<1>1. \A f : Store!Full(f) = Full(f)
  BY DEF Store!Full, Full, Store!Stored, Stored, Store!Id, Id, Store!Cardinality, Cardinality
<1>2. \A f, id, s, k, c, provisional :
         Store!Duplicate(f, id, s, k, c, provisional) = Duplicate(f, id, s, k, c, provisional)
  BY DEF Store!Duplicate, Duplicate, Store!Stored, Stored, Store!Id, Id
<1>3. \A f, s, target : Store!ValidTarget(f, s, target) = ValidTarget(f, s, target)
  BY DEF Store!ValidTarget, ValidTarget, Store!HasStatus, HasStatus
<1>4. \A f, s, k, target, provisional :
         Store!Priors(f, s, k, target, provisional) = Priors(f, s, k, target, provisional)
  BY DEF Store!Priors, Priors, Store!Current, Current, Store!Stored, Stored, Store!Id, Id
<1>5. \A f, i : Store!Restorable(f, i) = Restorable(f, i)
  BY DEF Store!Restorable, Restorable, Store!HasStatus, HasStatus
<1>6. \A m, st : Store!WithStatus(m, st) = WithStatus(m, st)
  BY DEF Store!WithStatus, WithStatus
<1>7. Store!Id = Id
  BY DEF Store!Id, Id
<1>8. Store!TypeOK = (store \in Files)
  BY DEF Store!TypeOK, Store!Files, Files, Store!Id, Id, Store!Memory, Memory, Store!Status, Status
<1>9. Store!Init = (store = NoMemories)
  BY DEF Store!Init, Store!NoMemories, NoMemories, Store!Id, Id
<1> QED  BY <1>1, <1>2, <1>3, <1>4, <1>5, <1>6, <1>7, <1>8, <1>9

LEMMA Restated ==
    ASSUME NEW m \in Memory, NEW st \in Status PROVE WithStatus(m, st) \in Memory
  BY DEF Memory, WithStatus

LEMMA RememberStores ==
    ASSUME store \in Files, NEW i \in Uuid, NEW s \in Scope, NEW c \in Content, Store!Remember(i, s, c)
    PROVE  /\ store' \in Files
           /\ \A x \in OwnId : store'[x] = store[x]
<1>1. store' = [store EXCEPT ![i] = [scope |-> s, key |-> NoKey, content |-> c,
                                     status |-> "active", supersedes |-> NoId]]
  BY DEF Store!Remember
<1>2. [scope |-> s, key |-> NoKey, content |-> c, status |-> "active", supersedes |-> NoId] \in Memory
  BY DEF Memory, Status
<1>3. i \in Id
  BY DEF Id
<1> QED  BY <1>1, <1>2, <1>3, OwnIds DEF Files

\* What the vault is after a statement was learned, in place of prior.
Learned(s, o, c, k, st, prior) ==
    store' = [i \in Id |-> IF i = <<s, o>> THEN [scope |-> s, key |-> k, content |-> c, status |-> st, supersedes |-> prior]
                           ELSE IF i = prior THEN WithStatus(store[i], "superseded")
                           ELSE store[i]]

\* Nothing else is put down.
Only(id) == \A x \in Id \ {id} : store[x] = NoFile => store'[x] = NoFile

\* A statement is put down as its own memory, and changes the status of others.
LEMMA LearnStores ==
    ASSUME store \in Files, NEW s \in Scope, NEW o \in Occurrence, NEW c \in Content, NEW k \in Key \cup {NoKey},
           NEW st \in Status, NEW target \in Id \cup {NoId}, ValidTarget(store, s, target),
           NEW prior \in Current(store, s, k) \cup {target}, Learned(s, o, c, k, st, prior)
    PROVE  /\ store' \in Files /\ <<s, o>> \in Id
           /\ store'[<<s, o>>] # NoFile
           /\ store'[<<s, o>>].scope = s /\ store'[<<s, o>>].key = k /\ store'[<<s, o>>].content = c
           /\ store'[<<s, o>>].status = st
           /\ Only(<<s, o>>)
<1> DEFINE id == <<s, o>>
           new == [scope |-> s, key |-> k, content |-> c, status |-> st, supersedes |-> prior]
<1>0. id \in Id
  BY DEF Id
<1>1. store' = [i \in Id |-> IF i = id THEN new
                             ELSE IF i = prior THEN WithStatus(store[i], "superseded")
                             ELSE store[i]]
  BY DEF Learned
<1>3. prior \in Id \cup {NoId} /\ (prior # NoId => store[prior] \in Memory)
  <2>1. CASE prior = target
    BY <2>1 DEF ValidTarget, HasStatus, Files
  <2>2. CASE prior \in Current(store, s, k)
    BY <2>2 DEF Current, Stored, Files
  <2> QED  BY <2>1, <2>2
<1>4. new \in Memory
  BY <1>3 DEF Memory
<1>5. new.scope = s /\ new.key = k /\ new.content = c /\ new.status = st
  OBVIOUS
<1> HIDE DEF new
<1>6. NoId \notin Id /\ NoFile \notin Memory
  BY DistinctNames
<1>7. ASSUME NEW x \in Id \ {id}, x # prior PROVE store'[x] = store[x]
  BY <1>1, <1>7
<1>8. ASSUME prior \in Id \ {id} PROVE store'[prior] \in Memory /\ store[prior] # NoFile
  <2>1. store[prior] \in Memory
    BY <1>3, <1>6, <1>8
  <2>2. store'[prior] = WithStatus(store[prior], "superseded")
    BY <1>1, <1>8
  <2>3. "superseded" \in Status
    BY DEF Status
  <2> QED  BY <1>6, <2>1, <2>2, <2>3, Restated
<1>9. store'[id] = new
  BY <1>0, <1>1
<1>10. store' \in Files
  <2>1. \A x \in Id : store'[x] \in Memory \cup {NoFile}
    BY <1>4, <1>7, <1>8, <1>9 DEF Files
  <2>2. store' = [x \in Id |-> store'[x]]
    BY <1>1
  <2> QED  BY <2>1, <2>2 DEF Files
<1> QED  BY <1>0, <1>4, <1>5, <1>6, <1>7, <1>8, <1>9, <1>10 DEF Only

LEMMA ForgetStores ==
    ASSUME store \in Files, NEW i \in Id, Store!Forget(i)
    PROVE  store' \in Files /\ \A x \in Id : store[x] = NoFile => store'[x] = NoFile
<1> DEFINE back == Restorable(store, i)
<1>1. /\ store[i] # NoFile
      /\ store' = [j \in Id |-> IF j = i THEN WithStatus(store[j], "forgotten")
                                ELSE IF j = back THEN WithStatus(store[j], "active")
                                ELSE store[j]]
  BY HermesStore DEF Store!Forget
<1>2. back \in Id => store[back] # NoFile
  BY DistinctNames DEF Restorable, HasStatus
<1> HIDE DEF back
<1>3. {"forgotten", "active"} \subseteq Status
  BY DEF Status
<1>4. ASSUME NEW x \in Id PROVE store'[x] \in Memory \cup {NoFile} /\ (store[x] = NoFile => store'[x] = NoFile)
  <2>1. CASE x = i
    BY <1>1, <1>3, <2>1, Restated DEF Files
  <2>2. CASE x # i /\ x = back
    BY <1>1, <1>2, <1>3, <2>2, Restated DEF Files
  <2>3. CASE x # i /\ x # back
    BY <1>1, <2>3 DEF Files
  <2> QED  BY <2>1, <2>2, <2>3
<1>5. store' = [x \in Id |-> store'[x]]
  BY <1>1
<1> QED  BY <1>4, <1>5 DEF Files

LEMMA NewSession == ASSUME HermesInv, SwitchSession PROVE
    /\ binding' \in 0 .. MaxBindings /\ turn' \in Turn /\ used' = {} /\ binding' = binding + 1
    /\ ~turn'.human
<1>1. (CHOOSE c \in Content : TRUE) \in Content
  BY HermesAssumption
<1>2. NoTurn \in Turn /\ ~NoTurn.human
  BY <1>1, HermesAssumption DEF NoTurn, Turn
<1> QED  BY <1>2, HermesAssumption DEF SwitchSession, HermesInv, HermesTypeOK

LEMMA HermesStep == HermesInv /\ [HermesNext]_hermesVars => HermesInv'
<1> SUFFICES ASSUME HermesInv, [HermesNext]_hermesVars PROVE HermesInv'
  OBVIOUS
<1>0. /\ store \in Files /\ primary \in BOOLEAN /\ binding \in 0 .. MaxBindings /\ turn \in Turn
      /\ used \subseteq Event /\ MaxBindings \in Nat /\ MaxOrdinal \in Nat
      /\ turn.ordinal \in 0 .. MaxOrdinal /\ turn.human \in BOOLEAN
  BY HermesStore, HermesAssumption DEF HermesInv, HermesTypeOK, Turn
<1>s. ASSUME store' \in Files, primary' \in BOOLEAN, binding' \in 0 .. MaxBindings, turn' \in Turn,
             used' \subseteq Event
      PROVE  HermesTypeOK'
  BY <1>s, HermesStore DEF HermesTypeOK, Store!TypeOK, Store!Files, Files, Store!Id, Id, Store!Memory, Memory,
     Store!Status, Status
<1>1. ASSUME SwitchSession, primary' \in BOOLEAN, store' = store PROVE HermesInv'
  <2>1. /\ binding' \in 0 .. MaxBindings /\ turn' \in Turn /\ used' = {} /\ binding' = binding + 1
        /\ ~turn'.human
    BY <1>1, NewSession
  <2>2. HermesTypeOK' /\ Spoken'
    BY <1>0, <1>1, <1>s, <2>1 DEF Spoken
  <2>3. NamedBefore'
    BY <1>0, <1>1, <2>1 DEF HermesInv, NamedBefore
  <2> QED  BY <2>2, <2>3 DEF HermesInv
<1>2. ASSUME NEW main \in BOOLEAN, Initialize(main) PROVE HermesInv'
  BY <1>1, <1>2 DEF Initialize
<1>3. CASE Resume
  BY <1>0, <1>1, <1>3 DEF Resume
<1>4. ASSUME NEW n \in 1 .. MaxOrdinal, NEW c \in Content, NEW human \in BOOLEAN, TurnStart(n, c, human)
      PROVE  HermesInv'
  <2>1. /\ binding > 0 /\ n > turn.ordinal /\ turn' = [ordinal |-> n, said |-> c, human |-> human]
        /\ used' = {} /\ UNCHANGED <<store, primary, binding>>
    BY <1>4 DEF TurnStart
  <2>2. turn' \in Turn /\ turn'.ordinal = n
    BY <1>0, <2>1 DEF Turn
  <2>3. HermesTypeOK' /\ Spoken'
    BY <1>0, <1>s, <2>1, <2>2 DEF Spoken
  <2>4. NamedBefore'
    BY <1>0, <2>1, <2>2 DEF HermesInv, NamedBefore
  <2> QED  BY <2>3, <2>4 DEF HermesInv
\* Nothing is put down for the turns of Hermes.
<1>5. ASSUME store' \in Files, UNCHANGED <<primary, binding, turn, used>>,
             \A x \in OwnId : store[x] = NoFile => store'[x] = NoFile
      PROVE  HermesInv'
  <2>1. HermesTypeOK' /\ Spoken'
    BY <1>0, <1>5, <1>s DEF HermesInv, Spoken
  <2>2. \A b \in 1 .. MaxBindings, n \in 1 .. MaxOrdinal, e \in Event : <<Profile, <<b, n, e>>>> \in OwnId
    BY DEF OwnId, Own
  <2>3. NamedBefore'
    BY <1>5, <2>2 DEF HermesInv, NamedBefore
  <2> QED  BY <2>1, <2>3 DEF HermesInv
<1>6. ASSUME NEW e \in Event, NEW c \in Content, NEW k \in Key \cup {NoKey}, NEW target \in Id \cup {NoId},
             NEW inference \in BOOLEAN, LearnTool(e, c, k, target, inference)
      PROVE  HermesInv'
  <2> DEFINE o == <<binding, turn.ordinal, e>>
             provisional == inference \/ c # turn.said
  <2>1. /\ primary /\ turn.human
        /\ used' = used \cup {e} /\ UNCHANGED <<primary, binding, turn>>
        /\ Store!Learn(Profile, o, c, k, target, provisional) \/ UNCHANGED store
    BY <1>6 DEF LearnTool
  <2>2. o \in Own /\ o \in Occurrence /\ Profile \in Scope /\ provisional \in BOOLEAN
    BY <1>0, <2>1, HermesAssumption DEF HermesInv, Spoken, Own
  <2>3. store' \in Files /\ Only(<<Profile, o>>)
    <3>1. CASE Store!Learn(Profile, o, c, k, target, provisional)
      <4>1. ValidTarget(store, Profile, target)
        BY <3>1, HermesStore DEF Store!Learn
      <4>2. PICK prior \in Priors(store, Profile, k, target, provisional) :
               Learned(Profile, o, c, k, IF provisional THEN "provisional" ELSE "active", prior)
        BY <3>1, HermesStore DEF Store!Learn, Learned
      <4>3. PICK st \in Status : Learned(Profile, o, c, k, st, prior)
        BY <4>2 DEF Status
      <4>4. prior \in Current(store, Profile, k) \cup {target}
        BY <4>2 DEF Priors
      <4> QED  BY <1>0, <2>2, <4>1, <4>3, <4>4, LearnStores
    <3> QED  BY <1>0, <2>1, <3>1 DEF Only
  <2>4. HermesTypeOK' /\ Spoken'
    BY <1>0, <1>s, <2>1, <2>3 DEF HermesInv, Spoken
  <2>5. ASSUME NEW b \in 1 .. MaxBindings, NEW n \in 1 .. MaxOrdinal, NEW f \in Event,
               store'[<<Profile, <<b, n, f>>>>] # NoFile
        PROVE  b < binding \/ (b = binding /\ n < turn.ordinal) \/ (b = binding /\ n = turn.ordinal /\ f \in used')
    <3>1. <<Profile, <<b, n, f>>>> \in Id
      BY OwnIds DEF OwnId, Own
    <3>2. CASE <<b, n, f>> = o
      BY <2>1, <3>2
    <3>3. CASE <<b, n, f>> # o
      <4>1. store[<<Profile, <<b, n, f>>>>] # NoFile
        BY <2>3, <2>5, <3>1, <3>3 DEF Only
      <4> QED  BY <2>1, <4>1 DEF HermesInv, NamedBefore
    <3> QED  BY <3>2, <3>3
  <2>6. NamedBefore'
    BY <2>1, <2>5 DEF NamedBefore
  <2> QED  BY <2>4, <2>6 DEF HermesInv
<1>7. ASSUME NEW i \in Id, ForgetTool(i) PROVE HermesInv'
  <2>1. Store!Forget(i) /\ UNCHANGED <<primary, binding, turn, used>>
    BY <1>7 DEF ForgetTool
  <2> QED  BY <1>0, <1>5, <2>1, ForgetStores, OwnIds
<1>8. CASE OtherClients
  <2>0. UNCHANGED <<primary, binding, turn, used>>
    BY <1>8 DEF OtherClients
  <2>1. ASSUME NEW i \in Uuid, NEW s \in Scope, NEW c \in Content, Store!Remember(i, s, c) PROVE HermesInv'
    BY <1>0, <1>5, <2>0, <2>1, RememberStores
  <2>2. ASSUME NEW s \in Scope, NEW o \in Occurrence \ Own, NEW c \in Content, NEW k \in Key \cup {NoKey},
               NEW target \in Id \cup {NoId}, NEW provisional \in BOOLEAN,
               Store!Learn(s, o, c, k, target, provisional)
        PROVE  HermesInv'
    <3>1. store' \in Files /\ Only(<<s, o>>)
      <4>1. ValidTarget(store, s, target)
        BY <2>2, HermesStore DEF Store!Learn
      <4>2. PICK prior \in Priors(store, s, k, target, provisional) :
               Learned(s, o, c, k, IF provisional THEN "provisional" ELSE "active", prior)
        BY <2>2, HermesStore DEF Store!Learn, Learned
      <4>3. PICK st \in Status : Learned(s, o, c, k, st, prior)
        BY <4>2 DEF Status
      <4>4. prior \in Current(store, s, k) \cup {target}
        BY <4>2 DEF Priors
      <4>5. o \in Occurrence
        OBVIOUS
      <4> QED  BY <1>0, <4>1, <4>3, <4>4, <4>5, LearnStores
    <3>2. \A x \in OwnId : x \in Id \ {<<s, o>>}
      BY OwnIds DEF OwnId
    <3> QED  BY <1>5, <2>0, <3>1, <3>2 DEF Only
  <2>3. ASSUME NEW i \in Id, Store!Forget(i) PROVE HermesInv'
    BY <1>0, <1>5, <2>0, <2>3, ForgetStores, OwnIds
  <2> QED  BY <1>8, <2>1, <2>2, <2>3 DEF OtherClients
<1>9. CASE UNCHANGED hermesVars
  BY <1>0, <1>5, <1>9 DEF hermesVars
<1>10. CASE Recall
  BY <1>9, <1>10 DEF Recall
<1> QED
  BY <1>2, <1>3, <1>4, <1>6, <1>7, <1>8, <1>9, <1>10 DEF HermesNext

LEMMA HermesStarts == HermesInit => HermesInv
<1> SUFFICES ASSUME HermesInit PROVE HermesInv
  OBVIOUS
<1>1. NoTurn \in Turn /\ ~NoTurn.human
  <2>1. (CHOOSE c \in Content : TRUE) \in Content
    BY HermesAssumption
  <2> QED  BY <2>1, HermesAssumption DEF NoTurn, Turn
<1>2. store = NoMemories /\ store \in Files /\ \A x \in Id : store[x] = NoFile
  BY HermesStore DEF HermesInit, NoMemories, Files
<1>3. HermesTypeOK
  <2>1. Store!TypeOK
    BY <1>2, HermesStore
  <2>2. 0 \in 0 .. MaxBindings
    BY HermesAssumption
  <2> QED  BY <1>1, <2>1, <2>2 DEF HermesInit, HermesTypeOK
<1>4. NamedBefore
  <2>1. \A b \in 1 .. MaxBindings, n \in 1 .. MaxOrdinal, e \in Event : <<Profile, <<b, n, e>>>> \in Id
    BY OwnIds DEF OwnId, Own
  <2> QED  BY <1>2, <2>1 DEF NamedBefore
<1>5. Spoken
  BY <1>1 DEF HermesInit, Spoken
<1> QED  BY <1>3, <1>4, <1>5 DEF HermesInv

LEMMA HermesInvariant == HermesSpec => []HermesInv
  BY HermesStarts, HermesStep, PTL DEF HermesSpec

\* The vault, the session and the turn are always of a kind the code knows.
THEOREM HermesTypes == HermesSpec => []HermesTypeOK
<1>1. HermesInv => HermesTypeOK
  BY DEF HermesInv
<1> QED  BY <1>1, HermesInvariant, PTL

\* What the user says under a key is in force afterwards, whatever sessions,
\* turns and other clients went before (hermes_provider.py on_turn_start).
THEOREM CorrectionsHeard == HermesSpec => NothingSwallowed
<1> DEFINE Heard == \A e \in Event \ used, k \in Key, target \in Id \cup {NoId} :
               LearnTool(e, turn.said, k, target, FALSE) =>
                  \E i \in Current(store', Profile, k) : store'[i].content = turn.said
<1>1. HermesInv /\ [HermesNext]_hermesVars => [Heard]_hermesVars
  <2> SUFFICES ASSUME HermesInv, NEW e \in Event \ used, NEW k \in Key, NEW target \in Id \cup {NoId},
                      LearnTool(e, turn.said, k, target, FALSE)
               PROVE  \E i \in Current(store', Profile, k) : store'[i].content = turn.said
    OBVIOUS
  <2> DEFINE o == <<binding, turn.ordinal, e>>
  <2>0. /\ store \in Files /\ binding \in 0 .. MaxBindings /\ turn.ordinal \in 0 .. MaxOrdinal
        /\ turn.said \in Content /\ MaxBindings \in Nat /\ MaxOrdinal \in Nat
    BY HermesStore, HermesAssumption DEF HermesInv, HermesTypeOK, Turn
  <2>1. turn.human
    BY DEF LearnTool
  <2>2. binding \in 1 .. MaxBindings /\ turn.ordinal \in 1 .. MaxOrdinal
    BY <2>0, <2>1 DEF HermesInv, Spoken
  <2>3. o \in Occurrence /\ Profile \in Scope /\ <<Profile, o>> \in Id
    BY <2>2, HermesAssumption DEF Id
  <2>4. store[<<Profile, o>>] = NoFile
    BY <2>2 DEF HermesInv, NamedBefore
  <2>5. \/ Store!Learn(Profile, o, turn.said, k, target, FALSE)
        \/ Duplicate(store, <<Profile, o>>, Profile, k, turn.said, FALSE) /\ store' = store
    BY DEF LearnTool
  <2> HIDE DEF o
  <2>6. CASE Store!Learn(Profile, o, turn.said, k, target, FALSE)
    <3>1. /\ store'[<<Profile, o>>] # NoFile
          /\ store'[<<Profile, o>>].scope = Profile /\ store'[<<Profile, o>>].key = k
          /\ store'[<<Profile, o>>].content = turn.said
          /\ store'[<<Profile, o>>].status = "active"
      <4>1. ValidTarget(store, Profile, target)
        BY <2>6, HermesStore DEF Store!Learn
      <4>2. PICK prior \in Priors(store, Profile, k, target, FALSE) :
               Learned(Profile, o, turn.said, k, "active", prior)
        BY <2>6, HermesStore DEF Store!Learn, Learned
      <4>3. prior \in Current(store, Profile, k) \cup {target} /\ "active" \in Status
        BY <4>2 DEF Priors, Status
      <4> QED  BY <2>0, <2>3, <4>1, <4>2, <4>3, LearnStores
    <3>2. <<Profile, o>> \in Current(store', Profile, k)
      BY <2>3, <3>1 DEF Current, Stored
    <3> QED  BY <3>1, <3>2
  <2>7. CASE Duplicate(store, <<Profile, o>>, Profile, k, turn.said, FALSE) /\ store' = store
    <3>1. PICK i \in Stored(store) : /\ store[i].scope = Profile /\ store[i].content = turn.said
                                     /\ store[i].key = k /\ store[i].status = "active"
      BY <2>4, <2>7 DEF Duplicate
    <3>2. i \in Current(store', Profile, k)
      BY <2>7, <3>1 DEF Current
    <3> QED  BY <2>7, <3>1, <3>2
  <2> QED  BY <2>5, <2>6, <2>7
<1> QED  BY <1>1, HermesInvariant, PTL DEF HermesSpec, NothingSwallowed
=============================================================================
