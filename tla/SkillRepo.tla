----------------------------- MODULE SkillRepo -----------------------------
(***************************************************************************)
(* The checkout of the weekly-review skill (skills/update.ts): the start   *)
(* of the service clones it or brings it up to date, the console installs  *)
(* it and updates it, each behind awaits of git, while the user works in   *)
(* the same directory, fills in its configuration and saves settings from  *)
(* a page that was opened before.                                          *)
(*                                                                         *)
(* git is external: clone refuses a directory with something in it and     *)
(* removes what it made when it fails; pull --ff-only leaves a checkout    *)
(* with commits of its own, on a branch of its own or with edits in the    *)
(* way as it is.                                                           *)
(***************************************************************************)
EXTENDS Naturals

CONSTANTS
  Dirs,     \* the directories a checkout may be in
  Home,     \* defaultSkillInstallDir
  Link,     \* the one a CLI's skill entry points at, or Nowhere
  Nowhere,
  Settings, \* what the rest of the configuration file says
  LastHead, \* bound: the commits of the repository
  Chores    \* bounds: how often what happens from outside happens

Places == Dirs \union {Nowhere}
Jobs == {"start", "install", "update"}
Empty == [at |-> "none", head |-> 0, mine |-> FALSE, dirty |-> FALSE, own |-> FALSE, config |-> "none"]
Checkouts == [at : {"none", "partial", "repo"}, head : 0..LastHead, mine : BOOLEAN, dirty : BOOLEAN,
              own : BOOLEAN, config : {"none", "template", "filled"}]
Pages == [registry : Places, setting : Settings]
Chore == [works : Nat, saves : Nat, calls : Nat, crashes : Nat]

VARIABLES
  repo,     \* the directories
  registry, \* the checkout the configuration names
  setting,  \* the rest of the configuration
  page,     \* what the console's page shows of both
  upstream, \* the head of the repository
  jobs,     \* the start's, the console's installation and update
  started,  \* whether this process has begun its start
  work,     \* what the user did in each checkout since it was made
  wished,   \* the settings saved last
  chore     \* what is left of the bounds

vars == <<repo, registry, setting, page, upstream, jobs, started, work, wished, chore>>
conf == <<registry, setting, page, wished>>
NoJob == [step |-> "idle", dir |-> Nowhere, seeds |-> {}, was |-> CHOOSE s \in Settings : TRUE]

Init ==
  /\ repo = [d \in Dirs |-> Empty] /\ registry = Nowhere /\ setting \in Settings
  /\ page = [registry |-> registry, setting |-> setting] /\ upstream = 1
  /\ jobs = [j \in Jobs |-> NoJob] /\ started = FALSE
  /\ work = [d \in Dirs |-> "none"] /\ wished = setting /\ chore \in Chores

Spend(what) == chore[what] > 0 /\ chore' = [chore EXCEPT ![what] = @ - 1]
Available == registry # Nowhere /\ repo[registry].at # "none"
Blocked == ~Available \/ repo[registry].at # "repo" \/ repo[registry].dirty
Candidates == {registry, Link} \ {Nowhere}

(***************************************************************************)
(* What a job begins with, and decideSkillProvisioning for the start.      *)
(***************************************************************************)
Cloning(dir) == [step |-> "check", dir |-> dir, seeds |-> Candidates, was |-> setting]
Pulling == [step |-> "fetch", dir |-> registry, seeds |-> {}, was |-> setting]

Provision ==
  IF ~Available THEN Cloning(Home)
  ELSE IF Blocked \/ repo[registry].own THEN [NoJob EXCEPT !.step = "skipped"]
  ELSE Pulling

Start ==
  /\ ~started /\ started' = TRUE /\ jobs' = [jobs EXCEPT !["start"] = Provision]
  /\ UNCHANGED <<repo, conf, upstream, work, chore>>

Install(d) ==
  /\ jobs["install"] = NoJob /\ Spend("calls") /\ jobs' = [jobs EXCEPT !["install"] = Cloning(d)]
  /\ UNCHANGED <<repo, conf, upstream, started, work>>

Update ==
  /\ jobs["update"] = NoJob /\ ~Blocked /\ Spend("calls")
  /\ jobs' = [jobs EXCEPT !["update"] = Pulling]
  /\ UNCHANGED <<repo, conf, upstream, started, work>>

(***************************************************************************)
(* installSkillRepo: nothing is cloned over what is there.                 *)
(***************************************************************************)
Ended(j, how) == [jobs EXCEPT ![j] = IF j = "start" THEN [NoJob EXCEPT !.step = how] ELSE NoJob]

Clone(j) ==
  /\ jobs[j].step = "check"
  /\ IF repo[jobs[j].dir].at # "none"
     THEN jobs' = Ended(j, "refused") /\ UNCHANGED repo
     ELSE jobs' = [jobs EXCEPT ![j].step = "clone"] /\ repo' = [repo EXCEPT ![jobs[j].dir].at = "partial"]
  /\ UNCHANGED <<conf, upstream, started, work, chore>>

CloneFails(j) ==
  /\ jobs[j].step = "clone" /\ Spend("crashes")
  /\ jobs' = Ended(j, "failed") /\ repo' = [repo EXCEPT ![jobs[j].dir] = Empty]
  /\ UNCHANGED <<conf, upstream, started, work>>

Fresh == [Empty EXCEPT !.at = "repo", !.head = upstream]
Filled(s) == repo[s].config = "filled"
(* Mutant of Seeded: only the template of the repository is copied.        *)
SeededFromExample(j) == "template"

Seeded(j) ==
  IF \E s \in jobs[j].seeds \ {jobs[j].dir} : Filled(s) THEN "filled" ELSE "template"

(* Mutant of Registered: the configuration the job began with is written. *)
RegisteredAsBegun(j) == registry' = jobs[j].dir /\ setting' = jobs[j].was

(* The configuration is read again right before it is written.             *)
Registered(j) == registry' = jobs[j].dir /\ UNCHANGED setting

CloneEnds(j) ==
  /\ jobs[j].step = "clone"
  /\ repo' = [repo EXCEPT ![jobs[j].dir] = [Fresh EXCEPT !.config = Seeded(j)]]
  /\ Registered(j) /\ jobs' = Ended(j, "done")
  /\ UNCHANGED <<page, wished, upstream, started, work, chore>>

(***************************************************************************)
(* updateSkillRepo: fetch, then a pull that only fast-forwards.            *)
(***************************************************************************)
Fetch(j, ok) ==
  /\ jobs[j].step = "fetch"
  /\ jobs' = IF ok THEN [jobs EXCEPT ![j].step = "pull"] ELSE Ended(j, "failed")
  /\ UNCHANGED <<repo, conf, upstream, started, work, chore>>

(* Mutant of Forwarded: the checkout is reset to the remote head.          *)
ForwardedByReset(c) ==
  IF c.at # "repo" THEN c ELSE [c EXCEPT !.head = upstream, !.mine = FALSE, !.dirty = FALSE]

Forwarded(c) == IF c.at # "repo" \/ c.mine \/ c.own THEN c ELSE [c EXCEPT !.head = upstream]

Pull(j) ==
  /\ jobs[j].step = "pull" /\ jobs' = Ended(j, "done")
  /\ LET c == repo[jobs[j].dir] IN
     \/ repo' = [repo EXCEPT ![jobs[j].dir] = Forwarded(c)]
     \/ c.dirty /\ UNCHANGED repo
  /\ UNCHANGED <<conf, upstream, started, work, chore>>

(***************************************************************************)
(* The user and the world                                                  *)
(***************************************************************************)
Work(d, kind) ==
  /\ repo[d].at = "repo" /\ Spend("works")
  /\ CASE kind = "edit" -> repo' = [repo EXCEPT ![d].dirty = TRUE]
       [] kind = "commit" -> repo[d].dirty /\ repo' = [repo EXCEPT ![d].dirty = FALSE, ![d].mine = TRUE]
       [] kind = "branch" -> ~repo[d].own /\ repo' = [repo EXCEPT ![d].own = TRUE]
       [] kind = "fill" -> ~Filled(d) /\ repo' = [repo EXCEPT ![d].config = "filled"]
       [] kind = "remove" -> repo' = [repo EXCEPT ![d] = Empty]
  /\ work' = [work EXCEPT ![d] = IF kind = "remove" THEN "none"
                                 ELSE IF kind \in {"edit", "commit"} THEN kind ELSE @]
  /\ UNCHANGED <<conf, upstream, jobs, started>>

Release ==
  /\ upstream < LastHead /\ upstream' = upstream + 1
  /\ UNCHANGED <<repo, conf, jobs, started, work, chore>>

OpenPage ==
  /\ page' = [registry |-> registry, setting |-> setting] /\ page' # page
  /\ UNCHANGED <<repo, registry, setting, wished, upstream, jobs, started, work, chore>>

(* saveConfig writes the whole file from the page.                         *)
SavePage(s) ==
  /\ Spend("saves") /\ s # page.setting
  /\ page' = [page EXCEPT !.setting = s] /\ registry' = page.registry /\ setting' = s /\ wished' = s
  /\ UNCHANGED <<repo, upstream, jobs, started, work>>

(* The process ends; a git child may finish its clone without it.          *)
Crash ==
  /\ Spend("crashes") /\ started' = FALSE /\ jobs' = [j \in Jobs |-> NoJob]
  /\ repo' \in {repo, [d \in Dirs |-> IF \E j \in Jobs : jobs[j].step = "clone" /\ jobs[j].dir = d
                                      THEN Fresh ELSE repo[d]]}
  /\ UNCHANGED <<conf, upstream, work>>

Next ==
  \/ Start \/ Update \/ Release \/ OpenPage \/ Crash
  \/ \E d \in Dirs : Install(d)
  \/ \E d \in Dirs, kind \in {"edit", "commit", "branch", "fill", "remove"} : Work(d, kind)
  \/ \E j \in Jobs : Clone(j) \/ CloneFails(j) \/ CloneEnds(j) \/ Pull(j)
  \/ \E j \in Jobs, ok \in BOOLEAN : Fetch(j, ok)
  \/ \E s \in Settings : SavePage(s)

Spec == Init /\ [][Next]_vars

TypeOK ==
  /\ repo \in [Dirs -> Checkouts] /\ registry \in Places /\ setting \in Settings /\ wished \in Settings
  /\ page \in Pages /\ upstream \in 1..LastHead /\ started \in BOOLEAN
  /\ jobs \in [Jobs -> [step : {"idle", "skipped", "refused", "failed", "done", "check", "clone", "fetch", "pull"},
                        dir : Places, seeds : SUBSET Dirs, was : Settings]]
  /\ work \in [Dirs -> {"none", "edit", "commit"}] /\ chore \in Chore

(* What the user edited or committed in a checkout is there until they     *)
(* take it away, whatever the start and the console do at the same time:   *)
(* a dirty tree is looked for before anything is fetched and the pull only *)
(* fast-forwards (update.ts).                                              *)
WorkKept == \A d \in Dirs :
  /\ work[d] = "edit" => repo[d].dirty
  /\ work[d] = "commit" => repo[d].mine

(* An installation that replaces the checkout in use does not lose its     *)
(* filled-in configuration (installSkillRepo, seedFrom), provided the      *)
(* checkout was in use when the installation began.                        *)
CarriesFilled ==
  \A j \in Jobs :
    /\ jobs[j].step = "clone" /\ jobs'[j].step # "clone" /\ registry' # registry
    /\ registry \in jobs[j].seeds /\ Filled(registry)
    => Filled(registry)'
FilledCarries == [][CarriesFilled]_vars

(* A registration in the background keeps the settings the user saved,     *)
(* however long the clone took (persistSkillRegistration).                 *)
SettingsKept == setting = wished

(* A start that finds no checkout in use installs one: it is never turned  *)
(* away by its own directory ("so a machine gets biweekly by launching     *)
(* the app, no manual clone", update.ts).                                  *)
LaunchProvides == jobs["start"].step # "refused"
=============================================================================
