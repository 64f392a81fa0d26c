------------------------------ MODULE Scaffold ------------------------------
(***************************************************************************)
(* The fibr command: "new" renders a project, "add module" renders a       *)
(* feature into one.  A command writes file after file, any of which may   *)
(* fail, before or while it is written, and may be killed in between; the  *)
(* next command starts from the files that are left.                       *)
(* A path is a tuple of the parts that tell two files of the plans apart;  *)
(* the files no other plan writes (Dockerfile, config, router...) are one. *)
(***************************************************************************)
EXTENDS Integers, Sequences, FiniteSets, Functions, SequencesExt

CONSTANTS
    Projects,    \* sets of the options of "new": sample, auth, team, queue, realtime, i18n
    Names,       \* names given to "add module", as deriveModuleNames lower-cases them
    MaxTime,     \* bound: seconds of the wall clock
    MaxCommands  \* bound: commands run

Layouts == {"ddd", "layered"}

VARIABLES
    disk,     \* disk[f]: whose content the file at path f has, "torn" if cut off
    dirs,     \* the directories detectLayout looks for, once created
    now,      \* wall clock
    cmd,      \* the running command
    commands, \* commands started
    old,      \* ghost: disk when the running command started
    hurried   \* ghost: a clock was read before the last second already stamped

scaffoldVars == <<disk, dirs, now, cmd, commands, old, hurried>>

Idle == [kind |-> "none"]

-----------------------------------------------------------------------------
(* The plans: sequences of [path, owner]; a migration's path is not known yet. *)

Spec1(path, owner) == [path |-> path, owner |-> owner]
Clock == Spec1(<<"clock">>, "")              \* newMigrationClock
Migration(t) == [path |-> <<"migration", t>>, owner |-> t]

Specs(paths, owner) == [j \in DOMAIN paths |-> Spec1(paths[j], owner)]

plan(layout) == Specs(<<<<"go.mod">>, <<"migrations.go">>, <<layout, "main.go">>>>, "skeleton")

planModule(layout, n) ==
    Specs(IF layout = "ddd"
            THEN <<<<"domain", n, n>>, <<"domain", n, "repository">>, <<"application", n>>,
                   <<"persistence", n>>, <<"http", n, "handler">>, <<"http", n, "module">>>>
            ELSE <<<<"model", n>>, <<"repo", n>>, <<"service", n>>,
                   <<"handler", n, "handler">>, <<"handler", n, "module">>>>, n)

Accounts(layout, n) ==
    IF layout = "ddd"
      THEN <<<<"domain", n, n>>, <<"domain", n, "repository">>, <<"application", n>>, <<"persistence", n>>>>
      ELSE <<<<"model", n>>, <<"repo", n>>, <<"service", IF n = "account" THEN "auth" ELSE n>>>>

Http(layout, n, f) == <<IF layout = "ddd" THEN "http" ELSE "handler", n, f>>

planAuth(layout, team) ==
    Specs(Accounts(layout, "account")
          \o (IF team THEN Accounts(layout, "team") ELSE << >>)
          \o <<Http(layout, "auth", "handler"), Http(layout, "auth", "module")>>, "auth")

planQueue(layout) == Specs(<<<<layout, "jobs">>>>, "queue")
planRealtime(layout) == Specs(<<Http(layout, "realtime", "handler")>>, "realtime")
planI18n(layout) == Specs(<<<<"locales">>, Http(layout, "i18n", "handler")>>, "i18n")

TeamMigrations == <<"accounts", "teams", "memberships", "roles", "role_permissions", "invitations">>

\* Generate: which plans, in which order.
PlanNew(layout, o) ==
    LET With(opt, specs) == IF opt \in o THEN specs ELSE << >>
    IN plan(layout)
       \o (IF o \cap {"sample", "auth"} # {} THEN <<Clock>> ELSE << >>)
       \o With("sample", planModule(layout, "user") \o <<Migration("users")>>)
       \o With("auth", planAuth(layout, "team" \in o)
                       \o (IF "team" \in o THEN [j \in DOMAIN TeamMigrations |-> Migration(TeamMigrations[j])]
                                           ELSE <<Migration("accounts")>>))
       \o With("queue", planQueue(layout))
       \o With("realtime", planRealtime(layout))
       \o With("i18n", planI18n(layout))

PlanAdd(layout, n) == planModule(layout, n) \o <<Clock, Migration(n \o "s")>>

-----------------------------------------------------------------------------
(* The commands. *)

Nothing == [f \in {} |-> ""]

ScaffoldInit ==
    /\ disk = Nothing /\ dirs = {} /\ now = 0
    /\ cmd = Idle /\ commands = 0
    /\ old = Nothing /\ hurried = FALSE

Begin(kind, specs, dot) ==
    /\ commands < MaxCommands /\ commands' = commands + 1
    /\ cmd' = [kind |-> kind, dot |-> dot, todo |-> specs, written |-> {}, base |-> 0, n |-> 0]
    /\ old' = disk
    /\ UNCHANGED <<disk, dirs, now, hurried>>

EndCommand ==
    /\ cmd' = Idle
    /\ old' = Nothing
    /\ UNCHANGED <<now, commands, hurried>>

\* Generate refuses a directory that is not empty. Team implies Auth.
New(layout, o, dot) ==
    /\ cmd = Idle /\ disk = Nothing /\ dirs = {}
    /\ Begin("new", PlanNew(layout, IF "team" \in o THEN o \cup {"auth"} ELSE o), dot)

detectLayout == IF "domain" \in dirs THEN {"ddd"} ELSE IF "model" \in dirs THEN {"layered"} ELSE {}

OnDisk(specs) == {j \in DOMAIN specs : specs[j].path \in DOMAIN disk}

\* mutant: only the first file of the module is looked for
AddModuleFirst(n, flag) ==
    /\ cmd = Idle /\ <<"go.mod">> \in DOMAIN disk
    /\ \E layout \in (IF flag = "" THEN detectLayout ELSE {flag}) :
          /\ 1 \notin OnDisk(planModule(layout, n))
          /\ Begin("add", PlanAdd(layout, n), FALSE)

\* AddModule needs a go.mod and a layout, and refuses if any file exists.
AddModule(n, flag) ==
    /\ cmd = Idle /\ <<"go.mod">> \in DOMAIN disk
    /\ \E layout \in (IF flag = "" THEN detectLayout ELSE {flag}) :
          /\ OnDisk(planModule(layout, n)) = {}
          /\ Begin("add", PlanAdd(layout, n), FALSE)

Current == Head(cmd.todo)
IsMigration == Current.path[1] = "migration"

stampOnce(c) == c.base                \* mutant: the clock is not advanced

\* migrationClock.next
stamp(c) == c.base + c.n

\* The destination: a migration's file name starts with its version.
Dest == IF IsMigration THEN <<"migration", stamp(cmd), Current.path[2]>> ELSE Current.path

DirOf(f) == {f[1]} \cap {"domain", "model"}

Pending == cmd # Idle /\ cmd.todo # << >> /\ Current # Clock

CanWrite == Pending /\ (IsMigration => Dest \notin DOMAIN disk)

\* WriteFile creates the file or replaces its content.
WriteFile(f, content) == [g \in DOMAIN disk \cup {f} |-> IF g = f THEN content ELSE disk[g]]
Torn == WriteFile(Dest, "torn")

ReadClock ==
    /\ cmd # Idle /\ cmd.todo # << >> /\ Current = Clock
    /\ cmd' = [cmd EXCEPT !.todo = Tail(@), !.base = now]
    /\ hurried' = (hurried \/ \E f \in DOMAIN disk : f[1] = "migration" /\ f[2] >= now)
    /\ UNCHANGED <<disk, dirs, now, commands, old>>

\* renderFile: template, gofmt, MkdirAll, WriteFile.
Render ==
    /\ CanWrite
    /\ disk' = WriteFile(Dest, Current.owner)
    /\ dirs' = dirs \cup DirOf(Dest)
    /\ cmd' = [cmd EXCEPT !.todo = Tail(@),
                          !.n = IF IsMigration THEN @ + 1 ELSE @,
                          !.written = IF IsMigration THEN @ ELSE @ \cup {Dest}]
    /\ UNCHANGED <<now, commands, old, hurried>>

\* Generate removes the directory, which os.RemoveAll refuses for "."; AddModule
\* removes the files it has finished, and leaves directories.
Rollback(d, ds) ==
    IF cmd.kind = "add"
      THEN disk' = Restrict(d, DOMAIN d \ cmd.written) /\ dirs' = ds
      ELSE IF cmd.dot THEN disk' = d /\ dirs' = ds ELSE disk' = Nothing /\ dirs' = {}

\* A step fails: the migration is there already, the template does not render,
\* or the disk is full and the file is cut off.
Fail ==
    /\ Pending
    /\ \/ Rollback(disk, dirs)
       \/ CanWrite /\ Rollback(Torn, dirs \cup DirOf(Dest))
    /\ EndCommand

\* The command ends well (go mod tidy and git init only warn), or is killed.
Finish ==
    /\ cmd # Idle /\ cmd.todo = << >>
    /\ EndCommand
    /\ UNCHANGED <<disk, dirs>>

Killed ==
    /\ cmd # Idle /\ cmd.todo # << >>
    /\ EndCommand
    /\ \/ UNCHANGED <<disk, dirs>>
       \/ CanWrite /\ disk' = Torn /\ dirs' = dirs \cup DirOf(Dest)

ClockTick ==
    /\ now < MaxTime
    /\ now' = now + 1
    /\ UNCHANGED <<disk, dirs, cmd, commands, old, hurried>>

ScaffoldNext ==
    \/ \E layout \in Layouts, o \in Projects, dot \in BOOLEAN : New(layout, o, dot)
    \/ \E n \in Names, flag \in {""} \cup Layouts : AddModule(n, flag)
    \/ ReadClock \/ Render \/ Fail \/ Finish \/ Killed \/ ClockTick

ScaffoldSpec == ScaffoldInit /\ [][ScaffoldNext]_scaffoldVars

-----------------------------------------------------------------------------
(* Properties. *)

\* The types of the state: the files a command counts as written are on the
\* disk, and no clock it has read is ahead of the wall clock.
ScaffoldTypeOK ==
    /\ \A f \in DOMAIN disk : disk[f] \in STRING
    /\ dirs \subseteq {"domain", "model"}
    /\ now \in 0..MaxTime /\ commands \in 0..MaxCommands
    /\ cmd # Idle => /\ cmd.kind \in {"new", "add"} /\ cmd.dot \in BOOLEAN
                     /\ cmd.written \subseteq DOMAIN disk
                     /\ cmd.base \in 0..now /\ cmd.n \in 0..Len(TeamMigrations) + 1
    /\ cmd = Idle => old = Nothing
    /\ hurried \in BOOLEAN

\* "add module" never changes or removes a file that was in the project when it
\* started, whatever name it is given, whichever file fails and however it is
\* rolled back: all files of the plan are looked for before the first is written.
AddLosesNothing ==
    [][cmd # Idle /\ cmd.kind = "add" =>
          \A f \in DOMAIN old : f \in DOMAIN disk' /\ disk'[f] = old[f]]_scaffoldVars

\* Two migrations of a project share a version only if a command read the clock
\* before the last second an earlier one had stamped: migrationClock counts on
\* from one reading, into the seconds after it, and renderMigration looks for
\* the whole file name and not for the version.
SharedVersionOnlyIfHurried ==
    \/ hurried
    \/ LET migrations == {f \in DOMAIN disk : f[1] = "migration"}
       IN \A f, g \in migrations : f # g => f[2] # g[2]
=============================================================================
