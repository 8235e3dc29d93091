---------------------------- MODULE ConfigStore ----------------------------
(***************************************************************************)
(* Who changes the configuration, and where a change has to arrive: the    *)
(* running Config behind its RwLock, the TOML file, and what is live       *)
(* without a restart (the upstream pools, the local records, the admin     *)
(* password).  The writers are update_config, update_settings and          *)
(* reload_config (crates/api/src/handlers/config/update.rs,                *)
(* crates/application/src/use_cases/config/reload.rs), the backup import,  *)
(* the local-record use cases and the admin's password change.             *)
(*                                                                         *)
(* Nothing awaits while it holds the config lock for writing (saving the   *)
(* file is synchronous), so a section under that lock is one step; the     *)
(* lock config_writer is held across awaits and is a variable.  A          *)
(* configuration has four sections that differ in how they are saved and   *)
(* when they take effect.                                                  *)
(***************************************************************************)

CONSTANTS
    Requests,     \* API requests that may be under way at once
    Values,       \* what a section may say
    SaveMayFail,  \* whether writing the file may fail
    HandEdits,    \* the sets of sections an edit of the file by hand changes
    Ops           \* writers that run, a subset of AllOps

Sections == {"records", "password", "pools", "settings"}
AllOps   == {"update", "settings", "import", "drop", "reload", "local", "password"}

NoRequest == "no_request"

ASSUME ConfigStoreAssumption ==
    /\ NoRequest \notin Requests
    /\ SaveMayFail \in BOOLEAN
    /\ HandEdits \subseteq SUBSET Sections
    /\ Ops \subseteq AllOps

VARIABLES
    running,   \* the Config behind the RwLock
    file,      \* the config file
    live,      \* what answers queries and logins now
    booted,    \* the settings the process started with
    flagged,   \* AppState.restart_pending
    writer,    \* the request that holds config_writer, or NoRequest
    op,        \* the step each request is at
    acked,     \* history: what the last write of each section said
    edited,    \* history: sections edited by hand that no load or save has met
    split,     \* history: pools went live that were not saved, or were saved and not applied
    unflagged, \* history: settings came in by a reload or a dropped import, which flag nothing
    crossed    \* history: sections saved while a reload had read the file

vars == <<running, file, live, booted, flagged, writer, op, acked, edited, split, unflagged,
          crossed>>
history == <<acked, edited, split, unflagged, crossed>>

Idle == [at |-> "idle"]

\* What takes effect without a restart.
LiveSections == {"records", "password", "pools"}
Applied(config) == [s \in LiveSections |-> config[s]]

Init ==
    /\ file \in {[s \in Sections |-> v] : v \in Values}
    /\ running = file /\ live = Applied(file) /\ booted = file.settings
    /\ flagged = FALSE
    /\ writer = NoRequest
    /\ op = [r \in Requests |-> Idle]
    /\ acked = file /\ edited = {} /\ split = FALSE /\ unflagged = FALSE /\ crossed = {}

At(r, label)    == op[r].at = label
Goto(r, o)      == op' = [op EXCEPT ![r] = o]
Starts(r, name) == name \in Ops /\ op[r] = Idle

(***************************************************************************)
(* The file                                                                *)
(***************************************************************************)

\* save_config_to_file writes every section but the local records, which only
\* save_local_records_to_file writes; what a save does not write stays.
SavedByConfig  == Sections \ {"records"}
SavedByRecords == {"records"}

Save(config, sections) ==
    /\ file' = [s \in Sections |-> IF s \in sections THEN config[s] ELSE file[s]]
    /\ edited' = edited \ sections

\* A reload has read the file and not yet swapped it in.
Reloading == \E r \in Requests : op[r].at \in {"reload", "swap"}

\* `config` is saved and becomes the running one; its sections `named` are what
\* the request asked for.
Commit(config, sections, named) ==
    /\ Save(config, sections)
    /\ running' = config
    /\ acked' = [s \in Sections |-> IF s \in named THEN config[s] ELSE acked[s]]
    /\ crossed' = IF Reloading THEN crossed \cup sections ELSE crossed \ named

(***************************************************************************)
(* update_config: a request names the pools, other settings, or both       *)
(***************************************************************************)

UpdateRequests == {[named |-> n, val |-> v] :
                       n \in {{"pools"}, {"settings"}, {"pools", "settings"}}, v \in Values}

\* merge_config_update
Merge(config, q) == [s \in Sections |-> IF s \in q.named THEN q.val ELSE config[s]]

\* The lock is taken and the request is tried on the running config.
UpdateStart(r, q) ==
    /\ Starts(r, "update") /\ writer = NoRequest
    /\ writer' = r
    /\ Goto(r, [at |-> IF "pools" \in q.named THEN "apply" ELSE "commit",
                req |-> q, candidate |-> Merge(running, q)])
    /\ UNCHANGED <<running, file, live, booted, flagged, history>>

Finish(r) == Goto(r, Idle) /\ writer' = NoRequest

\* reload_pools, with no config lock held, ...
UpdateApply(r) ==
    /\ At(r, "apply")
    /\ live' = [live EXCEPT !.pools = op[r].candidate.pools]
    /\ op' = [op EXCEPT ![r].at = "commit"]
    /\ UNCHANGED <<running, file, booted, flagged, writer, history>>

\* Mutant: pools are swapped before it is known that all can be.
UpdateApplyFailsHalf(r) ==
    /\ At(r, "apply")
    /\ live' = [live EXCEPT !.pools = op[r].candidate.pools]
    /\ Finish(r)
    /\ UNCHANGED <<running, file, booted, flagged, history>>

\* ... which leaves everything as it was when it fails.
UpdateApplyFails(r) ==
    /\ At(r, "apply")
    /\ Finish(r)
    /\ UNCHANGED <<running, file, live, booted, flagged, history>>

\* Mutant: what was tried is saved, as if nobody had written meanwhile.
UpdateCommitCandidate(r) ==
    LET q == op[r].req  new == op[r].candidate IN
    /\ At(r, "commit")
    /\ Commit(new, SavedByConfig, q.named)
    /\ flagged' = (flagged \/ new.settings # running.settings)
    /\ split' = (split /\ "pools" \notin q.named)
    /\ Finish(r)
    /\ UNCHANGED <<live, booted, unflagged>>

\* The request is merged again into whatever the others stored meanwhile, saved
\* and swapped in under the config lock.
UpdateCommit(r) ==
    LET q == op[r].req  new == Merge(running, q) IN
    /\ At(r, "commit")
    /\ Commit(new, SavedByConfig, q.named)
    /\ flagged' = (flagged \/ new.settings # running.settings)
    /\ split' = (split /\ "pools" \notin q.named)
    /\ Finish(r)
    /\ UNCHANGED <<live, booted, unflagged>>

\* pools_applied_but_not_saved
UpdateCommitFails(r) ==
    /\ At(r, "commit") /\ SaveMayFail
    /\ split' = (split \/ live.pools # running.pools)
    /\ Finish(r)
    /\ UNCHANGED <<running, file, live, booted, flagged, acked, edited, unflagged, crossed>>

(***************************************************************************)
(* update_settings, the import and reload_config                           *)
(***************************************************************************)

\* Both locks are held throughout: one step.  A save that fails changes nothing.
UpdateSettings(r, v) ==
    LET new == [running EXCEPT !.settings = v] IN
    /\ Starts(r, "settings") /\ writer = NoRequest
    /\ Commit(new, SavedByConfig, {"settings"})
    /\ flagged' = (flagged \/ new.settings # running.settings)
    /\ UNCHANGED <<live, booted, writer, op, split, unflagged>>

\* apply_config restores the settings, and the pools if the backup has any, and
\* applies nothing live ...
Import(r, q) ==
    LET new == Merge(running, q) IN
    /\ Starts(r, "import") /\ writer = NoRequest /\ "settings" \in q.named
    /\ Commit(new, SavedByConfig, q.named)
    /\ split' = (split \/ live.pools # new.pools)
    /\ Goto(r, [at |-> "import", changed |-> new # running])
    /\ UNCHANGED <<live, booted, flagged, writer, unflagged>>

\* ... and the handler sets the flag once the rest of the backup is in ...
ImportDone(r) ==
    /\ At(r, "import")
    /\ flagged' = (flagged \/ op[r].changed)
    /\ Goto(r, Idle)
    /\ UNCHANGED <<running, file, live, booted, writer, history>>

\* ... unless its client went away and the request with it.
ImportDropped(r) ==
    /\ At(r, "import") /\ "drop" \in Ops
    /\ unflagged' = (unflagged \/ op[r].changed)
    /\ Goto(r, Idle)
    /\ UNCHANGED <<running, file, live, booted, flagged, writer, acked, edited, split, crossed>>

\* reload: the file is read under config_writer ...
ReloadLoad(r) ==
    /\ Starts(r, "reload") /\ writer = NoRequest
    /\ writer' = r
    /\ Goto(r, [at |-> "reload", config |-> file])
    /\ UNCHANGED <<running, file, live, booted, flagged, history>>

\* ... its pools go live if the running config's are others ...
ReloadPools(r) ==
    LET new == op[r].config IN
    /\ At(r, "reload")
    /\ live' = IF running.pools # new.pools THEN [live EXCEPT !.pools = new.pools] ELSE live
    /\ op' = [op EXCEPT ![r].at = "swap"]
    /\ UNCHANGED <<running, file, booted, flagged, writer, history>>

ReloadFails(r) ==
    /\ At(r, "reload") /\ running.pools # op[r].config.pools
    /\ Finish(r)
    /\ UNCHANGED <<running, file, live, booted, flagged, history>>

\* ... and it takes the running config's place.
ReloadSwap(r) ==
    LET new == op[r].config IN
    /\ At(r, "swap")
    /\ running' = new
    /\ acked' = [s \in Sections |-> IF s \in edited THEN new[s] ELSE acked[s]]
    /\ edited' = {s \in edited : file[s] # new[s]}
    /\ unflagged' = (unflagged \/ new.settings # running.settings)
    /\ split' = (split /\ live.pools # new.pools)
    /\ Finish(r)
    /\ UNCHANGED <<file, live, booted, flagged, crossed>>

(***************************************************************************)
(* The writers that do not take config_writer                              *)
(***************************************************************************)

\* Create, update or delete a local record: running, file and live at once.
LocalEdit(r, v) ==
    LET new == [running EXCEPT !.records = v] IN
    /\ Starts(r, "local")
    /\ Commit(new, SavedByRecords, {"records"})
    /\ live' = [live EXCEPT !.records = v]
    /\ UNCHANGED <<booted, flagged, writer, op, split, unflagged>>

\* update_toml_admin_password: config and file, ...
PasswordSave(r, v) ==
    LET new == [running EXCEPT !.password = v] IN
    /\ Starts(r, "password")
    /\ Commit(new, SavedByConfig, {"password"})
    /\ Goto(r, [at |-> "admin", val |-> v])
    /\ UNCHANGED <<live, booted, flagged, writer, split, unflagged>>

\* ... then, with the config lock given back, the provider logins ask.
PasswordLive(r) ==
    /\ At(r, "admin")
    /\ live' = [live EXCEPT !.password = op[r].val]
    /\ Goto(r, Idle)
    /\ UNCHANGED <<running, file, booted, flagged, writer, history>>

(***************************************************************************)
(* The operator                                                            *)
(***************************************************************************)

HandEdit(ss, v) ==
    /\ \A s \in ss : file[s] # v
    /\ file' = [s \in Sections |-> IF s \in ss THEN v ELSE file[s]]
    /\ edited' = edited \cup ss
    /\ UNCHANGED <<running, live, booted, flagged, writer, op, acked, split, unflagged, crossed>>

\* The process stops anywhere and starts again from the file.
Restart ==
    /\ running' = file /\ live' = Applied(file) /\ booted' = file.settings
    /\ flagged' = FALSE
    /\ writer' = NoRequest /\ op' = [r \in Requests |-> Idle]
    /\ acked' = [s \in Sections |-> IF s \in edited THEN file[s] ELSE acked[s]]
    /\ edited' = {} /\ split' = FALSE /\ unflagged' = FALSE
    /\ UNCHANGED <<file, crossed>>

(***************************************************************************)
(* Specification                                                           *)
(***************************************************************************)

Update(r) ==
    \/ \E q \in UpdateRequests : UpdateStart(r, q)
    \/ UpdateApply(r) \/ UpdateApplyFails(r) \/ UpdateCommit(r) \/ UpdateCommitFails(r)

Whole(r) ==
    \/ \E v \in Values : UpdateSettings(r, v)
    \/ \E q \in UpdateRequests : Import(r, q)
    \/ ImportDone(r) \/ ImportDropped(r)
    \/ ReloadLoad(r) \/ ReloadPools(r) \/ ReloadFails(r) \/ ReloadSwap(r)

Unserialised(r) ==
    \/ \E v \in Values : LocalEdit(r, v) \/ PasswordSave(r, v)
    \/ PasswordLive(r)

Next ==
    \/ \E r \in Requests : Update(r) \/ Whole(r) \/ Unserialised(r)
    \/ \E ss \in HandEdits, v \in Values : HandEdit(ss, v)
    \/ Restart

Spec == Init /\ [][Next]_vars

(***************************************************************************)
(* Properties                                                              *)
(***************************************************************************)

Config == [Sections -> Values]

TypeOK ==
    /\ running \in Config /\ file \in Config /\ acked \in Config
    /\ live \in [LiveSections -> Values]
    /\ booted \in Values /\ flagged \in BOOLEAN
    /\ writer \in Requests \cup {NoRequest}
    /\ \A r \in Requests : op[r].at \in {"apply", "commit", "reload", "swap"} => writer = r
    /\ edited \subseteq Sections /\ split \in BOOLEAN /\ unflagged \in BOOLEAN
    /\ crossed \subseteq Sections

\* Whatever a writer stored stays in the running config and in the file until
\* another writes the section: "The request is merged again into whatever they
\* stored meanwhile" (save_config_update), "a writer that slipped in between
\* reading and storing would be overwritten" (import).  The exception is a record or
\* password change saved while a reload had read the file and not swapped it in: no
\* other pair of writers, save that fails, crash or restart loses what was stored.
StoredStays ==
    \A s \in Sections \ (edited \cup crossed) : running[s] = acked[s] /\ file[s] = acked[s]

Quiet == \A r \in Requests : op[r] = Idle

\* Once no writer is at work the live pools are the saved and the running ones,
\* unless a save was reported as not saved or an import not applied.
PoolsInStep ==
    Quiet /\ ~split /\ "pools" \notin edited \cup crossed =>
        live.pools = running.pools /\ live.pools = file.pools

\* Settings other than the running process's are flagged, "Set by a successful
\* save that only takes effect after a restart" (AppState::restart_pending),
\* but for what a reload brought in or an import whose client went away.
RestartFlagged ==
    Quiet /\ ~unflagged /\ running.settings # booted => flagged

\* What runs is what was saved, or is flagged as waiting for a restart.
LiveInStep == TypeOK /\ PoolsInStep /\ RestartFlagged

=============================================================================
