------------------------------ MODULE Accounts ------------------------------
(***************************************************************************)
(* The tables behind logins, as one record, and the statements on them.    *)
(*                                                                         *)
(*   users       id    -> [user, hash, enabled]                            *)
(*   sessions    id    -> [user, expires, seen, remember, stamp]           *)
(*   mfa         user  -> [user, secret, enabled, step, stamp]             *)
(*   codes       id    -> [user, used, stamp]            recovery codes    *)
(*   challenges  token -> [user, kind, state, expires, remember, stamp]    *)
(*   creds       id    -> [user, count, stamp]           passkeys          *)
(*   tokens      id    -> [name, hash, used]             API tokens        *)
(*                                                                         *)
(* A row that belongs to a user names it; there are no foreign keys.  An   *)
(* optional row is a set of at most one.  A hash is the text it was made   *)
(* of, and an id, a token or a secret is the next number of `seq`.         *)
(* `stamp` is history: which user of that name the row is of, and the      *)
(* password that user had when the row was written.                        *)
(***************************************************************************)
EXTENDS Integers, FiniteSets, Functions

Over(f, g) == [x \in DOMAIN f \cup DOMAIN g |-> IF x \in DOMAIN f THEN f[x] ELSE g[x]]
Put(f, k, v) == [x \in DOMAIN f \cup {k} |-> IF x = k THEN v ELSE f[x]]
Without(f, ks) == Restrict(f, DOMAIN f \ ks)
RowsOf(f, u) == {k \in DOMAIN f : f[k].user = u}
Find(f, k) == IF k \in DOMAIN f THEN {f[k]} ELSE {}
Outcome(good, tables) == [ok |-> good, db |-> tables]

Stamps == [life : Nat, ver : Nat]
IsTable(f, keys, rows) == DOMAIN f \subseteq keys /\ f \in [DOMAIN f -> rows]

(***************************************************************************)
(* users                                                                   *)
(***************************************************************************)
find_user(db, u) == {i \in DOMAIN db.users : db.users[i].user = u}

create_user_row(db, u, hash) ==
    IF find_user(db, u) # {} THEN Outcome(FALSE, db)
    ELSE Outcome(TRUE, [db EXCEPT !.users = Put(@, db.seq, [user |-> u, hash |-> hash, enabled |-> TRUE]),
                                  !.seq = @ + 1])

update_user_password(db, id, hash) ==
    IF id \notin DOMAIN db.users THEN Outcome(FALSE, db)
    ELSE Outcome(TRUE, [db EXCEPT !.users[id].hash = hash])

\* MfaRepository::delete_all: one transaction.
delete_all(db, u) ==
    [db EXCEPT !.mfa = Without(@, {u}), !.codes = Without(@, RowsOf(@, u)),
               !.creds = Without(@, RowsOf(@, u)), !.challenges = Without(@, RowsOf(@, u))]

DeleteUserKeepsChallenges(db, id) ==
    IF id \notin DOMAIN db.users THEN Outcome(FALSE, db)
    ELSE LET u == db.users[id].user
         IN  Outcome(TRUE, [delete_all(db, u) EXCEPT !.users = Without(@, {id}), !.challenges = db.challenges,
                                                     !.sessions = Without(@, RowsOf(@, u))])
\* The row and everything that names its user, in one transaction.
delete_user_row(db, id) ==
    IF id \notin DOMAIN db.users THEN Outcome(FALSE, db)
    ELSE LET u == db.users[id].user
         IN  Outcome(TRUE, [delete_all(db, u) EXCEPT !.users = Without(@, {id}),
                                                     !.sessions = Without(@, RowsOf(@, u))])

(***************************************************************************)
(* auth_sessions                                                           *)
(***************************************************************************)
create_session(db, row) == [db EXCEPT !.sessions = Put(@, db.seq, row), !.seq = @ + 1]
delete_session_row(db, sid) == [db EXCEPT !.sessions = Without(@, {sid})]
update_last_seen(db, sid, now) ==
    IF sid \in DOMAIN db.sessions THEN [db EXCEPT !.sessions[sid].seen = now] ELSE db
delete_expired(db, now) ==
    [db EXCEPT !.sessions = Without(@, {s \in DOMAIN @ : @[s].expires < now})]
DeleteOthersKeepsRemembered(db, u, keep) ==
    [db EXCEPT !.sessions = Without(@, {s \in RowsOf(@, u) \ {keep} : ~@[s].remember})]
delete_other_sessions(db, u, keep) ==
    [db EXCEPT !.sessions = Without(@, RowsOf(@, u) \ {keep})]
get_all_active(db, now) == {s \in DOMAIN db.sessions : db.sessions[s].expires >= now}

(***************************************************************************)
(* user_mfa and mfa_recovery_codes; a step of 0 is NULL                    *)
(***************************************************************************)
upsert_secret(db, u, stamp) ==
    [db EXCEPT !.mfa = Put(@, u, [user |-> u, secret |-> db.seq, enabled |-> FALSE, step |-> 0,
                                  stamp |-> stamp]),
               !.seq = @ + 1]
enable(db, u) == IF u \in DOMAIN db.mfa THEN [db EXCEPT !.mfa[u].enabled = TRUE] ELSE db
advance_totp_step(db, u, step) ==
    IF u \in DOMAIN db.mfa /\ db.mfa[u].step < step
    THEN Outcome(TRUE, [db EXCEPT !.mfa[u].step = step])
    ELSE Outcome(FALSE, db)
\* One transaction; one code stands for the ten.
replace_recovery_codes(db, u, stamp) ==
    [db EXCEPT !.codes = Put(Without(@, RowsOf(@, u)), db.seq, [user |-> u, used |-> FALSE, stamp |-> stamp]),
               !.seq = @ + 1]
list_unused_recovery_codes(db, u) == {i \in RowsOf(db.codes, u) : ~db.codes[i].used}
mark_recovery_code_used(db, id) ==
    IF id \in DOMAIN db.codes /\ ~db.codes[id].used
    THEN Outcome(TRUE, [db EXCEPT !.codes[id].used = TRUE])
    ELSE Outcome(FALSE, db)

(***************************************************************************)
(* mfa_challenges and webauthn_credentials                                 *)
(***************************************************************************)
create_challenge(db, token, row) == [db EXCEPT !.challenges = Put(@, token, row)]
get_challenge(db, token) == Find(db.challenges, token)
DeleteChallengeQuietly(db, token) == Outcome(TRUE, [db EXCEPT !.challenges = Without(@, {token})])
delete_challenge(db, token) ==
    Outcome(token \in DOMAIN db.challenges, [db EXCEPT !.challenges = Without(@, {token})])

add_credential(db, u, stamp) ==
    [db EXCEPT !.creds = Put(@, db.seq, [user |-> u, count |-> 0, stamp |-> stamp]), !.seq = @ + 1]
list_credentials(db, u) == RowsOf(db.creds, u)
has_credentials(db, u) == RowsOf(db.creds, u) # {}
\* The counter must go up, unless the authenticator keeps none.
update_credential(db, id, count) ==
    IF id \in DOMAIN db.creds /\ (count > db.creds[id].count \/ (count = 0 /\ db.creds[id].count = 0))
    THEN Outcome(TRUE, [db EXCEPT !.creds[id].count = count])
    ELSE Outcome(FALSE, db)
delete_credential(db, id, u) ==
    Outcome(id \in RowsOf(db.creds, u), [db EXCEPT !.creds = Without(@, {id} \cap RowsOf(@, u))])

(***************************************************************************)
(* api_tokens: the name is unique, the hash need not be                    *)
(***************************************************************************)
get_by_name(db, name) == {i \in DOMAIN db.tokens : db.tokens[i].name = name}
create_token_row(db, name, hash) ==
    IF get_by_name(db, name) # {} THEN Outcome(FALSE, db)
    ELSE Outcome(TRUE, [db EXCEPT !.tokens = Put(@, db.seq, [name |-> name, hash |-> hash, used |-> FALSE]),
                                  !.seq = @ + 1])
\* An empty hash leaves the key as it is.
update_token_row(db, id, name, hash) ==
    IF id \notin DOMAIN db.tokens \/ get_by_name(db, name) \ {id} # {} THEN Outcome(FALSE, db)
    ELSE Outcome(TRUE, [db EXCEPT !.tokens[id].name = name,
                                  !.tokens[id].hash = IF hash = "" THEN @ ELSE hash])
delete_token_row(db, id) ==
    Outcome(id \in DOMAIN db.tokens, [db EXCEPT !.tokens = Without(@, {id})])
get_id_by_hash(db, hash) == {i \in DOMAIN db.tokens : db.tokens[i].hash = hash}
update_last_used(db, id) ==
    IF id \in DOMAIN db.tokens THEN [db EXCEPT !.tokens[id].used = TRUE] ELSE db

=============================================================================
