-------------------------------- MODULE Auth --------------------------------
(***************************************************************************)
(* Logins, second factors, sessions, users and API tokens.                 *)
(*                                                                         *)
(* Every request is a task that takes one step per await: it reads, the    *)
(* other tasks run, it writes what it decided from what it had read.  A    *)
(* task may end at any await (a failed statement, a client that leaves).   *)
(* A handler is the first step of its request; the use case it calls takes *)
(* the others.  A tick of the clock is one TOTP step.                      *)
(***************************************************************************)
EXTENDS Accounts

CONSTANTS
    Mixes,        \* sequence of [db, password, ops, each, faults, until]: where a run starts, the
                  \* requests made of it and how many, the faults, the last tick
    Clients,      \* one task each
    Peer,         \* client -> the address its failures are counted under
    Admin,        \* auth.admin.username, a user of the file and not of the database
    Others,       \* the users a request may create or log in as
    Passwords,    \* what a request presents or sets; one of them is not valid
    TooShort,     \* the one validate_password refuses
    Tokens,       \* keys of API tokens
    MaxFailures, WindowTicks,             \* login_rate_limit_attempts, .._window_secs
    ChallengeTtl, SessionTtl

VARIABLES
    mix, db, now,
    config, provider,  \* the admin's hash in Config and in CompositeUserProvider.toml_admin
    windows,           \* LoginRateLimiter: peer -> [opened, failures]
    task, asked,       \* client -> its request; how many there were
    life, ver, kept,   \* history, per user: deletions; changes of password, and who kept its session
    spent,             \* history: [session, proof], what each session was opened with
    muddled,           \* history: users whose secret an enrolment replaced while it was in use
    crossed,           \* history: two changes of the admin's password overlapped, or one was cut short
    lost,              \* history: users whose change of password was cut short before it revoked
    bearer,            \* history: client -> the life of the user that its request speaks for
    leaked,            \* history: users for whom a request wrote once the user was deleted
    faults

Users == {Admin} \cup Others
Given(tables) == 0..(tables.seq - 1)
Ceremonies == {"authenticate", "discover", "register"}

\* Tables whose ids, tokens and secrets have all been given out.
IsDatabase(t) ==
    /\ t = [users |-> t.users, sessions |-> t.sessions, mfa |-> t.mfa, codes |-> t.codes,
            challenges |-> t.challenges, creds |-> t.creds, tokens |-> t.tokens, seq |-> t.seq]
    /\ t.seq \in Nat
    /\ IsTable(t.users, Given(t), [user : Users, hash : Passwords, enabled : BOOLEAN])
    /\ IsTable(t.sessions, Given(t), [user : Users, expires : Nat, seen : Nat, remember : BOOLEAN,
                                      stamp : Stamps])
    /\ IsTable(t.mfa, Users, [user : Users, secret : Nat, enabled : BOOLEAN, step : Nat, stamp : Stamps])
    /\ \A u \in DOMAIN t.mfa : t.mfa[u].user = u /\ t.mfa[u].secret \in Given(t)
    /\ IsTable(t.codes, Given(t), [user : Users, used : BOOLEAN, stamp : Stamps])
    /\ IsTable(t.challenges, Given(t), [user : Users \cup {""}, kind : {"Totp", "Webauthn"},
                                        state : {<<>>} \cup (Ceremonies \X Nat), expires : Nat,
                                        remember : BOOLEAN, stamp : Stamps])
    /\ IsTable(t.creds, Given(t), [user : Users, count : Nat, stamp : Stamps])

Owned(t) == Range(t.sessions) \cup Range(t.mfa) \cup Range(t.codes) \cup Range(t.creds) \cup Range(t.challenges)

ASSUME AuthAssumption ==
    /\ IsFiniteSet(Clients) /\ DOMAIN Peer = Clients /\ "" \notin Users
    /\ {MaxFailures, WindowTicks, ChallengeTtl, SessionTtl} \subseteq Nat
    /\ \A i \in DOMAIN Mixes : /\ IsDatabase(Mixes[i].db)
                              /\ \A row \in Owned(Mixes[i].db) : row.stamp = [life |-> 0, ver |-> 0]

memory == <<config, provider>>
history == <<life, ver, kept, muddled, crossed, lost>>
lineage == <<bearer, leaked>>
vars == <<mix, db, now, memory, windows, task, asked, history, lineage, spent, faults>>

NoHash == ""
Idle == [op |-> "none"]
Ever == 1000  \* the step of a code that is never right

\* CompositeUserProvider::get_by_username
get_by_username(u) ==
    IF u # Admin THEN {db.users[i] : i \in find_user(db, u)}
    ELSE IF provider = NoHash THEN {}
    ELSE {[user |-> u, hash |-> provider, enabled |-> TRUE]}

Init ==
    /\ mix \in DOMAIN Mixes
    /\ db = Mixes[mix].db /\ config = Mixes[mix].password /\ provider = config
    /\ now = 2 /\ windows = <<>>
    /\ task = [c \in Clients |-> Idle] /\ asked = 0
    /\ life = [u \in Users |-> 0] /\ ver = [u \in Users |-> 0] /\ kept = [u \in Users |-> 0]
    /\ spent = {} /\ muddled = {} /\ crossed = FALSE /\ lost = {} /\ faults = 0
    /\ bearer = [c \in Clients |-> 0] /\ leaked = {}

(***************************************************************************)
(* Steps of a task                                                         *)
(***************************************************************************)
At(c, op, at) == task[c].op = op /\ task[c].at = at

\* A row is of the user that its request speaks for, and that may be a user the name had before.
Stamp(c, u) == IF u \in Users THEN [life |-> bearer[c], ver |-> ver[u]] ELSE [life |-> 0, ver |-> 0]

MayAsk(c, name) == task[c] = Idle /\ asked < Mixes[mix].each /\ name \in Mixes[mix].ops
Goes(c, t, tables) ==
    task' = [task EXCEPT ![c] = Over(t, @)] /\ db' = tables /\ UNCHANGED <<windows, spent>>
Replies(c, tables) ==
    task' = [task EXCEPT ![c] = Idle] /\ db' = tables /\ UNCHANGED <<windows, spent>>
Tries(c, outcome, t) ==
    IF outcome.ok THEN Goes(c, t, outcome.db) ELSE Replies(c, outcome.db)

(***************************************************************************)
(* LoginRateLimiter                                                        *)
(***************************************************************************)
Open(p) == p \in DOMAIN windows /\ now - windows[p].opened < WindowTicks

CheckAtLate(p) == MaxFailures = 0 \/ ~Open(p) \/ windows[p].failures <= MaxFailures
check_at(p) == MaxFailures = 0 \/ ~Open(p) \/ windows[p].failures < MaxFailures

\* Pruning drops what has lapsed, and a lapsed window counts for nothing.
record_failure_at(p) ==
    IF MaxFailures = 0 THEN windows
    ELSE Put(windows, p, IF Open(p) THEN [windows[p] EXCEPT !.failures = @ + 1]
                         ELSE [opened |-> now, failures |-> 1])

Fails(c) ==
    /\ windows' = record_failure_at(Peer[c])
    /\ task' = [task EXCEPT ![c] = Idle] /\ UNCHANGED <<db, spent>>

\* build_session and SessionRepository::create; only some logins reset the limiter.
build_session(c, u, proofs, resets) ==
    /\ db' = create_session(db, [user |-> u, expires |-> now + SessionTtl, seen |-> now,
                                 remember |-> task[c].remember, stamp |-> Stamp(c, u)])
    /\ spent' = spent \cup {[session |-> db.seq, proof |-> p] : p \in proofs}
    /\ windows' = IF resets THEN Without(windows, {Peer[c]}) ELSE windows
    /\ task' = [task EXCEPT ![c] = Idle]

is_expired(row) == now > row.expires

(***************************************************************************)
(* Password, then second factor                                            *)
(***************************************************************************)
\* What a login presents as a code: a step of the secret it has enrolled, a recovery code.
Codes ==
    {[secret |-> db.mfa[u].secret, step |-> s, id |-> 0] : u \in DOMAIN db.mfa, s \in {now - 1, now}}
      \cup {[secret |-> 0, step |-> Ever, id |-> i] : i \in DOMAIN db.codes \cup {0}}
NoCode == [secret |-> 0, step |-> Ever, id |-> 0]

\* matching_step: the step of the code, within one of now.
totp_verify(secret, code) == code.secret = secret /\ code.step \in (now - 1)..(now + 1)

AskLogin(c, u, pw, code, remember) ==
    LET found == get_by_username(u)
        rest == [op |-> "Login", at |-> "verify", user |-> u, pw |-> pw, code |-> code,
                 remember |-> remember, hash |-> NoHash]
    IN  IF ~check_at(Peer[c]) THEN Replies(c, db)
        ELSE IF \E row \in found : row.enabled
        THEN Goes(c, [rest EXCEPT !.hash = (CHOOSE row \in found : TRUE).hash], db)
        ELSE Fails(c)

login_public(c) ==
    /\ MayAsk(c, "login")
    /\ \E u \in Users, pw \in Passwords, r \in BOOLEAN : AskLogin(c, u, pw, NoCode, r)

Login(c) ==
    LET t == task[c] IN
    \/ /\ At(c, "Login", "verify")
       /\ IF t.pw # t.hash THEN Fails(c)
          ELSE Goes(c, [at |-> "passkeys", totp |-> \E m \in Find(db.mfa, t.user) : m.enabled], db)
    \/ /\ At(c, "Login", "passkeys")
       /\ Goes(c, [at |-> IF t.totp \/ has_credentials(db, t.user) THEN "challenge" ELSE "session"], db)
    \/ /\ At(c, "Login", "challenge")
       /\ LET made == create_challenge([db EXCEPT !.seq = @ + 1], db.seq,
                            [user |-> t.user, kind |-> "Totp", state |-> <<>>,
                             expires |-> now + ChallengeTtl, remember |-> t.remember,
                             stamp |-> Stamp(c, t.user)])
          IN  IF t.code = NoCode THEN Replies(c, made)
              ELSE Goes(c, [op |-> "VerifyMfa", at |-> "challenge", token |-> db.seq], made)
    \/ /\ At(c, "Login", "session")
       /\ build_session(c, t.user, {}, TRUE)

verify_mfa_public(c) ==
    /\ MayAsk(c, "verify")
    /\ \E token \in DOMAIN db.challenges, code \in Codes :
          Goes(c, [op |-> "VerifyMfa", at |-> "challenge", token |-> token, code |-> code], db)

VerifyMfa(c) ==
    LET t == task[c] IN
    \/ /\ At(c, "VerifyMfa", "challenge")
       /\ LET row == get_challenge(db, t.token)
          IN  IF ~check_at(Peer[c]) \/ row = {} THEN Replies(c, db)
              ELSE IF \E r \in row : is_expired(r) THEN Replies(c, delete_challenge(db, t.token).db)
              ELSE \E r \in row : Goes(c, [at |-> "user", user |-> r.user, remember |-> r.remember], db)
    \/ /\ At(c, "VerifyMfa", "user")
       /\ IF get_by_username(t.user) = {} THEN Replies(c, db) ELSE Goes(c, [at |-> "mfa"], db)
    \/ /\ At(c, "VerifyMfa", "mfa")
       /\ IF t.user \notin DOMAIN db.mfa THEN Replies(c, db)
          ELSE Goes(c, [at |-> "totp", row |-> db.mfa[t.user]], db)
    \/ /\ At(c, "VerifyMfa", "totp")
       /\ LET step == advance_totp_step(db, t.user, t.code.step)
          IN  IF t.row.enabled /\ totp_verify(t.row.secret, t.code) /\ step.ok
              THEN Goes(c, [at |-> "spend", proof |-> <<"totp", t.user, t.row.secret, t.code.step>>], step.db)
              ELSE Goes(c, [at |-> "codes"], db)
    \/ /\ At(c, "VerifyMfa", "codes")
       /\ IF t.code.id \in list_unused_recovery_codes(db, t.user)
          THEN Goes(c, [at |-> "mark", proof |-> <<"code", t.user, t.code.id>>], db)
          ELSE Fails(c)
    \/ /\ At(c, "VerifyMfa", "mark")
       /\ Tries(c, mark_recovery_code_used(db, t.code.id), [at |-> "spend"])
    \/ /\ At(c, "VerifyMfa", "spend")
       /\ Tries(c, delete_challenge(db, t.token), [at |-> "session"])
    \/ /\ At(c, "VerifyMfa", "session")
       /\ build_session(c, t.user, {t.proof, <<"challenge", t.user, t.token>>}, TRUE)

(***************************************************************************)
(* The Pi-hole API: an API token in place of the password, then the        *)
(* password, with the code in the same request.                            *)
(***************************************************************************)
pihole_login(c) ==
    /\ MayAsk(c, "pihole")
    /\ \E pw \in Passwords \cup Tokens, code \in Codes :
          Goes(c, [op |-> "AppPassword", at |-> "token", user |-> Admin, pw |-> pw, code |-> code,
                   remember |-> FALSE], db)

AppPasswordLogin(c) ==
    LET t == task[c] IN
    \/ /\ At(c, "AppPassword", "token")
       /\ IF ~check_at(Peer[c]) THEN Replies(c, db)
          ELSE IF get_id_by_hash(db, t.pw) = {} THEN Goes(c, [at |-> "password"], db)
          ELSE Goes(c, [at |-> "used", id |-> CHOOSE i \in get_id_by_hash(db, t.pw) : TRUE], db)
    \/ /\ At(c, "AppPassword", "used")
       /\ Goes(c, [at |-> "user"], update_last_used(db, t.id))
    \/ /\ At(c, "AppPassword", "user")
       /\ Goes(c, [at |-> IF \E row \in get_by_username(t.user) : row.enabled
                          THEN "session" ELSE "password"], db)
    \/ /\ At(c, "AppPassword", "session")
       /\ build_session(c, t.user, {}, TRUE)
    \/ /\ At(c, "AppPassword", "password")  \* InvalidCredentials: it may be the admin's password
       /\ AskLogin(c, t.user, t.pw, t.code, FALSE)

(***************************************************************************)
(* Passkeys.  A ceremony's state says what it is for, and a response is to *)
(* one state.                                                              *)
(***************************************************************************)
Ceremony(c, u, what, remember) ==
    [user |-> u, kind |-> "Webauthn", state |-> <<what, db.seq>>, expires |-> now + ChallengeTtl,
     remember |-> remember, stamp |-> Stamp(c, u)]
\* Expired or of another kind: the challenge goes.
Unusable(c, token, usable(_)) ==
    LET row == get_challenge(db, token)
    IN  IF row = {} THEN db
        ELSE IF \E r \in row : ~usable(r) \/ is_expired(r) THEN delete_challenge(db, token).db ELSE db
Webauthn(r) == r.kind = "Webauthn"

webauthn_authenticate_start_public(c) ==
    /\ MayAsk(c, "passkey")
    /\ \E token \in DOMAIN db.challenges : \E r \in get_challenge(db, token) :
          IF is_expired(r) THEN Replies(c, delete_challenge(db, token).db)
          ELSE Goes(c, [op |-> "PasskeyStart", at |-> "list", token |-> token, user |-> r.user,
                        remember |-> r.remember, expires |-> r.expires], db)
AuthenticatePasskey_start(c) ==
    LET t == task[c] IN
    \/ webauthn_authenticate_start_public(c)
    \/ /\ At(c, "PasskeyStart", "list")
       /\ IF has_credentials(db, t.user) THEN Goes(c, [at |-> "delete"], db) ELSE Replies(c, db)
    \/ /\ At(c, "PasskeyStart", "delete")
       /\ Tries(c, delete_challenge(db, t.token), [at |-> "create"])
    \/ /\ At(c, "PasskeyStart", "create")
       /\ Replies(c, create_challenge([db EXCEPT !.seq = @ + 1], t.token,
                        [Ceremony(c, t.user, "authenticate", t.remember) EXCEPT !.expires = t.expires]))

\* `by` is the passkey that answers, `count` the counter it reports.
Finish(c, what) ==
    \E token \in DOMAIN db.challenges, by \in DOMAIN db.creds : \E r \in get_challenge(db, token) :
        IF ~Webauthn(r) \/ is_expired(r) THEN Replies(c, Unusable(c, token, Webauthn))
        ELSE /\ r.state[1] = what
             /\ \E bump \in {0, 1} :
                   Goes(c, [op |-> what, at |-> "count", token |-> token, by |-> by,
                            user |-> IF r.user = "" THEN db.creds[by].user ELSE r.user,
                            count |-> db.creds[by].count + bump, remember |-> r.remember], db)

webauthn_authenticate_finish_public(c) ==
    /\ MayAsk(c, "passkey")
    /\ Finish(c, "authenticate")
AuthenticatePasskey_finish(c) ==
    LET t == task[c] IN
    \/ webauthn_authenticate_finish_public(c)
    \/ /\ At(c, "authenticate", "count")
       /\ IF t.by \in list_credentials(db, t.user)
          THEN Tries(c, update_credential(db, t.by, t.count), [at |-> "user"]) ELSE Replies(c, db)
    \/ /\ At(c, "authenticate", "user")
       /\ IF get_by_username(t.user) = {} THEN Replies(c, db) ELSE Goes(c, [at |-> "spend"], db)
    \/ /\ At(c, "authenticate", "spend")
       /\ Tries(c, delete_challenge(db, t.token), [at |-> "session"])
    \/ /\ At(c, "authenticate", "session")
       /\ build_session(c, t.user, {<<"challenge", t.user, t.token>>}, FALSE)

DiscoverablePasskey_start(c) ==
    /\ MayAsk(c, "discover")
    /\ Replies(c, create_challenge([db EXCEPT !.seq = @ + 1], db.seq, Ceremony(c, "", "discover", FALSE)))

webauthn_discoverable_finish_public(c) ==
    /\ MayAsk(c, "discover")
    /\ Finish(c, "discover")
DiscoverablePasskey_finish(c) ==
    LET t == task[c] IN
    \/ webauthn_discoverable_finish_public(c)
    \/ /\ At(c, "discover", "count")
       /\ Tries(c, update_credential(db, t.by, t.count), [at |-> "user"])
    \/ /\ At(c, "discover", "user")
       /\ IF \E row \in get_by_username(t.user) : row.enabled
          THEN Goes(c, [at |-> "spend"], db) ELSE Replies(c, db)
    \/ /\ At(c, "discover", "spend")
       /\ Tries(c, delete_challenge(db, t.token), [at |-> "session"])
    \/ /\ At(c, "discover", "session")
       /\ build_session(c, t.user, {<<"challenge", t.user, t.token>>}, FALSE)

(***************************************************************************)
(* Requests of a session                                                   *)
(***************************************************************************)
\* ValidateSessionUseCase, as a step of task c that goes on to `t`.
ValidateSession(c, sid, t) ==
    IF sid \notin DOMAIN db.sessions THEN Replies(c, db)
    ELSE IF is_expired(db.sessions[sid]) THEN Replies(c, delete_session_row(db, sid))
    ELSE Goes(c, Over([user |-> db.sessions[sid].user, sid |-> sid], t), update_last_seen(db, sid, now))

\* require_auth has let the request through on this session; the handler asks again.
require_auth(c, name, t) ==
    /\ MayAsk(c, name)
    /\ \E sid \in DOMAIN db.sessions :
          ValidateSession(c, sid, [op |-> "session", at |-> "again", name |-> name, then |-> t])
current_session(c) ==
    /\ At(c, "session", "again")
    /\ ValidateSession(c, task[c].sid, task[c].then)

setup_totp(c) ==
    require_auth(c, "setup_totp", [op |-> "SetupTotp", at |-> "read"])
SetupTotp(c) ==
    LET t == task[c] IN
    \/ setup_totp(c)
    \/ /\ At(c, "SetupTotp", "read")
       /\ IF \E m \in Find(db.mfa, t.user) : m.enabled THEN Replies(c, db)
          ELSE Goes(c, [at |-> "write"], db)
    \/ /\ At(c, "SetupTotp", "write")
       /\ Replies(c, upsert_secret(db, t.user, Stamp(c, t.user)))

confirm_totp(c) ==
    \E code \in Codes : require_auth(c, "confirm_totp", [op |-> "ConfirmTotp", at |-> "read", code |-> code])
ConfirmTotp(c) ==
    LET t == task[c] IN
    \/ confirm_totp(c)
    \/ /\ At(c, "ConfirmTotp", "read")
       /\ IF \E m \in Find(db.mfa, t.user) : ~m.enabled /\ totp_verify(m.secret, t.code)
          THEN Goes(c, [at |-> "step"], db) ELSE Replies(c, db)
    \/ /\ At(c, "ConfirmTotp", "step")
       /\ Tries(c, advance_totp_step(db, t.user, t.code.step), [at |-> "enable"])
    \/ /\ At(c, "ConfirmTotp", "enable")
       /\ Goes(c, [at |-> "codes"], enable(db, t.user))
    \/ /\ At(c, "ConfirmTotp", "codes")
       /\ Replies(c, replace_recovery_codes(db, t.user, Stamp(c, t.user)))

disable_mfa(c) ==
    \E pw \in Passwords : require_auth(c, "disable_mfa", [op |-> "DisableMfa", at |-> "read", pw |-> pw])
DisableMfa(c) ==
    LET t == task[c] IN
    \/ disable_mfa(c)
    \/ /\ At(c, "DisableMfa", "read")
       /\ IF \E row \in get_by_username(t.user) : row.hash = t.pw
          THEN Goes(c, [at |-> "delete"], db) ELSE Replies(c, db)
    \/ /\ At(c, "DisableMfa", "delete")
       /\ Replies(c, delete_all(db, t.user))

register_passkey_start(c) ==
    require_auth(c, "register", [op |-> "RegisterStart", at |-> "create"])
RegisterPasskey_start(c) ==
    LET t == task[c] IN
    \/ register_passkey_start(c)
    \/ /\ At(c, "RegisterStart", "create")
       /\ Replies(c, create_challenge([db EXCEPT !.seq = @ + 1], db.seq, Ceremony(c, t.user, "register", FALSE)))

register_passkey_finish(c) ==
    \E token \in DOMAIN db.challenges :
       require_auth(c, "register", [op |-> "RegisterFinish", at |-> "read", token |-> token])
RegisterPasskey_finish(c) ==
    LET t == task[c]
        Mine(r) == Webauthn(r) /\ r.user = t.user
    IN
    \/ register_passkey_finish(c)
    \/ /\ At(c, "RegisterFinish", "read")
       /\ IF \E r \in get_challenge(db, t.token) :
                Mine(r) /\ ~is_expired(r) /\ r.state[1] = "register"
          THEN Goes(c, [at |-> "add"], db) ELSE Replies(c, Unusable(c, t.token, Mine))
    \/ /\ At(c, "RegisterFinish", "add")
       /\ Goes(c, [at |-> "spend"], add_credential(db, t.user, Stamp(c, t.user)))
    \/ /\ At(c, "RegisterFinish", "spend")
       /\ Replies(c, delete_challenge(db, t.token).db)

delete_passkey(c) ==
    \E id \in DOMAIN db.creds : require_auth(c, "delete_passkey", [op |-> "DeletePasskey", at |-> "go", id |-> id])
DeletePasskey(c) ==
    LET t == task[c] IN
    \/ delete_passkey(c)
    \/ /\ At(c, "DeletePasskey", "go")
       /\ Replies(c, delete_credential(db, t.id, t.user).db)

\* Logout, of the caller's session or of another; and SessionCleanupJob.
Logout(c, sid) == Replies(c, delete_session_row(db, sid))
logout_public(c) ==
    /\ MayAsk(c, "logout")
    /\ \E sid \in DOMAIN db.sessions : Logout(c, sid)

\* Pi-hole's ids are hashes: the session is looked up among the active ones first.
pihole_delete_session(c) ==
    LET t == task[c] IN
    \/ /\ MayAsk(c, "logout")
       /\ \E sid \in get_all_active(db, now) : Goes(c, [op |-> "DeleteSession", at |-> "go", sid |-> sid], db)
    \/ /\ At(c, "DeleteSession", "go")
       /\ Logout(c, t.sid)

SessionCleanup(c) ==
    /\ MayAsk(c, "cleanup")
    /\ Replies(c, delete_expired(db, now))

(***************************************************************************)
(* API tokens                                                              *)
(***************************************************************************)
CreateApiToken(c) ==
    /\ MayAsk(c, "tokens")
    /\ \E name \in Others, key \in Tokens : Replies(c, create_token_row(db, name, key).db)
update_api_token(c) ==
    /\ MayAsk(c, "tokens")
    /\ \E id \in DOMAIN db.tokens, name \in Others, key \in Tokens \cup {""} :
          IF get_by_name(db, name) \ {id} # {} THEN Replies(c, db)
          ELSE Goes(c, [op |-> "UpdateToken", at |-> "write", id |-> id, name |-> name, key |-> key], db)
UpdateApiToken(c) ==
    LET t == task[c] IN
    \/ update_api_token(c)
    \/ /\ At(c, "UpdateToken", "write")
       /\ Replies(c, update_token_row(db, t.id, t.name, t.key).db)
DeleteApiToken(c) ==
    /\ MayAsk(c, "tokens")
    /\ \E id \in DOMAIN db.tokens : Replies(c, delete_token_row(db, id).db)

(***************************************************************************)
(* Steps that are all of the above: history and memory stay.               *)
(***************************************************************************)
Request(c) ==
    /\ \/ login_public(c) \/ verify_mfa_public(c) \/ pihole_login(c)
       \/ AuthenticatePasskey_start(c) \/ AuthenticatePasskey_finish(c)
       \/ DiscoverablePasskey_start(c) \/ DiscoverablePasskey_finish(c)
       \/ ConfirmTotp(c) \/ DisableMfa(c)
       \/ RegisterPasskey_start(c) \/ RegisterPasskey_finish(c) \/ DeletePasskey(c)
       \/ logout_public(c) \/ pihole_delete_session(c) \/ SessionCleanup(c)
       \/ CreateApiToken(c) \/ UpdateApiToken(c) \/ DeleteApiToken(c)
       \/ Login(c) \/ VerifyMfa(c) \/ AppPasswordLogin(c) \/ current_session(c)
    /\ UNCHANGED <<memory, history>>

\* A secret that is in use, or against which a code is being checked, is replaced.
Muddles(c) ==
    /\ At(c, "SetupTotp", "write")
    /\ \/ \E m \in Find(db.mfa, task[c].user) : m.enabled
       \/ \E d \in Clients : At(d, "VerifyMfa", "totp") /\ task[d].user = task[c].user

Enrol(c) ==
    /\ SetupTotp(c)
    /\ muddled' = IF Muddles(c) THEN muddled \cup {task[c].user} ELSE muddled
    /\ UNCHANGED <<memory, life, ver, kept, crossed, lost>>

(***************************************************************************)
(* Passwords and users                                                     *)
(***************************************************************************)
validate_password(pw) == pw # TooShort
AdminWriters == {c \in Clients : task[c].op \in {"ChangePassword", "SetupPassword"} /\ task[c].at = "provider"}

\* Config first, with its file; the provider's copy under a lock of its own, later.
update_toml_admin_password(c, pw) ==
    \/ /\ config' = pw
       /\ Goes(c, [at |-> "provider", adopts |-> pw], db)
       /\ crossed' = (crossed \/ AdminWriters # {})
    \/ /\ faults < Mixes[mix].faults  \* the save fails, and the old hash is put back
       /\ config' = config
       /\ Replies(c, db) /\ UNCHANGED crossed
setup_password_public(c) ==
    /\ MayAsk(c, "setup")
    /\ \E pw \in Passwords :
          IF get_by_username(Admin) # {} \/ ~validate_password(pw) THEN Replies(c, db)
          ELSE Goes(c, [op |-> "SetupPassword", at |-> "config", new |-> pw], db)
SetupPassword(c) ==
    LET t == task[c] IN
    \/ setup_password_public(c) /\ UNCHANGED <<memory, history>>
    \/ /\ At(c, "SetupPassword", "config")
       /\ update_toml_admin_password(c, t.new)
       /\ UNCHANGED <<provider, life, ver, kept, muddled, lost>>
    \/ /\ At(c, "SetupPassword", "provider")
       /\ provider' = t.adopts /\ Replies(c, db)
       /\ UNCHANGED <<config, history>>

change_password(c) ==
    \E old \in Passwords, new \in Passwords :
        require_auth(c, "change", [op |-> "ChangePassword", at |-> "read", pw |-> old, new |-> new])
ChangePassword(c) ==
    LET t == task[c] IN
    \/ change_password(c) /\ UNCHANGED <<memory, history>>
    \/ /\ At(c, "ChangePassword", "read")
       /\ IF (\E row \in get_by_username(t.user) : row.hash = t.pw) /\ validate_password(t.new)
          THEN Goes(c, [at |-> IF t.user = Admin THEN "config" ELSE "write"], db) ELSE Replies(c, db)
       /\ UNCHANGED <<memory, history>>
    \/ /\ At(c, "ChangePassword", "config")
       /\ update_toml_admin_password(c, t.new)
       /\ UNCHANGED <<provider, life, ver, kept, muddled, lost>>
    \/ /\ At(c, "ChangePassword", "provider")
       /\ provider' = t.adopts /\ Goes(c, [at |-> "revoke"], db)
       /\ ver' = [ver EXCEPT ![Admin] = @ + 1] /\ kept' = [kept EXCEPT ![Admin] = t.sid]
       /\ UNCHANGED <<config, life, muddled, crossed, lost>>
    \/ /\ At(c, "ChangePassword", "write")
       /\ \/ \E id \in find_user(db, t.user) :
                /\ Goes(c, [at |-> "revoke"], update_user_password(db, id, t.new).db)
                /\ ver' = [ver EXCEPT ![t.user] = @ + 1] /\ kept' = [kept EXCEPT ![t.user] = t.sid]
          \/ /\ find_user(db, t.user) = {}
             /\ Replies(c, db) /\ UNCHANGED <<ver, kept>>
       /\ UNCHANGED <<memory, life, muddled, crossed, lost>>
    \/ /\ At(c, "ChangePassword", "revoke")
       /\ Replies(c, delete_other_sessions(db, t.user, t.sid))
       /\ UNCHANGED <<memory, history>>

CreateUser(c) ==
    LET t == task[c] IN
    /\ \/ /\ MayAsk(c, "create_user")
          /\ \E u \in Users, pw \in Passwords :
                IF ~validate_password(pw) \/ u = Admin \/ get_by_username(u) # {} THEN Replies(c, db)
                ELSE Goes(c, [op |-> "CreateUser", at |-> "insert", user |-> u, pw |-> pw], db)
       \/ /\ At(c, "CreateUser", "insert")
          /\ Replies(c, create_user_row(db, t.user, t.pw).db)
    /\ UNCHANGED <<memory, history>>

DeleteUser(c) ==
    LET t == task[c] IN
    \/ /\ MayAsk(c, "delete_user")
       /\ \E id \in DOMAIN db.users :
             Goes(c, [op |-> "DeleteUser", at |-> "delete", id |-> id, user |-> db.users[id].user], db)
       /\ UNCHANGED <<memory, history>>
    \/ /\ At(c, "DeleteUser", "delete")
       /\ Replies(c, delete_user_row(db, t.id).db)
       /\ life' = IF t.id \in DOMAIN db.users THEN [life EXCEPT ![t.user] = @ + 1] ELSE life
       /\ UNCHANGED <<memory, ver, kept, muddled, crossed, lost>>

(***************************************************************************)
(* A request that ends before its time, and the clock                      *)
(***************************************************************************)
CutShort(c) ==
    /\ task[c] # Idle /\ faults < Mixes[mix].faults
    /\ faults' = faults + 1
    /\ crossed' = (crossed \/ c \in AdminWriters)
    /\ lost' = IF At(c, "ChangePassword", "revoke") THEN lost \cup {task[c].user} ELSE lost
    /\ Replies(c, db)
    /\ bearer' = [bearer EXCEPT ![c] = 0]
    /\ UNCHANGED <<mix, now, memory, asked, life, ver, kept, muddled, leaked>>

Tick ==
    /\ now < Mixes[mix].until
    /\ now' = now + 1
    /\ UNCHANGED <<mix, db, memory, windows, task, asked, history, lineage, spent, faults>>

(***************************************************************************)
(* Whom a request speaks for: a login the user it looked up, any other the *)
(* user of the session, passkey or challenge it presents.                  *)
(***************************************************************************)
Presents(t) ==
    IF "sid" \in DOMAIN t THEN Find(db.sessions, t.sid)
    ELSE IF t.op = "discover" THEN Find(db.creds, t.by)
    ELSE IF "token" \in DOMAIN t THEN Find(db.challenges, t.token)
    ELSE {}
LooksUp(t) == <<t.op, t.at>> \in {<<"Login", "verify">>, <<"AppPassword", "session">>}
Bears(c, t) ==
    IF t = Idle THEN 0
    ELSE IF LooksUp(t) THEN life[t.user]
    ELSE IF Presents(t) = {} THEN bearer[c]
    ELSE (CHOOSE row \in Presents(t) : TRUE).stamp.life

\* The steps that insert a row of a user.
Inserts ==
    {<<"Login", "challenge">>, <<"Login", "session">>, <<"VerifyMfa", "session">>,
     <<"AppPassword", "session">>, <<"PasskeyStart", "create">>, <<"authenticate", "session">>,
     <<"discover", "session">>, <<"SetupTotp", "write">>, <<"ConfirmTotp", "codes">>,
     <<"RegisterStart", "create">>, <<"RegisterFinish", "add">>}
\* The user was deleted between the step that knew it and this one.
Leaks(c) ==
    /\ task[c] # Idle /\ <<task[c].op, task[c].at>> \in Inserts
    /\ task[c].user \in Users /\ bearer[c] # life[task[c].user]
Descends(c) ==
    /\ bearer' = [bearer EXCEPT ![c] = Bears(c, task'[c])]
    /\ leaked' = IF Leaks(c) THEN leaked \cup {task[c].user} ELSE leaked

Serve(c) ==
    /\ \/ Request(c) \/ Enrol(c) \/ SetupPassword(c) \/ ChangePassword(c)
       \/ CreateUser(c) \/ DeleteUser(c)
    /\ Descends(c)
    /\ asked' = IF task[c] = Idle THEN asked + 1 ELSE asked
    /\ UNCHANGED <<mix, now, faults>>

Next == Tick \/ \E c \in Clients : Serve(c) \/ CutShort(c)
Spec == Init /\ [][Next]_vars

(***************************************************************************)
(* Properties                                                              *)
(***************************************************************************)
\* Two requests that race with the same challenge, the same code or the same recovery
\* code open one session between them: the statement that spends it is the one that
\* decides (delete_challenge, advance_totp_step and mark_recovery_code_used count rows).
\* Excepted, a user for whom an enrolment that had found no second factor enabled wrote its
\* secret over one that was in use by then (setup_totp.rs: read, then upsert): the step a
\* code was used at is lost with the old secret.
FactorUsedOnce ==
    \A a, b \in spent : a.proof = b.proof /\ a.proof[2] \notin muddled => a.session = b.session

\* Failures are counted after the hash is verified, long after the check that let the
\* attempt in: a window overshoots its limit by the attempts in flight and no more.
FailuresBounded ==
    \A p \in DOMAIN windows :
        windows[p].failures < MaxFailures + Cardinality({c \in Clients : Peer[c] = p})

\* What is under a name belongs to the user who bears it: no session, secret, recovery
\* code, passkey or challenge that a former user of the name came by, itself or by way of
\* another of them, can be found once that user is deleted.  No row names its user by id,
\* so the deletion has to reach every table.  Excepted, and against "a reused name inherits
\* no factors" (user_repository.rs:128): no write looks at the user again, so a request that
\* the deletion overtakes after its last look still leaves its row (register_passkey.rs:89-110,
\* login.rs, setup_totp.rs), and what is then done with that row is the former user's too.
NothingOutlivesUser ==
    \A row \in Owned(db) :
        row.user \in Users \ leaked => row.stamp.life = life[row.user]

\* Once a change of password has answered, no session from before it is left but the one
\* that asked, whatever logged in, expired or changed the password meanwhile.
SessionsRevoked ==
    \A s \in DOMAIN db.sessions :
        LET u == db.sessions[s].user
        IN  \/ db.sessions[s].stamp.ver = ver[u]
            \/ s = kept[u] \/ u \in lost
            \/ \E c \in Clients : At(c, "ChangePassword", "revoke") /\ task[c].user = u

\* The admin's password is the one of the file's configuration, also after a save that
\* failed: provider and Config differ only while a change is between the two.
AdminInStep == provider = config \/ crossed \/ AdminWriters # {}

\* A change of password takes effect everywhere.
PasswordChangeHolds == SessionsRevoked /\ AdminInStep

=============================================================================
