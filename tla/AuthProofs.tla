----------------------------- MODULE AuthProofs -----------------------------
(***************************************************************************)
(* Theorems about Auth, for any clients, users, requests and faults: a     *)
(* factor opens one session, failures are bounded, nothing of a deleted    *)
(* user is inherited and a change of password holds.                       *)
(***************************************************************************)
EXTENDS Auth, FiniteSetTheorems, TLAPS

(***************************************************************************)
(* What a request carries from step to step                                *)
(***************************************************************************)

Has(x, fields) == fields \subseteq DOMAIN x

Presented == [secret : Nat, step : Nat, id : Nat]

\* The requests that go on once their session is validated, and with what.
Behind == {"SetupTotp", "ConfirmTotp", "DisableMfa", "RegisterStart", "RegisterFinish",
           "DeletePasskey", "ChangePassword"}

Carries(x) ==
    /\ x.op = "ConfirmTotp" => Has(x, {"code"}) /\ x.code \in Presented
    /\ x.op = "ChangePassword" => Has(x, {"new"}) /\ x.new \in Passwords

\* The request that is to go on, while the session is looked up again.
Resumes(x) ==
    /\ Has(x, {"op", "at"}) /\ x.op \in Behind /\ x.at \in {"read", "create", "go"}
    /\ Carries(x)

LoginTyped(x) ==
    x.op \in {"Login", "AppPassword"} =>
        /\ Has(x, {"user", "code", "remember"})
        /\ x.user \in Users /\ x.code \in Presented /\ x.remember \in BOOLEAN
        /\ x.op = "AppPassword" => Has(x, {"pw"})

VerifyTyped(x, seq) ==
    x.op = "VerifyMfa" =>
        /\ Has(x, {"token", "code"}) /\ x.token \in 0..(seq - 1) /\ x.code \in Presented
        /\ x.at # "challenge" => Has(x, {"user", "remember"}) /\ x.remember \in BOOLEAN
        /\ x.at \in {"totp", "codes", "mark", "spend", "session"} => x.user \in Users
        /\ x.at = "totp" => Has(x, {"row"}) /\ x.row.secret \in 0..(seq - 1)
        /\ x.at = "mark" => /\ Has(x, {"proof"}) /\ x.code.id \in 0..(seq - 1)
                            /\ x.proof = <<"code", x.user, x.code.id>>
        /\ x.at \in {"spend", "session"} => Has(x, {"proof"})

PasskeyTyped(x, seq) ==
    x.op \in {"PasskeyStart", "authenticate", "discover"} =>
        /\ Has(x, {"token", "user", "remember"})
        /\ x.token \in 0..(seq - 1) /\ x.remember \in BOOLEAN
        /\ x.op = "PasskeyStart" => Has(x, {"expires"}) /\ x.expires \in Nat /\ x.user \in Users \cup {""}
        /\ x.op # "PasskeyStart" => Has(x, {"count"}) /\ x.count \in Nat /\ x.user \in Users

SessionTyped(x) ==
    /\ x.op = "session" => Has(x, {"then", "sid"}) /\ Resumes(x.then)
    /\ x.op \in Behind => Has(x, {"user", "sid"}) /\ x.user \in Users /\ x.sid \in Nat /\ Carries(x)

UserTyped(x, tables) ==
    /\ x.op = "CreateUser" => Has(x, {"user", "pw"}) /\ x.user \in Users /\ x.pw \in Passwords
    /\ x.op = "DeleteUser" =>
          /\ Has(x, {"user", "id"}) /\ x.user \in Users /\ x.id \in Given(tables)
          /\ x.id \in DOMAIN tables.users => tables.users[x.id].user = x.user
    /\ x.op = "ChangePassword" /\ x.at \in {"config", "provider"} => x.user = Admin
    /\ x.op \in {"ChangePassword", "SetupPassword"} /\ x.at = "provider" => Has(x, {"adopts"})

TaskTyped(x, tables) ==
    /\ Has(x, {"op"}) /\ (x # Idle => Has(x, {"at"}) /\ x.op # "none")
    /\ LoginTyped(x) /\ VerifyTyped(x, tables.seq) /\ PasskeyTyped(x, tables.seq)
    /\ SessionTyped(x) /\ UserTyped(x, tables)

Windows == [opened : Nat, failures : Nat]

WindowsTyped ==
    /\ windows \in [DOMAIN windows -> Windows]
    /\ \A p \in DOMAIN windows : windows[p].opened <= now
HistoryTyped == life \in [Users -> Nat] /\ ver \in [Users -> Nat] /\ kept \in [Users -> Nat]

Typed ==
    /\ IsDatabase(db) /\ now \in Nat \ {0} /\ WindowsTyped /\ HistoryTyped
    /\ DOMAIN task = Clients /\ \A c \in Clients : TaskTyped(task[c], db)

(***************************************************************************)
(* The inductive invariant                                                 *)
(***************************************************************************)

\* The attempts that passed the limiter's check and may still fail.
MayFail(x) == \/ x.op = "Login" /\ x.at = "verify"
              \/ x.op = "VerifyMfa" /\ x.at \in {"user", "mfa", "totp", "codes"}
Behaves(p) == {c \in Clients : Peer[c] = p}
InFlight(p) == {c \in Behaves(p) : MayFail(task[c])}

\* A window at its limit has room for the attempts in flight, and the one that took it there is over.
WindowsBounded ==
    /\ MaxFailures = 0 => DOMAIN windows = {}
    /\ \A p \in DOMAIN windows : Open(p) /\ windows[p].failures >= MaxFailures =>
          windows[p].failures + Cardinality(InFlight(p)) < MaxFailures + Cardinality(Behaves(p))

\* A request that has taken a challenge out of its table, to spend it or to put it back.
TakesToken(x) == \/ x.op \in {"VerifyMfa", "authenticate", "discover"} /\ x.at = "session"
                 \/ x.op = "PasskeyStart" /\ x.at = "create"
Holds(x, k) == TakesToken(x) /\ x.token = k

\* A challenge is in the table, or with one request, or spent by one session.
ChallengeSpent(k) == {e \in spent : e.proof[1] = "challenge" /\ e.proof[3] = k}
TokensOnce ==
    /\ \A c \in Clients : \A k : Holds(task[c], k) =>
          /\ k \notin DOMAIN db.challenges /\ ChallengeSpent(k) = {}
          /\ \A d \in Clients : Holds(task[d], k) => d = c
    /\ \A e \in spent : e.proof[1] = "challenge" =>
          e.proof[3] \in Given(db) /\ e.proof[3] \notin DOMAIN db.challenges
    /\ \A e, f \in spent : e.proof[1] = "challenge" /\ f.proof[1] = "challenge"
                           /\ e.proof[3] = f.proof[3] => e.session = f.session

\* What can be known of a code once it has been accepted.
Accepted(p) ==
    \/ p[1] = "code" /\ p[3] \in Given(db) /\ (p[3] \in DOMAIN db.codes => db.codes[p[3]].used)
    \/ /\ p[1] = "totp" /\ p[3] \in Given(db) /\ p[4] \in Nat
       /\ p[2] \in DOMAIN db.mfa /\ db.mfa[p[2]].secret = p[3] => db.mfa[p[2]].step >= p[4]

Proves(x) == x.op = "VerifyMfa" /\ x.at \in {"spend", "session"}

\* A code is with one request or was spent by one session, and its row says that
\* it is used.
CodesOnce ==
    /\ \A c \in Clients : Proves(task[c]) =>
          /\ Accepted(task[c].proof) /\ task[c].proof[2] = task[c].user
          /\ task[c].user \notin muddled =>
                /\ \A e \in spent : e.proof # task[c].proof
                /\ \A d \in Clients : Proves(task[d]) /\ task[d].proof = task[c].proof => d = c
    /\ \A e \in spent : e.proof[1] # "challenge" => Accepted(e.proof)
    /\ \A e, f \in spent : e.proof[1] # "challenge" /\ e.proof = f.proof
                           /\ e.proof[2] \notin muddled => e.session = f.session

\* A code is checked against the secret that its step is then counted for.
SecretsStay ==
    \A c \in Clients :
        LET u == task[c].user
        IN  At(c, "VerifyMfa", "totp") /\ u \notin muddled /\ u \in DOMAIN db.mfa =>
                db.mfa[u].secret = task[c].row.secret

\* The last change of a password has ended the other sessions, or will, or was cut short.
Ended(u) ==
    \A s \in DOMAIN db.sessions : db.sessions[s].user = u =>
        db.sessions[s].stamp.ver = ver[u] \/ s = kept[u]
ChangesEnd ==
    \A u \in Users :
        \/ Ended(u) \/ u \in lost
        \/ \E c \in Clients : At(c, "ChangePassword", "revoke") /\ task[c].user = u /\ task[c].sid = kept[u]

\* One writer of the admin's password is between the config and the provider, and brings what the config has.
AdminFollows ==
    ~crossed => \/ AdminWriters = {} /\ provider = config
                \/ \E c \in Clients : AdminWriters = {c} /\ task[c].adopts = config

AuthInv ==
    /\ Typed /\ NothingOutlivesUser /\ FailuresBounded /\ WindowsBounded
    /\ TokensOnce /\ CodesOnce /\ SecretsStay /\ ChangesEnd /\ AdminFollows

(***************************************************************************)
(* Tables                                                                  *)
(***************************************************************************)

\* Rows taken out of one.
LEMMA WithoutTable ==
    ASSUME NEW f, NEW K, NEW R, IsTable(f, K, R), NEW ks
    PROVE  /\ IsTable(Without(f, ks), K, R)
           /\ DOMAIN Without(f, ks) = DOMAIN f \ ks
           /\ \A x \in DOMAIN f \ ks : Without(f, ks)[x] = f[x]
BY DEF Without, Restrict, IsTable

\* A row rewritten in one.
LEMMA RowTable ==
    ASSUME NEW f, NEW K, NEW R, IsTable(f, K, R), NEW k \in DOMAIN f, NEW v \in R
    PROVE  /\ IsTable([f EXCEPT ![k] = v], K, R)
           /\ DOMAIN [f EXCEPT ![k] = v] = DOMAIN f
           /\ [f EXCEPT ![k] = v][k] = v
           /\ \A x \in DOMAIN f \ {k} : [f EXCEPT ![k] = v][x] = f[x]
BY DEF IsTable

\* A table remains one when more ids are given out.
LEMMA TableGrows ==
    ASSUME NEW f, NEW K, NEW L, NEW R, IsTable(f, K, R), K \subseteq L
    PROVE  IsTable(f, L, R)
BY DEF IsTable

(***************************************************************************)
(* What a statement leaves as it was                                       *)
(***************************************************************************)

Same(r, o) == r.user = o.user /\ r.stamp = o.stamp

\* A stamp that is of the user as it is now, or of a user that a request has outlived.
Earned(u, s) == u \in Users => s.ver = ver[u] /\ (s.life = life[u] \/ u \in leaked')
Fresh(r) == Earned(r.user, r.stamp)

UsersKept(d, e) ==
    /\ d.seq <= e.seq
    /\ \A i \in DOMAIN e.users : \/ i \in DOMAIN d.users /\ e.users[i].user = d.users[i].user
                                 \/ i \notin Given(d)
SessionsKept(d, e) ==
    \A s \in DOMAIN e.sessions : s \in DOMAIN d.sessions /\ Same(e.sessions[s], d.sessions[s])
MfaKept(d, e) ==
    \A u \in DOMAIN e.mfa :
        /\ u \in DOMAIN d.mfa /\ Same(e.mfa[u], d.mfa[u])
        /\ e.mfa[u].secret = d.mfa[u].secret /\ e.mfa[u].step >= d.mfa[u].step
CodesKept(d, e) ==
    \A i \in DOMAIN e.codes :
        \/ /\ i \in DOMAIN d.codes /\ Same(e.codes[i], d.codes[i])
           /\ d.codes[i].used => e.codes[i].used
        \/ i \notin Given(d) /\ Fresh(e.codes[i])
ChallengesKept(d, e) ==
    \A k \in DOMAIN e.challenges : k \in DOMAIN d.challenges /\ Same(e.challenges[k], d.challenges[k])
CredsKept(d, e) ==
    \A i \in DOMAIN e.creds : \/ i \in DOMAIN d.creds /\ Same(e.creds[i], d.creds[i])
                              \/ Fresh(e.creds[i])

Kept(d, e) ==
    /\ IsDatabase(e)
    /\ UsersKept(d, e) /\ SessionsKept(d, e) /\ MfaKept(d, e) /\ CodesKept(d, e)
    /\ ChallengesKept(d, e) /\ CredsKept(d, e)

UserRows == [user : Users, hash : Passwords, enabled : BOOLEAN]
SessionRows == [user : Users, expires : Nat, seen : Nat, remember : BOOLEAN, stamp : Stamps]
MfaRows == [user : Users, secret : Nat, enabled : BOOLEAN, step : Nat, stamp : Stamps]
CodeRows == [user : Users, used : BOOLEAN, stamp : Stamps]
ChallengeRows == [user : Users \cup {""}, kind : {"Totp", "Webauthn"},
                  state : {<<>>} \cup (Ceremonies \X Nat), expires : Nat,
                  remember : BOOLEAN, stamp : Stamps]
CredRows == [user : Users, count : Nat, stamp : Stamps]

\* A database, table by table.
LEMMA DatabaseFacts ==
    ASSUME NEW d
    PROVE  IsDatabase(d) <=>
              /\ d = [users |-> d.users, sessions |-> d.sessions, mfa |-> d.mfa, codes |-> d.codes,
                      challenges |-> d.challenges, creds |-> d.creds, tokens |-> d.tokens,
                      seq |-> d.seq]
              /\ d.seq \in Nat
              /\ IsTable(d.users, Given(d), UserRows)
              /\ IsTable(d.sessions, Given(d), SessionRows)
              /\ IsTable(d.mfa, Users, MfaRows)
              /\ \A u \in DOMAIN d.mfa : d.mfa[u].user = u /\ d.mfa[u].secret \in Given(d)
              /\ IsTable(d.codes, Given(d), CodeRows)
              /\ IsTable(d.challenges, Given(d), ChallengeRows)
              /\ IsTable(d.creds, Given(d), CredRows)
BY DEF IsDatabase, UserRows, SessionRows, MfaRows, CodeRows, ChallengeRows, CredRows

Columns == {"users", "sessions", "mfa", "codes", "challenges", "creds", "tokens", "seq"}
IsRecord(e) == DOMAIN e = Columns /\ e = [x \in Columns |-> e[x]]

\* A database is a record of its tables.
LEMMA DatabaseRecord ==
    ASSUME NEW d, IsDatabase(d)
    PROVE  IsRecord(d)
<1>1. PICK users, sessions, mfa, codes, challenges, creds, tokens, seq :
          d = [users |-> users, sessions |-> sessions, mfa |-> mfa, codes |-> codes,
               challenges |-> challenges, creds |-> creds, tokens |-> tokens, seq |-> seq]
  BY DatabaseFacts
<1> QED BY <1>1 DEF IsRecord, Columns

\* Tables whose ids are below n.
Fits(e, n) ==
    /\ IsTable(e.users, 0..(n - 1), UserRows)
    /\ IsTable(e.sessions, 0..(n - 1), SessionRows)
    /\ IsTable(e.mfa, Users, MfaRows)
    /\ \A u \in DOMAIN e.mfa : e.mfa[u].user = u /\ e.mfa[u].secret \in 0..(n - 1)
    /\ IsTable(e.codes, 0..(n - 1), CodeRows)
    /\ IsTable(e.challenges, 0..(n - 1), ChallengeRows)
    /\ IsTable(e.creds, 0..(n - 1), CredRows)

\* And a record of tables is a database.
LEMMA MakesDatabase ==
    ASSUME NEW e, IsRecord(e), e.seq \in Nat, Fits(e, e.seq)
    PROVE  IsDatabase(e)
<1>1. Given(e) = 0..(e.seq - 1)
  BY DEF Given
<1>2. e = [users |-> e.users, sessions |-> e.sessions, mfa |-> e.mfa, codes |-> e.codes,
           challenges |-> e.challenges, creds |-> e.creds, tokens |-> e.tokens, seq |-> e.seq]
  BY DEF IsRecord, Columns
<1> QED BY <1>1, <1>2, DatabaseFacts DEF Fits

\* Nothing done, nothing changed.
LEMMA NothingDone ==
    ASSUME NEW d, IsDatabase(d)
    PROVE  Kept(d, d)
BY DatabaseFacts DEF Kept, UsersKept, SessionsKept, MfaKept, CodesKept, ChallengesKept,
    CredsKept, Same,
   IsTable, MfaRows

(***************************************************************************)
(* The statements                                                          *)
(***************************************************************************)

\* Tables of a database, with more ids given out.
LEMMA TablesGrow ==
    ASSUME NEW d, IsDatabase(d), NEW n \in Nat, d.seq <= n
    PROVE  Fits(d, n)
<1>1. Given(d) \subseteq 0..(n - 1)
  BY DatabaseFacts DEF Given
<1>2. d.seq \in Nat /\ IsTable(d.mfa, Users, MfaRows)
      /\ \A u \in DOMAIN d.mfa : d.mfa[u].user = u /\ d.mfa[u].secret \in 0..(n - 1)
  BY <1>1, DatabaseFacts
<1> QED BY <1>1, <1>2, DatabaseFacts, TableGrows DEF Fits

\* A database that differs in its users: rows rewritten, or one more under the next id.
LEMMA UsersChange ==
    ASSUME NEW d, IsDatabase(d), NEW e, NEW f, NEW n \in {d.seq, d.seq + 1},
           e = [d EXCEPT !.users = f, !.seq = n],
           IsTable(f, 0..(n - 1), UserRows),
           \A i \in DOMAIN f : (i \in DOMAIN d.users /\ f[i].user = d.users[i].user) \/ i = d.seq
    PROVE  Kept(d, e)
<1>1. d.seq \in Nat /\ n \in Nat /\ d.seq <= n /\ d.seq \notin Given(d)
  BY DatabaseFacts DEF Given
<1>2. /\ IsRecord(e)
      /\ e.users = f /\ e.sessions = d.sessions /\ e.mfa = d.mfa /\ e.codes = d.codes
      /\ e.challenges = d.challenges /\ e.creds = d.creds /\ e.seq = n
  BY DatabaseRecord DEF IsRecord, Columns
<1>3. IsDatabase(e)
  <2>1. Fits(d, e.seq)
    BY <1>1, <1>2, TablesGrow
  <2>2. Fits(e, e.seq)
    BY <1>1, <1>2, <2>1 DEF Fits
  <2> QED BY <1>1, <1>2, <2>2, MakesDatabase
<1>4. Kept(d, d)
  BY NothingDone
<1>6. UsersKept(d, e)
  BY <1>1, <1>2 DEF UsersKept
<1> QED BY <1>2, <1>3, <1>4, <1>6 DEF Kept, SessionsKept, MfaKept, CodesKept,
    ChallengesKept, CredsKept

\* create (user_repository) and update_password.
LEMMA UserStatements ==
    ASSUME NEW d, IsDatabase(d), NEW pw \in Passwords
    PROVE  /\ \A u \in Users : Kept(d, create_user_row(d, u, pw).db)
           /\ \A id : Kept(d, update_user_password(d, id, pw).db)
<1>1. d.seq \in Nat /\ IsTable(d.users, Given(d), UserRows) /\ Given(d) = 0..(d.seq - 1) /\ Kept(d, d)
  BY DatabaseFacts, NothingDone DEF Given
<1>2. ASSUME NEW u \in Users
      PROVE  Kept(d, create_user_row(d, u, pw).db)
  <2>1. PICK v \in UserRows : v = [user |-> u, hash |-> pw, enabled |-> TRUE]
    BY DEF UserRows
  <2>2. PICK n \in Nat, k \in Nat : n = d.seq + 1 /\ k = d.seq /\ k \in 0..(n - 1)
    BY <1>1
  <2>3. PICK L : L = 0..(n - 1) /\ Given(d) \subseteq L /\ k \in L
    BY <1>1, <2>2
  <2>4. PICK f : f = Put(d.users, k, v)
    OBVIOUS
  <2>5. /\ IsTable(f, L, UserRows) /\ DOMAIN f = DOMAIN d.users \cup {k}
        /\ \A x \in DOMAIN d.users \ {k} : f[x] = d.users[x]
    <3>1. v \in UserRows
      BY <2>1
    <3> QED BY <1>1, <3>1, <2>3, <2>4 DEF Put, IsTable
  <2>6. PICK e : e = [d EXCEPT !.users = f, !.seq = n]
    BY SMTT(30)
  <2>7. Kept(d, e)
    <3>1. n \in {d.seq, d.seq + 1} /\ IsTable(f, 0..(n - 1), UserRows)
      BY <2>2, <2>3, <2>5
    <3>2. \A i \in DOMAIN f : (i \in DOMAIN d.users /\ f[i].user = d.users[i].user) \/ i = d.seq
      BY <2>2, <2>5
    <3> QED BY <2>6, <3>1, <3>2, UsersChange
  <2>8. create_user_row(d, u, pw).db \in {d, e}
    BY <2>1, <2>2, <2>4, <2>6 DEF create_user_row, Outcome
  <2> QED BY <2>7, <2>8, <1>1
<1>3. ASSUME NEW id
      PROVE  Kept(d, update_user_password(d, id, pw).db)
  <2>1. CASE id \notin DOMAIN d.users
    BY <2>1, <1>1 DEF update_user_password, Outcome
  <2>2. CASE id \in DOMAIN d.users
    <3>1. PICK o \in UserRows : o = d.users[id]
      BY <2>2, <1>1 DEF IsTable
    <3>2. PICK v : v = [o EXCEPT !.hash = pw]
      OBVIOUS
    <3>3. v \in UserRows /\ v.user = o.user
      BY <3>1, <3>2 DEF UserRows
    <3>4. PICK f : f = [d.users EXCEPT ![id] = v]
      OBVIOUS
    <3>5. /\ IsTable(f, Given(d), UserRows) /\ DOMAIN f = DOMAIN d.users /\ f[id] = v
          /\ \A x \in DOMAIN d.users \ {id} : f[x] = d.users[x]
      BY <1>1, <2>2, <3>3, <3>4, RowTable
    <3>6. PICK e : e = [d EXCEPT !.users = f, !.seq = d.seq]
      BY SMTT(30)
    <3>7. Kept(d, e)
      <4>1. d.seq \in {d.seq, d.seq + 1} /\ IsTable(f, 0..(d.seq - 1), UserRows)
        BY <1>1, <3>5
      <4>2. \A i \in DOMAIN f : (i \in DOMAIN d.users /\ f[i].user = d.users[i].user) \/ i = d.seq
        BY <3>1, <3>3, <3>5
      <4> QED BY <3>6, <4>1, <4>2, UsersChange
    <3>8. update_user_password(d, id, pw).db = [d EXCEPT !.users = f]
      BY <2>2, <3>1, <3>2, <3>4 DEF update_user_password, Outcome
    <3>9. e = [d EXCEPT !.users = f]
      BY <3>6, DatabaseRecord DEF IsRecord, Columns
    <3> QED BY <3>7, <3>8, <3>9
  <2> QED BY <2>1, <2>2
<1> QED BY <1>2, <1>3

\* A database that differs in its sessions, none of them new.
LEMMA SessionsChange ==
    ASSUME NEW d, IsDatabase(d), NEW e, NEW f, e = [d EXCEPT !.sessions = f],
           IsTable(f, Given(d), SessionRows),
           \A s \in DOMAIN f : s \in DOMAIN d.sessions /\ Same(f[s], d.sessions[s])
    PROVE  Kept(d, e)
<1>1. /\ IsRecord(e)
      /\ e.users = d.users /\ e.sessions = f /\ e.mfa = d.mfa /\ e.codes = d.codes
      /\ e.challenges = d.challenges /\ e.creds = d.creds /\ e.seq = d.seq
  BY DatabaseRecord DEF IsRecord, Columns
<1>2. d.seq \in Nat /\ Given(d) = 0..(d.seq - 1) /\ Kept(d, d)
  BY DatabaseFacts, NothingDone DEF Given
<1>3. IsDatabase(e)
  <2>1. Fits(d, e.seq)
    BY <1>1, <1>2, TablesGrow
  <2>2. Fits(e, e.seq)
    BY <1>1, <1>2, <2>1 DEF Fits
  <2> QED BY <1>1, <1>2, <2>2, MakesDatabase
<1> QED BY <1>1, <1>2, <1>3 DEF Kept, UsersKept, SessionsKept, MfaKept, CodesKept,
    ChallengesKept,
           CredsKept

\* The deletions of sessions and update_last_seen.
LEMMA SessionStatements ==
    ASSUME NEW d, IsDatabase(d)
    PROVE  /\ \A sid : Kept(d, delete_session_row(d, sid))
           /\ \A t : Kept(d, delete_expired(d, t))
           /\ \A u, sid : Kept(d, delete_other_sessions(d, u, sid))
           /\ \A sid : \A t \in Nat : Kept(d, update_last_seen(d, sid, t))
<1>1. IsTable(d.sessions, Given(d), SessionRows)
  BY DatabaseFacts
<1>2. ASSUME NEW ks
      PROVE  Kept(d, [d EXCEPT !.sessions = Without(d.sessions, ks)])
  <2>1. PICK f : f = Without(d.sessions, ks)
    OBVIOUS
  <2>2. IsTable(f, Given(d), SessionRows) /\ DOMAIN f = DOMAIN d.sessions \ ks
        /\ \A x \in DOMAIN d.sessions \ ks : f[x] = d.sessions[x]
    BY <1>1, <2>1, WithoutTable
  <2>3. PICK e : e = [d EXCEPT !.sessions = f]
    OBVIOUS
  <2>4. Kept(d, e)
    BY <2>2, <2>3, SessionsChange DEF Same
  <2> QED BY <2>1, <2>3, <2>4
<1>3. /\ \A sid : Kept(d, delete_session_row(d, sid))
      /\ \A t : Kept(d, delete_expired(d, t))
      /\ \A u, sid : Kept(d, delete_other_sessions(d, u, sid))
  BY <1>2 DEF delete_session_row, delete_expired, delete_other_sessions
<1>4. ASSUME NEW sid, NEW t \in Nat
      PROVE  Kept(d, update_last_seen(d, sid, t))
  <2>1. CASE sid \notin DOMAIN d.sessions
    BY <2>1, NothingDone DEF update_last_seen
  <2>2. CASE sid \in DOMAIN d.sessions
    <3>1. PICK o \in SessionRows : o = d.sessions[sid]
      BY <2>2, <1>1 DEF IsTable
    <3>2. PICK v : v = [o EXCEPT !.seen = t]
      OBVIOUS
    <3>3. v \in SessionRows /\ Same(v, o)
      BY <3>1, <3>2 DEF SessionRows, Same
    <3>4. PICK f : f = [d.sessions EXCEPT ![sid] = v]
      OBVIOUS
    <3>5. /\ IsTable(f, Given(d), SessionRows) /\ DOMAIN f = DOMAIN d.sessions /\ f[sid] = v
          /\ \A x \in DOMAIN d.sessions \ {sid} : f[x] = d.sessions[x]
      BY <1>1, <2>2, <3>3, <3>4, RowTable
    <3>6. PICK e : e = [d EXCEPT !.sessions = f]
      OBVIOUS
    <3>7. Kept(d, e)
      BY <3>1, <3>3, <3>5, <3>6, SessionsChange DEF Same
    <3>8. update_last_seen(d, sid, t) = e
      BY <2>2, <3>1, <3>2, <3>4, <3>6 DEF update_last_seen
    <3> QED BY <3>7, <3>8
  <2> QED BY <2>1, <2>2
<1> QED BY <1>3, <1>4

\* Which sessions delete_other_sessions leaves.
LEMMA OthersDeleted ==
    ASSUME NEW d, IsDatabase(d), NEW u, NEW sid
    PROVE  \A s \in DOMAIN delete_other_sessions(d, u, sid).sessions :
               delete_other_sessions(d, u, sid).sessions[s].user = u => s = sid
<1>0. IsTable(d.sessions, Given(d), SessionRows)
  BY DatabaseFacts
<1>1. PICK ks : ks = RowsOf(d.sessions, u) \ {sid}
  OBVIOUS
<1>2. PICK f : f = Without(d.sessions, ks)
  OBVIOUS
<1>3. DOMAIN f = DOMAIN d.sessions \ ks /\ \A x \in DOMAIN d.sessions \ ks : f[x] = d.sessions[x]
  BY <1>0, <1>2, WithoutTable
<1>4. delete_other_sessions(d, u, sid).sessions = f
  BY <1>1, <1>2, DatabaseRecord DEF delete_other_sessions, IsRecord, Columns
<1> QED BY <1>1, <1>3, <1>4 DEF RowsOf

\* A database that differs in its second factors, none of them new.
LEMMA MfaChange ==
    ASSUME NEW d, IsDatabase(d), NEW e, NEW f, e = [d EXCEPT !.mfa = f],
           IsTable(f, Users, MfaRows),
           \A u \in DOMAIN f : f[u].user = u /\ f[u].secret \in 0..(d.seq - 1),
           \A u \in DOMAIN f : /\ u \in DOMAIN d.mfa /\ Same(f[u], d.mfa[u])
                               /\ f[u].secret = d.mfa[u].secret /\ f[u].step >= d.mfa[u].step
    PROVE  Kept(d, e)
<1>1. d.seq \in Nat /\ d.seq \in Nat /\ d.seq <= d.seq /\ d.seq \notin Given(d) /\ Given(d) = 0..(d.seq - 1)
      /\ Kept(d, d)
  BY DatabaseFacts, NothingDone DEF Given
<1>2. /\ IsRecord(e)
      /\ e.users = d.users /\ e.sessions = d.sessions /\ e.mfa = f /\ e.codes = d.codes
      /\ e.challenges = d.challenges /\ e.creds = d.creds /\ e.seq = d.seq
  BY DatabaseRecord DEF IsRecord, Columns
<1>3. IsDatabase(e)
  <2>1. Fits(d, e.seq)
    BY <1>1, <1>2, TablesGrow
  <2>2. Fits(e, e.seq)
    BY <1>1, <1>2, <2>1 DEF Fits
  <2> QED BY <1>1, <1>2, <2>2, MakesDatabase
<1> QED BY <1>1, <1>2, <1>3 DEF Kept, UsersKept, SessionsKept, MfaKept, CodesKept,
    ChallengesKept,
           CredsKept

\* A database that differs in its recovery codes: fewer, used ones or a fresh one.
LEMMA CodesChange ==
    ASSUME NEW d, IsDatabase(d), NEW e, NEW f, NEW n \in {d.seq, d.seq + 1},
           e = [d EXCEPT !.codes = f, !.seq = n],
           IsTable(f, 0..(n - 1), CodeRows),
           \A i \in DOMAIN f : \/ /\ i \in DOMAIN d.codes /\ Same(f[i], d.codes[i])
                                  /\ d.codes[i].used => f[i].used
                               \/ i = d.seq /\ Fresh(f[i])
    PROVE  Kept(d, e)
<1>1. d.seq \in Nat /\ n \in Nat /\ d.seq <= n /\ d.seq \notin Given(d) /\ Given(d) = 0..(d.seq - 1)
      /\ Kept(d, d)
  BY DatabaseFacts, NothingDone DEF Given
<1>2. /\ IsRecord(e)
      /\ e.users = d.users /\ e.sessions = d.sessions /\ e.mfa = d.mfa /\ e.codes = f
      /\ e.challenges = d.challenges /\ e.creds = d.creds /\ e.seq = n
  BY DatabaseRecord DEF IsRecord, Columns
<1>3. IsDatabase(e)
  <2>1. Fits(d, e.seq)
    BY <1>1, <1>2, TablesGrow
  <2>2. Fits(e, e.seq)
    BY <1>1, <1>2, <2>1 DEF Fits
  <2> QED BY <1>1, <1>2, <2>2, MakesDatabase
<1>4. CodesKept(d, e)
  <2>1. e.codes = f /\ d.seq \notin Given(d)
    BY <1>1, <1>2
  <2> QED BY <2>1 DEF CodesKept
<1> QED BY <1>1, <1>2, <1>3, <1>4 DEF Kept, UsersKept, SessionsKept, MfaKept,
    ChallengesKept, CredsKept

\* A database that has fewer challenges.
LEMMA ChallengesChange ==
    ASSUME NEW d, IsDatabase(d), NEW e, NEW f, e = [d EXCEPT !.challenges = f],
           IsTable(f, 0..(d.seq - 1), ChallengeRows),
           \A k \in DOMAIN f : k \in DOMAIN d.challenges /\ Same(f[k], d.challenges[k])
    PROVE  Kept(d, e)
<1>1. d.seq \in Nat /\ d.seq \in Nat /\ d.seq <= d.seq /\ d.seq \notin Given(d) /\ Given(d) = 0..(d.seq - 1)
      /\ Kept(d, d)
  BY DatabaseFacts, NothingDone DEF Given
<1>2. /\ IsRecord(e)
      /\ e.users = d.users /\ e.sessions = d.sessions /\ e.mfa = d.mfa /\ e.codes = d.codes
      /\ e.challenges = f /\ e.creds = d.creds /\ e.seq = d.seq
  BY DatabaseRecord DEF IsRecord, Columns
<1>3. IsDatabase(e)
  <2>1. Fits(d, e.seq)
    BY <1>1, <1>2, TablesGrow
  <2>2. Fits(e, e.seq)
    BY <1>1, <1>2, <2>1 DEF Fits
  <2> QED BY <1>1, <1>2, <2>2, MakesDatabase
<1> QED BY <1>1, <1>2, <1>3 DEF Kept, UsersKept, SessionsKept, MfaKept, CodesKept,
    ChallengesKept,
           CredsKept

\* A database that differs in its passkeys: fewer, counted or a fresh one.
LEMMA CredsChange ==
    ASSUME NEW d, IsDatabase(d), NEW e, NEW f, NEW n \in {d.seq, d.seq + 1},
           e = [d EXCEPT !.creds = f, !.seq = n],
           IsTable(f, 0..(n - 1), CredRows),
           \A i \in DOMAIN f : \/ i \in DOMAIN d.creds /\ Same(f[i], d.creds[i])
                               \/ Fresh(f[i])
    PROVE  Kept(d, e)
<1>1. d.seq \in Nat /\ n \in Nat /\ d.seq <= n /\ d.seq \notin Given(d) /\ Given(d) = 0..(d.seq - 1)
      /\ Kept(d, d)
  BY DatabaseFacts, NothingDone DEF Given
<1>2. /\ IsRecord(e)
      /\ e.users = d.users /\ e.sessions = d.sessions /\ e.mfa = d.mfa /\ e.codes = d.codes
      /\ e.challenges = d.challenges /\ e.creds = f /\ e.seq = n
  BY DatabaseRecord DEF IsRecord, Columns
<1>3. IsDatabase(e)
  <2>1. Fits(d, e.seq)
    BY <1>1, <1>2, TablesGrow
  <2>2. Fits(e, e.seq)
    BY <1>1, <1>2, <2>1 DEF Fits
  <2> QED BY <1>1, <1>2, <2>2, MakesDatabase
<1> QED BY <1>1, <1>2, <1>3 DEF Kept, UsersKept, SessionsKept, MfaKept, CodesKept,
    ChallengesKept,
           CredsKept

\* The statements on API tokens touch nothing else.
LEMMA TokensChange ==
    ASSUME NEW d, IsDatabase(d), NEW e, NEW f, NEW n \in {d.seq, d.seq + 1},
           e = [d EXCEPT !.tokens = f, !.seq = n]
    PROVE  Kept(d, e)
<1>1. d.seq \in Nat /\ n \in Nat /\ d.seq <= n /\ Kept(d, d)
  BY DatabaseFacts, NothingDone
<1>2. /\ IsRecord(e)
      /\ e.users = d.users /\ e.sessions = d.sessions /\ e.mfa = d.mfa /\ e.codes = d.codes
      /\ e.challenges = d.challenges /\ e.creds = d.creds /\ e.seq = n
  BY DatabaseRecord DEF IsRecord, Columns
<1>3. IsDatabase(e)
  <2>1. Fits(d, e.seq)
    BY <1>1, <1>2, TablesGrow
  <2>2. Fits(e, e.seq)
    BY <1>1, <1>2, <2>1 DEF Fits
  <2> QED BY <1>1, <1>2, <2>2, MakesDatabase
<1> QED BY <1>1, <1>2, <1>3 DEF Kept, UsersKept, SessionsKept, MfaKept, CodesKept,
    ChallengesKept,
           CredsKept

\* With the id left as it is, a change is to one table.
LEMMA SeqStays ==
    ASSUME NEW d, IsDatabase(d), NEW f
    PROVE  /\ [d EXCEPT !.codes = f, !.seq = d.seq] = [d EXCEPT !.codes = f]
           /\ [d EXCEPT !.creds = f, !.seq = d.seq] = [d EXCEPT !.creds = f]
           /\ [d EXCEPT !.tokens = f, !.seq = d.seq] = [d EXCEPT !.tokens = f]
BY DatabaseRecord DEF IsRecord, Columns

\* enable and advance_totp_step.
LEMMA MfaStatements ==
    ASSUME NEW d, IsDatabase(d), NEW u
    PROVE  /\ Kept(d, enable(d, u))
           /\ \A n \in Nat : Kept(d, advance_totp_step(d, u, n).db)
           /\ \A n \in Nat : advance_totp_step(d, u, n).ok =>
                 /\ u \in DOMAIN d.mfa /\ d.mfa[u].step < n
                 /\ u \in DOMAIN advance_totp_step(d, u, n).db.mfa
                 /\ advance_totp_step(d, u, n).db.mfa[u].step = n
<1>1. IsTable(d.mfa, Users, MfaRows) /\ Kept(d, d) /\ d.seq \in Nat
      /\ \A x \in DOMAIN d.mfa : d.mfa[x].user = x /\ d.mfa[x].secret \in 0..(d.seq - 1)
  BY DatabaseFacts, NothingDone DEF Given
<1>2. ASSUME NEW v \in MfaRows, u \in DOMAIN d.mfa, Same(v, d.mfa[u]), v.secret = d.mfa[u].secret,
             v.step >= d.mfa[u].step
      PROVE  Kept(d, [d EXCEPT !.mfa = [d.mfa EXCEPT ![u] = v]])
  <2>1. PICK f : f = [d.mfa EXCEPT ![u] = v]
    OBVIOUS
  <2>2. /\ IsTable(f, Users, MfaRows) /\ DOMAIN f = DOMAIN d.mfa /\ f[u] = v
        /\ \A x \in DOMAIN d.mfa \ {u} : f[x] = d.mfa[x]
    BY <1>1, <1>2, <2>1, RowTable
  <2>3. PICK e : e = [d EXCEPT !.mfa = f]
    OBVIOUS
  <2>4. \A x \in DOMAIN f : d.mfa[x].step \in Nat
    BY <1>1, <2>2 DEF IsTable, MfaRows
  <2>5. Kept(d, e)
    <3>1. \A x \in DOMAIN f : f[x].user = x /\ f[x].secret \in 0..(d.seq - 1)
      BY <1>1, <1>2, <2>2 DEF Same
    <3>2. \A x \in DOMAIN f : /\ x \in DOMAIN d.mfa /\ Same(f[x], d.mfa[x])
                              /\ f[x].secret = d.mfa[x].secret /\ f[x].step >= d.mfa[x].step
      BY <1>2, <2>2, <2>4 DEF Same
    <3> QED BY <2>2, <2>3, <3>1, <3>2, MfaChange
  <2> QED BY <2>1, <2>3, <2>5
<1>3. Kept(d, enable(d, u))
  <2>1. CASE u \notin DOMAIN d.mfa
    BY <2>1, <1>1 DEF enable
  <2>2. CASE u \in DOMAIN d.mfa
    <3>1. PICK o \in MfaRows : o = d.mfa[u]
      BY <2>2, <1>1 DEF IsTable
    <3>2. PICK v : v = [o EXCEPT !.enabled = TRUE]
      OBVIOUS
    <3>3. v \in MfaRows /\ Same(v, o) /\ v.secret = o.secret /\ v.step >= o.step
      <4>1. v \in MfaRows /\ Same(v, o) /\ v.secret = o.secret /\ v.step = o.step
        BY <3>1, <3>2 DEF MfaRows, Same
      <4>2. o.step \in Nat
        BY <3>1 DEF MfaRows
      <4> QED BY <4>1, <4>2
    <3>4. enable(d, u) = [d EXCEPT !.mfa = [d.mfa EXCEPT ![u] = v]]
      BY <2>2, <3>1, <3>2 DEF enable
    <3> QED BY <1>2, <2>2, <3>1, <3>3, <3>4
  <2> QED BY <2>1, <2>2
<1>4. ASSUME NEW n \in Nat
      PROVE  /\ Kept(d, advance_totp_step(d, u, n).db)
             /\ advance_totp_step(d, u, n).ok =>
                 /\ u \in DOMAIN d.mfa /\ d.mfa[u].step < n
                 /\ u \in DOMAIN advance_totp_step(d, u, n).db.mfa
                 /\ advance_totp_step(d, u, n).db.mfa[u].step = n
  <2>1. CASE ~(u \in DOMAIN d.mfa /\ d.mfa[u].step < n)
    BY <2>1, <1>1 DEF advance_totp_step, Outcome
  <2>2. CASE u \in DOMAIN d.mfa /\ d.mfa[u].step < n
    <3>1. PICK o \in MfaRows : o = d.mfa[u]
      BY <2>2, <1>1 DEF IsTable
    <3>2. PICK v : v = [o EXCEPT !.step = n]
      OBVIOUS
    <3>3. v \in MfaRows /\ Same(v, o) /\ v.secret = o.secret /\ v.step >= o.step /\ v.step = n
      BY <2>2, <3>1, <3>2 DEF MfaRows, Same
    <3>4. PICK e : e = [d EXCEPT !.mfa = [d.mfa EXCEPT ![u] = v]]
      OBVIOUS
    <3>5. advance_totp_step(d, u, n) = Outcome(TRUE, e)
      BY <2>2, <3>1, <3>2, <3>4 DEF advance_totp_step
    <3>6. Kept(d, e)
      BY <1>2, <2>2, <3>1, <3>3, <3>4
    <3>7. u \in DOMAIN e.mfa /\ e.mfa[u] = v
      BY <2>2, <3>4, DatabaseRecord DEF IsRecord, Columns
    <3> QED BY <2>2, <3>3, <3>5, <3>6, <3>7 DEF Outcome
  <2> QED BY <2>1, <2>2
<1> QED BY <1>3, <1>4

\* replace_recovery_codes and mark_recovery_code_used.
LEMMA CodeStatements ==
    ASSUME NEW d, IsDatabase(d)
    PROVE  /\ \A u \in Users, z \in Stamps : Earned(u, z) => Kept(d, replace_recovery_codes(d, u, z))
           /\ \A id : Kept(d, mark_recovery_code_used(d, id).db)
           /\ \A id : mark_recovery_code_used(d, id).ok =>
                 /\ id \in DOMAIN d.codes /\ ~d.codes[id].used
                 /\ id \in DOMAIN mark_recovery_code_used(d, id).db.codes
                 /\ mark_recovery_code_used(d, id).db.codes[id].used
<1>1. IsTable(d.codes, Given(d), CodeRows) /\ Kept(d, d) /\ d.seq \in Nat /\ Given(d) = 0..(d.seq - 1)
  BY DatabaseFacts, NothingDone DEF Given
<1>2. ASSUME NEW u \in Users, NEW z \in Stamps, Earned(u, z)
      PROVE  Kept(d, replace_recovery_codes(d, u, z))
  <2>1. PICK v : v = [user |-> u, used |-> FALSE, stamp |-> z]
    OBVIOUS
  <2>2. v \in CodeRows /\ Fresh(v)
    BY <1>2, <2>1 DEF CodeRows, Fresh
  <2>3. PICK n \in Nat, k \in Nat : n = d.seq + 1 /\ k = d.seq /\ k \in 0..(n - 1)
    BY <1>1
  <2>4. PICK ks : ks = RowsOf(d.codes, u)
    OBVIOUS
  <2>5. PICK g : g = Without(d.codes, ks)
    OBVIOUS
  <2>6. /\ IsTable(g, Given(d), CodeRows) /\ DOMAIN g \subseteq DOMAIN d.codes
        /\ \A x \in DOMAIN g : g[x] = d.codes[x]
    <3>1. /\ IsTable(g, Given(d), CodeRows) /\ DOMAIN g = DOMAIN d.codes \ ks
          /\ \A x \in DOMAIN d.codes \ ks : g[x] = d.codes[x]
      BY <1>1, <2>5, WithoutTable, ZenonT(60)
    <3> QED BY <3>1
  <2>7. PICK f : f = Put(g, k, v)
    OBVIOUS
  <2>8. /\ IsTable(f, 0..(n - 1), CodeRows) /\ DOMAIN f = DOMAIN g \cup {k} /\ f[k] = v
        /\ \A x \in DOMAIN g \ {k} : f[x] = g[x]
    BY <1>1, <2>2, <2>3, <2>6, <2>7 DEF Put, IsTable
  <2>9. PICK e : e = [d EXCEPT !.codes = f, !.seq = n]
    BY SMTT(30)
  <2>10. Kept(d, e)
    <3>1. n \in {d.seq, d.seq + 1}
      BY <2>3
    <3>2. \A i \in DOMAIN f : \/ /\ i \in DOMAIN d.codes /\ Same(f[i], d.codes[i])
                                 /\ d.codes[i].used => f[i].used
                              \/ i = d.seq /\ Fresh(f[i])
      BY <2>2, <2>3, <2>6, <2>8 DEF Same
    <3> QED BY <2>8, <2>9, <3>1, <3>2, CodesChange
  <2> QED BY <2>1, <2>3, <2>4, <2>5, <2>7, <2>9, <2>10 DEF replace_recovery_codes
<1>3. ASSUME NEW id
      PROVE  /\ Kept(d, mark_recovery_code_used(d, id).db)
             /\ mark_recovery_code_used(d, id).ok =>
                 /\ id \in DOMAIN d.codes /\ ~d.codes[id].used
                 /\ id \in DOMAIN mark_recovery_code_used(d, id).db.codes
                 /\ mark_recovery_code_used(d, id).db.codes[id].used
  <2>1. CASE ~(id \in DOMAIN d.codes /\ ~d.codes[id].used)
    BY <2>1, <1>1 DEF mark_recovery_code_used, Outcome
  <2>2. CASE id \in DOMAIN d.codes /\ ~d.codes[id].used
    <3>1. PICK o \in CodeRows : o = d.codes[id]
      BY <2>2, <1>1 DEF IsTable
    <3>2. PICK v : v = [o EXCEPT !.used = TRUE]
      OBVIOUS
    <3>3. v \in CodeRows /\ Same(v, o) /\ v.used = TRUE
      BY <3>1, <3>2 DEF CodeRows, Same
    <3>4. PICK f : f = [d.codes EXCEPT ![id] = v]
      OBVIOUS
    <3>5. /\ IsTable(f, Given(d), CodeRows) /\ DOMAIN f = DOMAIN d.codes /\ f[id] = v
          /\ \A x \in DOMAIN d.codes \ {id} : f[x] = d.codes[x]
      BY <1>1, <2>2, <3>3, <3>4, RowTable
    <3>6. PICK e : e = [d EXCEPT !.codes = f, !.seq = d.seq]
      OBVIOUS
    <3>7. Kept(d, e)
      <4>1. d.seq \in {d.seq, d.seq + 1} /\ IsTable(f, 0..(d.seq - 1), CodeRows)
        BY <1>1, <3>5
      <4>2. \A i \in DOMAIN f : \/ /\ i \in DOMAIN d.codes /\ Same(f[i], d.codes[i])
                                   /\ d.codes[i].used => f[i].used
                                \/ i = d.seq /\ Fresh(f[i])
        BY <3>1, <3>3, <3>5, SMTT(30) DEF Same
      <4> QED BY <3>6, <4>1, <4>2, CodesChange
    <3>8. e = [d EXCEPT !.codes = f] /\ e.codes = f
      BY <3>6, SeqStays, DatabaseRecord DEF IsRecord, Columns
    <3>9. mark_recovery_code_used(d, id) = Outcome(TRUE, e)
      BY <2>2, <3>1, <3>2, <3>4, <3>8 DEF mark_recovery_code_used
    <3>10. mark_recovery_code_used(d, id).db = e
      BY <3>9 DEF Outcome
    <3>11. id \in DOMAIN e.codes /\ e.codes[id].used
      BY <2>2, <3>3, <3>5, <3>8
    <3> QED BY <2>2, <3>7, <3>10, <3>11
  <2> QED BY <2>1, <2>2
<1> QED BY <1>2, <1>3

\* delete_challenge: the row goes, and who removed it is told so.
LEMMA ChallengeStatements ==
    ASSUME NEW d, IsDatabase(d), NEW k
    PROVE  /\ Kept(d, delete_challenge(d, k).db)
           /\ delete_challenge(d, k).ok <=> k \in DOMAIN d.challenges
           /\ k \notin DOMAIN delete_challenge(d, k).db.challenges
<1>1. IsTable(d.challenges, Given(d), ChallengeRows) /\ Given(d) = 0..(d.seq - 1)
  BY DatabaseFacts DEF Given
<1>2. PICK f : f = Without(d.challenges, {k})
  OBVIOUS
<1>3. /\ IsTable(f, Given(d), ChallengeRows) /\ DOMAIN f = DOMAIN d.challenges \ {k}
      /\ \A x \in DOMAIN d.challenges \ {k} : f[x] = d.challenges[x]
  <2>1. PICK ks : ks = {k}
    OBVIOUS
  <2> QED BY <1>1, <1>2, <2>1, WithoutTable
<1>4. PICK e : e = [d EXCEPT !.challenges = f]
  OBVIOUS
<1>5. Kept(d, e)
  <2>1. \A x \in DOMAIN f : x \in DOMAIN d.challenges /\ Same(f[x], d.challenges[x])
    BY <1>3 DEF Same
  <2> QED BY <1>1, <1>3, <1>4, <2>1, ChallengesChange
<1>6. e.challenges = f
  BY <1>4, DatabaseRecord DEF IsRecord, Columns
<1>7. delete_challenge(d, k) = Outcome(k \in DOMAIN d.challenges, e)
  BY <1>2, <1>4 DEF delete_challenge
<1>8. delete_challenge(d, k).db = e
  BY <1>7 DEF Outcome
<1>9. delete_challenge(d, k).ok = (k \in DOMAIN d.challenges)
  BY <1>7 DEF Outcome
<1>10. k \notin DOMAIN e.challenges
  BY <1>3, <1>6
<1> QED BY <1>5, <1>8, <1>9, <1>10

\* add_credential, update_credential and delete_credential.
LEMMA CredentialStatements ==
    ASSUME NEW d, IsDatabase(d)
    PROVE  /\ \A u \in Users, z \in Stamps : Earned(u, z) => Kept(d, add_credential(d, u, z))
           /\ \A id : \A n \in Nat : Kept(d, update_credential(d, id, n).db)
           /\ \A id, u : Kept(d, delete_credential(d, id, u).db)
<1>1. IsTable(d.creds, Given(d), CredRows) /\ Kept(d, d) /\ d.seq \in Nat /\ Given(d) = 0..(d.seq - 1)
  BY DatabaseFacts, NothingDone DEF Given
<1>2. ASSUME NEW u \in Users, NEW z \in Stamps, Earned(u, z)
      PROVE  Kept(d, add_credential(d, u, z))
  <2>1. PICK v : v = [user |-> u, count |-> 0, stamp |-> z]
    OBVIOUS
  <2>2. v \in CredRows /\ Fresh(v)
    BY <1>2, <2>1 DEF CredRows, Fresh
  <2>3. PICK n \in Nat, k \in Nat : n = d.seq + 1 /\ k = d.seq /\ k \in 0..(n - 1)
    BY <1>1
  <2>4. PICK f : f = Put(d.creds, k, v)
    OBVIOUS
  <2>5. /\ IsTable(f, 0..(n - 1), CredRows) /\ DOMAIN f = DOMAIN d.creds \cup {k} /\ f[k] = v
        /\ \A x \in DOMAIN d.creds \ {k} : f[x] = d.creds[x]
    BY <1>1, <2>2, <2>3, <2>4, SMTT(30) DEF Put, IsTable
  <2>6. PICK e : e = [d EXCEPT !.creds = f, !.seq = n]
    OBVIOUS
  <2>7. Kept(d, e)
    <3>1. n \in {d.seq, d.seq + 1}
      BY <2>3
    <3>2. \A i \in DOMAIN f : \/ i \in DOMAIN d.creds /\ Same(f[i], d.creds[i])
                              \/ Fresh(f[i])
      BY <2>2, <2>5, SMTT(30) DEF Same
    <3> QED BY <2>5, <2>6, <3>1, <3>2, CredsChange
  <2> QED BY <2>1, <2>3, <2>4, <2>6, <2>7 DEF add_credential
<1>3. ASSUME NEW f, IsTable(f, Given(d), CredRows),
             \A i \in DOMAIN f : i \in DOMAIN d.creds /\ Same(f[i], d.creds[i])
      PROVE  Kept(d, [d EXCEPT !.creds = f])
  <2>1. PICK e : e = [d EXCEPT !.creds = f, !.seq = d.seq]
    OBVIOUS
  <2>2. d.seq \in {d.seq, d.seq + 1} /\ IsTable(f, 0..(d.seq - 1), CredRows)
    BY <1>1, <1>3
  <2>3. \A i \in DOMAIN f : \/ i \in DOMAIN d.creds /\ Same(f[i], d.creds[i])
                            \/ Fresh(f[i])
    BY <1>3, SMTT(30)
  <2>4. Kept(d, e)
    BY <2>1, <2>2, <2>3, CredsChange
  <2> QED BY <2>1, <2>4, SeqStays
<1>4. ASSUME NEW id, NEW n \in Nat
      PROVE  Kept(d, update_credential(d, id, n).db)
  <2>1. CASE update_credential(d, id, n).db = d
    BY <2>1, <1>1
  <2>2. CASE update_credential(d, id, n).db # d
    <3>1. /\ id \in DOMAIN d.creds
          /\ update_credential(d, id, n).db = [d EXCEPT !.creds[id].count = n]
      BY <2>2 DEF update_credential, Outcome
    <3>2. PICK o \in CredRows : o = d.creds[id]
      BY <3>1, <1>1 DEF IsTable
    <3>3. PICK v : v = [o EXCEPT !.count = n]
      OBVIOUS
    <3>4. v \in CredRows /\ Same(v, o)
      BY <3>2, <3>3 DEF CredRows, Same
    <3>5. PICK f : f = [d.creds EXCEPT ![id] = v]
      OBVIOUS
    <3>6. /\ IsTable(f, Given(d), CredRows) /\ DOMAIN f = DOMAIN d.creds /\ f[id] = v
          /\ \A x \in DOMAIN d.creds \ {id} : f[x] = d.creds[x]
      BY <1>1, <3>1, <3>4, <3>5, RowTable
    <3>7. Kept(d, [d EXCEPT !.creds = f])
      BY <1>3, <3>2, <3>4, <3>6 DEF Same
    <3> QED BY <3>1, <3>2, <3>3, <3>5, <3>7
  <2> QED BY <2>1, <2>2
<1>5. ASSUME NEW id, NEW u
      PROVE  Kept(d, delete_credential(d, id, u).db)
  <2>1. PICK ks : ks = {id} \cap RowsOf(d.creds, u)
    OBVIOUS
  <2>2. PICK f : f = Without(d.creds, ks)
    OBVIOUS
  <2>3. /\ IsTable(f, Given(d), CredRows) /\ DOMAIN f = DOMAIN d.creds \ ks
        /\ \A x \in DOMAIN d.creds \ ks : f[x] = d.creds[x]
    BY <1>1, <2>2, WithoutTable
  <2>4. Kept(d, [d EXCEPT !.creds = f])
    BY <1>3, <2>3 DEF Same
  <2> QED BY <2>1, <2>2, <2>4 DEF delete_credential, Outcome
<1> QED BY <1>2, <1>4, <1>5

\* The statements on API tokens.
LEMMA TokenStatements ==
    ASSUME NEW d, IsDatabase(d)
    PROVE  /\ \A name, hash : Kept(d, create_token_row(d, name, hash).db)
           /\ \A id, name, hash : Kept(d, update_token_row(d, id, name, hash).db)
           /\ \A id : Kept(d, delete_token_row(d, id).db)
           /\ \A id : Kept(d, update_last_used(d, id))
<1>1. Kept(d, d)
  BY NothingDone, SMTT(30)
<1>2. ASSUME NEW f PROVE Kept(d, [d EXCEPT !.tokens = f]) /\ Kept(d, [d EXCEPT !.tokens = f, !.seq = d.seq + 1])
  <2>1. PICK e : e = [d EXCEPT !.tokens = f, !.seq = d.seq]
    OBVIOUS
  <2>2. PICK g, n : g = [d EXCEPT !.tokens = f, !.seq = n] /\ n = d.seq + 1
    OBVIOUS
  <2>3. Kept(d, e) /\ Kept(d, g)
    <3>1. d.seq \in {d.seq, d.seq + 1} /\ n \in {d.seq, d.seq + 1}
      BY <2>2
    <3> QED BY <2>1, <2>2, <3>1, TokensChange
  <2> QED BY <2>1, <2>2, <2>3, SeqStays
<1>3. \A name, hash : Kept(d, create_token_row(d, name, hash).db)
  BY <1>1, <1>2 DEF create_token_row, Outcome
<1>4. ASSUME NEW id, NEW name, NEW hash PROVE Kept(d, update_token_row(d, id, name, hash).db)
  <2>1. CASE update_token_row(d, id, name, hash).db = d
    BY <2>1, <1>1
  <2>2. CASE update_token_row(d, id, name, hash).db # d
    <3>1. PICK f : update_token_row(d, id, name, hash).db = [d EXCEPT !.tokens = f]
      <4>1. update_token_row(d, id, name, hash).db =
                [d EXCEPT !.tokens[id].name = name, !.tokens[id].hash = IF hash = "" THEN @ ELSE hash]
        BY <2>2 DEF update_token_row, Outcome
      <4>2. PICK f : f = [d.tokens EXCEPT ![id].name = name, ![id].hash = IF hash = "" THEN @ ELSE hash]
        OBVIOUS
      <4> QED BY <4>1, <4>2, DatabaseRecord DEF IsRecord, Columns
    <3> QED BY <3>1, <1>2
  <2> QED BY <2>1, <2>2
<1>5. \A id : Kept(d, delete_token_row(d, id).db)
  BY <1>2 DEF delete_token_row, Outcome
<1>6. ASSUME NEW id PROVE Kept(d, update_last_used(d, id))
  <2>1. PICK f : f = [d.tokens EXCEPT ![id].used = TRUE]
    OBVIOUS
  <2>2. update_last_used(d, id) \in {d, [d EXCEPT !.tokens = f]}
    BY <2>1 DEF update_last_used
  <2> QED BY <2>2, <1>1, <1>2
<1> QED BY <1>3, <1>4, <1>5, <1>6


\* Rows of a table are as they were, or are fresh.
RowsStay(f, g) == \A x \in DOMAIN g : (x \in DOMAIN f /\ Same(g[x], f[x])) \/ Fresh(g[x])
OwnedStay(d, e) ==
    /\ RowsStay(d.sessions, e.sessions) /\ RowsStay(d.mfa, e.mfa) /\ RowsStay(d.codes, e.codes)
    /\ RowsStay(d.creds, e.creds) /\ RowsStay(d.challenges, e.challenges)

\* A secret is replaced by a new one only, and its step goes up.
SecretsKept(d, e) ==
    \A u \in DOMAIN e.mfa :
        \/ /\ u \in DOMAIN d.mfa /\ e.mfa[u].secret = d.mfa[u].secret
           /\ e.mfa[u].step >= d.mfa[u].step
        \/ e.mfa[u].secret \notin Given(d)

\* What every statement leaves as it was.
Stays(d, e) ==
    /\ IsDatabase(e) /\ UsersKept(d, e) /\ OwnedStay(d, e)
    /\ SecretsKept(d, e) /\ CodesKept(d, e)

\* A statement that adds no row but recovery codes, users and passkeys is one of them.
LEMMA KeptStays ==
    ASSUME NEW d, NEW e, Kept(d, e)
    PROVE  Stays(d, e)
BY DEF Kept, Stays, SessionsKept, MfaKept, CodesKept, ChallengesKept, CredsKept, OwnedStay,
    RowsStay, SecretsKept

\* SessionRepository::create.
LEMMA SessionAdded ==
    ASSUME NEW d, IsDatabase(d), NEW v \in SessionRows, Fresh(v), NEW e, e = create_session(d, v)
    PROVE  Stays(d, e) /\ e.challenges = d.challenges /\ e.mfa = d.mfa /\ e.seq = d.seq + 1
<1>1. d.seq \in Nat /\ Kept(d, d) /\ IsTable(d.sessions, Given(d), SessionRows) /\ Given(d) = 0..(d.seq - 1)
  BY DatabaseFacts, NothingDone DEF Given
<1>2. PICK n \in Nat, k \in Nat : n = d.seq + 1 /\ k = d.seq /\ k \in 0..(n - 1) /\ d.seq <= n
  BY <1>1
<1>3. PICK f : f = Put(d.sessions, k, v)
  OBVIOUS
<1>4. /\ IsTable(f, 0..(n - 1), SessionRows) /\ DOMAIN f = DOMAIN d.sessions \cup {k} /\ f[k] = v
      /\ \A x \in DOMAIN d.sessions \ {k} : f[x] = d.sessions[x]
  BY <1>1, <1>2, <1>3 DEF Put, IsTable
<1>5. e = [d EXCEPT !.sessions = f, !.seq = n]
  BY <1>2, <1>3 DEF create_session
<1>6. /\ IsRecord(e)
      /\ e.users = d.users /\ e.sessions = f /\ e.mfa = d.mfa /\ e.codes = d.codes
      /\ e.challenges = d.challenges /\ e.creds = d.creds /\ e.seq = n
  BY <1>5, DatabaseRecord DEF IsRecord, Columns
<1>7. IsDatabase(e)
  <2>1. Fits(d, e.seq)
    BY <1>2, <1>6, TablesGrow
  <2>2. Fits(e, e.seq)
    BY <1>4, <1>6, <2>1 DEF Fits
  <2> QED BY <1>6, <2>2, MakesDatabase
<1>8. Stays(d, d)
  BY <1>1, KeptStays
<1>9. RowsStay(d.sessions, e.sessions)
  BY <1>4, <1>6 DEF RowsStay, Same
<1>10. UsersKept(d, e)
  BY <1>2, <1>6, <1>8 DEF Stays, UsersKept
<1> QED BY <1>2, <1>6, <1>7, <1>8, <1>9, <1>10 DEF Stays, OwnedStay, SecretsKept, CodesKept

\* upsert_secret.
LEMMA SecretAdded ==
    ASSUME NEW d, IsDatabase(d), NEW u \in Users, NEW z \in Stamps, Earned(u, z),
           NEW e, e = upsert_secret(d, u, z)
    PROVE  /\ Stays(d, e) /\ e.challenges = d.challenges /\ e.sessions = d.sessions
           /\ \A x \in DOMAIN e.mfa : x # u => x \in DOMAIN d.mfa /\ e.mfa[x].secret = d.mfa[x].secret
<1>1. /\ d.seq \in Nat /\ Kept(d, d) /\ IsTable(d.mfa, Users, MfaRows) /\ Given(d) = 0..(d.seq - 1)
      /\ \A x \in DOMAIN d.mfa : d.mfa[x].user = x /\ d.mfa[x].secret \in Given(d)
  BY DatabaseFacts, NothingDone DEF Given
<1>2. PICK n \in Nat, k \in Nat :
          n = d.seq + 1 /\ k = d.seq /\ k \in 0..(n - 1) /\ d.seq <= n /\ k \notin Given(d)
  <2>1. d.seq \notin 0..(d.seq - 1)
    BY <1>1
  <2>2. d.seq \notin Given(d)
    BY <1>1, <2>1
  <2>3. d.seq + 1 \in Nat /\ d.seq \in 0..((d.seq + 1) - 1) /\ d.seq <= d.seq + 1
    BY <1>1
  <2> QED BY <1>1, <2>2, <2>3
<1>3. PICK v : v = [user |-> u, secret |-> k, enabled |-> FALSE, step |-> 0, stamp |-> z]
  OBVIOUS
<1>4. v \in MfaRows /\ Fresh(v) /\ v.user = u /\ v.secret = k
  BY <1>2, <1>3 DEF MfaRows, Fresh
<1>5. PICK f : f = Put(d.mfa, u, v)
  OBVIOUS
<1>6. /\ IsTable(f, Users, MfaRows) /\ DOMAIN f = DOMAIN d.mfa \cup {u} /\ f[u] = v
      /\ \A x \in DOMAIN d.mfa \ {u} : f[x] = d.mfa[x]
  BY <1>1, <1>4, <1>5 DEF Put, IsTable
<1>7. e = [d EXCEPT !.mfa = f, !.seq = n]
  BY <1>2, <1>3, <1>5 DEF upsert_secret
<1>8. /\ IsRecord(e)
      /\ e.users = d.users /\ e.sessions = d.sessions /\ e.mfa = f /\ e.codes = d.codes
      /\ e.challenges = d.challenges /\ e.creds = d.creds /\ e.seq = n
  BY <1>7, DatabaseRecord DEF IsRecord, Columns
<1>9. IsDatabase(e)
  <2>1. Fits(d, e.seq)
    BY <1>2, <1>8, TablesGrow
  <2>2. \A x \in DOMAIN f : f[x].user = x /\ f[x].secret \in 0..(n - 1)
    BY <1>1, <1>2, <1>4, <1>6, SMTT(30)
  <2>3. Fits(e, e.seq)
    BY <1>6, <1>8, <2>1, <2>2 DEF Fits
  <2> QED BY <1>8, <2>3, MakesDatabase
<1>10. Stays(d, d)
  BY <1>1, KeptStays
<1>11. RowsStay(d.mfa, e.mfa)
  BY <1>4, <1>6, <1>8 DEF RowsStay, Same
<1>12. UsersKept(d, e)
  BY <1>2, <1>8, <1>10 DEF Stays, UsersKept
<1>13. SecretsKept(d, e)
  <2>1. \A x \in DOMAIN d.mfa : d.mfa[x].step >= d.mfa[x].step
    BY <1>1 DEF IsTable, MfaRows
  <2> QED BY <1>2, <1>4, <1>6, <1>8, <2>1 DEF SecretsKept
<1>14. \A x \in DOMAIN e.mfa : x # u => x \in DOMAIN d.mfa /\ e.mfa[x].secret = d.mfa[x].secret
  BY <1>6, <1>8
<1> QED BY <1>8, <1>9, <1>10, <1>11, <1>12, <1>13, <1>14 DEF Stays, OwnedStay, CodesKept

\* create_challenge, for the state of a ceremony that has the next number.
LEMMA ChallengeAdded ==
    ASSUME NEW d, IsDatabase(d), NEW v \in ChallengeRows, Fresh(v), NEW k \in 0..d.seq,
           NEW e, e = create_challenge([d EXCEPT !.seq = @ + 1], k, v)
    PROVE  /\ Stays(d, e) /\ e.sessions = d.sessions /\ e.mfa = d.mfa
           /\ DOMAIN e.challenges = DOMAIN d.challenges \cup {k} /\ e.seq = d.seq + 1
<1>1. /\ d.seq \in Nat /\ Kept(d, d) /\ IsTable(d.challenges, Given(d), ChallengeRows)
      /\ Given(d) = 0..(d.seq - 1)
  BY DatabaseFacts, NothingDone DEF Given
<1>2. PICK n \in Nat : n = d.seq + 1 /\ k \in 0..(n - 1) /\ d.seq <= n
  <2>1. d.seq + 1 \in Nat /\ (d.seq + 1) - 1 = d.seq /\ d.seq <= d.seq + 1
    BY <1>1
  <2> QED BY <2>1
<1>3. PICK f : f = Put(d.challenges, k, v)
  OBVIOUS
<1>4. /\ IsTable(f, 0..(n - 1), ChallengeRows) /\ DOMAIN f = DOMAIN d.challenges \cup {k} /\ f[k] = v
      /\ \A x \in DOMAIN d.challenges \ {k} : f[x] = d.challenges[x]
  BY <1>1, <1>2, <1>3 DEF Put, IsTable
<1>5. e = [d EXCEPT !.seq = n, !.challenges = f]
  BY <1>2, <1>3, DatabaseRecord DEF create_challenge, IsRecord, Columns
<1>6. /\ IsRecord(e)
      /\ e.users = d.users /\ e.sessions = d.sessions /\ e.mfa = d.mfa /\ e.codes = d.codes
      /\ e.challenges = f /\ e.creds = d.creds /\ e.seq = n
  BY <1>5, DatabaseRecord DEF IsRecord, Columns
<1>7. IsDatabase(e)
  <2>1. Fits(d, e.seq)
    BY <1>2, <1>6, TablesGrow
  <2>2. Fits(e, e.seq)
    BY <1>4, <1>6, <2>1 DEF Fits
  <2> QED BY <1>6, <2>2, MakesDatabase
<1>8. Stays(d, d)
  BY <1>1, KeptStays
<1>9. RowsStay(d.challenges, e.challenges)
  BY <1>4, <1>6 DEF RowsStay, Same
<1>10. UsersKept(d, e)
  BY <1>2, <1>6, <1>8 DEF Stays, UsersKept
<1> QED BY <1>2, <1>4, <1>6, <1>7, <1>8, <1>9, <1>10 DEF Stays, OwnedStay, SecretsKept,
    CodesKept

\* delete_all and delete_user_row: rows go, and with the user every row of theirs.
LEMMA UserDeleted ==
    ASSUME NEW d, IsDatabase(d)
    PROVE  /\ \A u : Kept(d, delete_all(d, u))
           /\ \A id : Kept(d, delete_user_row(d, id).db)
           /\ \A id \in DOMAIN d.users :
                 LET e == delete_user_row(d, id).db
                 IN  \A row \in Owned(e) : row.user # d.users[id].user
<1>1. /\ d.seq \in Nat /\ Kept(d, d) /\ Given(d) = 0..(d.seq - 1) /\ Fits(d, d.seq)
      /\ IsTable(d.users, Given(d), UserRows) /\ IsTable(d.sessions, Given(d), SessionRows)
      /\ IsTable(d.mfa, Users, MfaRows) /\ IsTable(d.codes, Given(d), CodeRows)
      /\ IsTable(d.challenges, Given(d), ChallengeRows) /\ IsTable(d.creds, Given(d), CredRows)
  <2>1. d.seq \in Nat /\ d.seq <= d.seq
    BY DatabaseFacts
  <2> QED BY <2>1, DatabaseFacts, NothingDone, TablesGrow DEF Given
<1>2. \A x \in DOMAIN d.mfa : d.mfa[x].user = x /\ d.mfa[x].secret \in 0..(d.seq - 1) /\ d.mfa[x].step \in Nat
  <2>1. \A x \in DOMAIN d.mfa : d.mfa[x].user = x /\ d.mfa[x].secret \in 0..(d.seq - 1)
    BY <1>1, DatabaseFacts
  <2> QED BY <1>1, <2>1 DEF IsTable, MfaRows
<1>3. ASSUME NEW ku, NEW ks, NEW km, NEW ko, NEW kc, NEW kr, NEW e, IsRecord(e), e.seq = d.seq,
             e.users = Without(d.users, ku), e.sessions = Without(d.sessions, ks),
             e.mfa = Without(d.mfa, km), e.codes = Without(d.codes, ko),
             e.challenges = Without(d.challenges, kc), e.creds = Without(d.creds, kr)
      PROVE  /\ Kept(d, e)
             /\ \A row \in Owned(e) :
                   \/ \E x \in DOMAIN d.sessions \ ks : row = d.sessions[x]
                   \/ \E x \in DOMAIN d.mfa \ km : row = d.mfa[x]
                   \/ \E x \in DOMAIN d.codes \ ko : row = d.codes[x]
                   \/ \E x \in DOMAIN d.challenges \ kc : row = d.challenges[x]
                   \/ \E x \in DOMAIN d.creds \ kr : row = d.creds[x]
  <2>2. /\ IsTable(e.users, Given(d), UserRows) /\ DOMAIN e.users = DOMAIN d.users \ ku
        /\ \A x \in DOMAIN d.users \ ku : e.users[x] = d.users[x]
    <3>1. IsTable(d.users, Given(d), UserRows) /\ e.users = Without(d.users, ku)
      BY <1>1, <1>3
    <3> QED BY <3>1 DEF Without, Restrict, IsTable
  <2>3. /\ IsTable(e.sessions, Given(d), SessionRows) /\ DOMAIN e.sessions = DOMAIN d.sessions \ ks
        /\ \A x \in DOMAIN d.sessions \ ks : e.sessions[x] = d.sessions[x]
    <3>1. IsTable(d.sessions, Given(d), SessionRows) /\ e.sessions = Without(d.sessions, ks)
      BY <1>1, <1>3
    <3> QED BY <3>1 DEF Without, Restrict, IsTable
  <2>4. /\ IsTable(e.mfa, Users, MfaRows) /\ DOMAIN e.mfa = DOMAIN d.mfa \ km
        /\ \A x \in DOMAIN d.mfa \ km : e.mfa[x] = d.mfa[x]
    <3>1. IsTable(d.mfa, Users, MfaRows) /\ e.mfa = Without(d.mfa, km)
      BY <1>1, <1>3
    <3> QED BY <3>1 DEF Without, Restrict, IsTable
  <2>5. /\ IsTable(e.codes, Given(d), CodeRows) /\ DOMAIN e.codes = DOMAIN d.codes \ ko
        /\ \A x \in DOMAIN d.codes \ ko : e.codes[x] = d.codes[x]
    <3>1. IsTable(d.codes, Given(d), CodeRows) /\ e.codes = Without(d.codes, ko)
      BY <1>1, <1>3
    <3> QED BY <3>1 DEF Without, Restrict, IsTable
  <2>6. /\ IsTable(e.challenges, Given(d), ChallengeRows) /\ DOMAIN e.challenges = DOMAIN d.challenges \ kc
        /\ \A x \in DOMAIN d.challenges \ kc : e.challenges[x] = d.challenges[x]
    <3>1. IsTable(d.challenges, Given(d), ChallengeRows) /\ e.challenges = Without(d.challenges, kc)
      BY <1>1, <1>3
    <3> QED BY <3>1 DEF Without, Restrict, IsTable
  <2>7. /\ IsTable(e.creds, Given(d), CredRows) /\ DOMAIN e.creds = DOMAIN d.creds \ kr
        /\ \A x \in DOMAIN d.creds \ kr : e.creds[x] = d.creds[x]
    <3>1. IsTable(d.creds, Given(d), CredRows) /\ e.creds = Without(d.creds, kr)
      BY <1>1, <1>3
    <3> QED BY <3>1 DEF Without, Restrict, IsTable
  <2>8. IsDatabase(e)
    <3>1. \A x \in DOMAIN e.mfa : e.mfa[x].user = x /\ e.mfa[x].secret \in 0..(d.seq - 1)
      BY <1>2, <2>4
    <3>2. Fits(e, e.seq)
      BY <1>1, <1>3, <2>2, <2>3, <2>4, <2>5, <2>6, <2>7, <3>1 DEF Fits
    <3> QED BY <1>1, <1>3, <3>2, MakesDatabase
  <2>9. UsersKept(d, e) /\ SessionsKept(d, e)
    BY <1>1, <1>3, <2>2, <2>3 DEF UsersKept, SessionsKept, Same
  <2>10. MfaKept(d, e)
    BY <1>2, <2>4 DEF MfaKept, Same
  <2>11. CodesKept(d, e) /\ ChallengesKept(d, e) /\ CredsKept(d, e)
    BY <2>5, <2>6, <2>7 DEF CodesKept, ChallengesKept, CredsKept, Same
  <2>12. \A row \in Owned(e) :
                   \/ \E x \in DOMAIN d.sessions \ ks : row = d.sessions[x]
                   \/ \E x \in DOMAIN d.mfa \ km : row = d.mfa[x]
                   \/ \E x \in DOMAIN d.codes \ ko : row = d.codes[x]
                   \/ \E x \in DOMAIN d.challenges \ kc : row = d.challenges[x]
                   \/ \E x \in DOMAIN d.creds \ kr : row = d.creds[x]
    BY <2>3, <2>4, <2>5, <2>6, <2>7 DEF Owned, Range
  <2> QED BY <2>8, <2>9, <2>10, <2>11, <2>12 DEF Kept
<1>4. /\ Without(d.users, {}) = d.users /\ Without(d.sessions, {}) = d.sessions
  BY <1>1 DEF Without, Restrict, IsTable
<1>6. ASSUME NEW u, NEW e, e = delete_all(d, u)
      PROVE  /\ IsRecord(e) /\ e.seq = d.seq /\ e.users = d.users /\ e.sessions = d.sessions
             /\ e.mfa = Without(d.mfa, {u}) /\ e.codes = Without(d.codes, RowsOf(d.codes, u))
             /\ e.challenges = Without(d.challenges, RowsOf(d.challenges, u))
             /\ e.creds = Without(d.creds, RowsOf(d.creds, u))
  <2>1. PICK m, o, c, r :
            /\ m = Without(d.mfa, {u}) /\ o = Without(d.codes, RowsOf(d.codes, u))
            /\ c = Without(d.challenges, RowsOf(d.challenges, u)) /\ r = Without(d.creds, RowsOf(d.creds, u))
    OBVIOUS
  <2>2. e = [d EXCEPT !.mfa = m, !.codes = o, !.creds = r, !.challenges = c]
    BY <1>6, <2>1 DEF delete_all
  <2>3. /\ IsRecord(e) /\ e.seq = d.seq /\ e.users = d.users /\ e.sessions = d.sessions
        /\ e.mfa = m /\ e.codes = o /\ e.challenges = c /\ e.creds = r
    BY <2>2, DatabaseRecord DEF IsRecord, Columns
  <2> QED BY <2>1, <2>3
<1>7. ASSUME NEW u PROVE Kept(d, delete_all(d, u))
  <2>1. PICK e : e = delete_all(d, u)
    OBVIOUS
  <2>2. PICK none, km, ko, kc, kr :
            /\ none = {} /\ km = {u} /\ ko = RowsOf(d.codes, u) /\ kc = RowsOf(d.challenges, u)
            /\ kr = RowsOf(d.creds, u)
    OBVIOUS
  <2>3. /\ IsRecord(e) /\ e.seq = d.seq
        /\ e.users = Without(d.users, none) /\ e.sessions = Without(d.sessions, none)
        /\ e.mfa = Without(d.mfa, km) /\ e.codes = Without(d.codes, ko)
        /\ e.challenges = Without(d.challenges, kc) /\ e.creds = Without(d.creds, kr)
    BY <1>4, <1>6, <2>1, <2>2
  <2>4. Kept(d, e)
    BY <1>3, <2>3
  <2> QED BY <2>1, <2>4
<1>8. ASSUME NEW id \in DOMAIN d.users
      PROVE  /\ Kept(d, delete_user_row(d, id).db)
             /\ \A row \in Owned(delete_user_row(d, id).db) : row.user # d.users[id].user
  <2>1. PICK u : u = d.users[id].user
    OBVIOUS
  <2>2. PICK e : e = delete_user_row(d, id).db
    OBVIOUS
  <2>3. e = [delete_all(d, u) EXCEPT !.users = Without(@, {id}), !.sessions = Without(@, RowsOf(@, u))]
    BY <2>1, <2>2 DEF delete_user_row, Outcome
  <2>4. /\ IsRecord(e) /\ e.seq = d.seq
        /\ e.users = Without(d.users, {id}) /\ e.sessions = Without(d.sessions, RowsOf(d.sessions, u))
        /\ e.mfa = Without(d.mfa, {u}) /\ e.codes = Without(d.codes, RowsOf(d.codes, u))
        /\ e.challenges = Without(d.challenges, RowsOf(d.challenges, u))
        /\ e.creds = Without(d.creds, RowsOf(d.creds, u))
    <3>1. PICK g, f, h : g = delete_all(d, u) /\ f = Without(d.users, {id})
                         /\ h = Without(d.sessions, RowsOf(d.sessions, u))
      OBVIOUS
    <3>2. /\ IsRecord(g) /\ g.seq = d.seq /\ g.users = d.users /\ g.sessions = d.sessions
          /\ g.mfa = Without(d.mfa, {u}) /\ g.codes = Without(d.codes, RowsOf(d.codes, u))
          /\ g.challenges = Without(d.challenges, RowsOf(d.challenges, u))
          /\ g.creds = Without(d.creds, RowsOf(d.creds, u))
      BY <1>6, <3>1
    <3>3. e = [g EXCEPT !.users = f, !.sessions = h]
      BY <2>3, <3>1, <3>2
    <3>4. /\ IsRecord(e) /\ e.seq = g.seq /\ e.users = f /\ e.sessions = h
          /\ e.mfa = g.mfa /\ e.codes = g.codes /\ e.challenges = g.challenges /\ e.creds = g.creds
      BY <3>2, <3>3 DEF IsRecord, Columns
    <3> QED BY <3>1, <3>2, <3>4
  <2>5. Kept(d, e)
    BY <1>3, <2>4
  <2>6. \A row \in Owned(e) :
                   \/ \E x \in DOMAIN d.sessions \ RowsOf(d.sessions, u) : row = d.sessions[x]
                   \/ \E x \in DOMAIN d.mfa \ {u} : row = d.mfa[x]
                   \/ \E x \in DOMAIN d.codes \ RowsOf(d.codes, u) : row = d.codes[x]
                   \/ \E x \in DOMAIN d.challenges \ RowsOf(d.challenges, u) : row = d.challenges[x]
                   \/ \E x \in DOMAIN d.creds \ RowsOf(d.creds, u) : row = d.creds[x]
    BY <1>3, <2>4
  <2>7. \A row \in Owned(e) : row.user # u
    BY <1>2, <2>6 DEF RowsOf
  <2> QED BY <2>1, <2>2, <2>5, <2>7
<1>9. ASSUME NEW id, id \notin DOMAIN d.users PROVE Kept(d, delete_user_row(d, id).db)
  BY <1>1, <1>9 DEF delete_user_row, Outcome
<1> QED BY <1>7, <1>8, <1>9

(***************************************************************************)
(* One task moves.  Which parts of the invariant its step can disturb      *)
(* depends on what the task holds before and after it.                     *)
(***************************************************************************)

Checking(x) == x.op = "VerifyMfa" /\ x.at = "totp"
Writing(x) == x.op \in {"ChangePassword", "SetupPassword"} /\ x.at = "provider"
Revoking(x) == x.op = "ChangePassword" /\ x.at = "revoke"

Moves(c, x) ==
    /\ DOMAIN task' = Clients /\ task'[c] = x
    /\ \A d \in Clients \ {c} : task'[d] = task[d]

\* What a request carries stays right while others change the tables.
LEMMA StillTyped ==
    ASSUME NEW d, NEW e, NEW x, IsDatabase(d), IsDatabase(e), UsersKept(d, e), TaskTyped(x, d)
    PROVE  TaskTyped(x, e)
<1>1. d.seq \in Nat /\ e.seq \in Nat /\ d.seq <= e.seq
  BY DatabaseFacts DEF UsersKept
<1>2. PICK m, n : m = 0..(d.seq - 1) /\ n = 0..(e.seq - 1)
  OBVIOUS
<1>3. m \subseteq n /\ m = Given(d) /\ n = Given(e)
  BY <1>1, <1>2 DEF Given
<1>4. VerifyTyped(x, e.seq) /\ PasskeyTyped(x, e.seq)
  BY <1>2, <1>3 DEF TaskTyped, VerifyTyped, PasskeyTyped
<1>5. UserTyped(x, e)
  BY <1>3 DEF TaskTyped, UserTyped, UsersKept
<1> QED BY <1>4, <1>5 DEF TaskTyped

\* Types, after a step of task c.
LEMMA TypedStep ==
    ASSUME Typed, NEW c \in Clients, NEW x, Moves(c, x), Stays(db, db'), TaskTyped(x, db'),
           now' = now, WindowsTyped', HistoryTyped'
    PROVE  Typed'
<1>1. IsDatabase(db) /\ IsDatabase(db') /\ UsersKept(db, db')
  BY DEF Typed, Stays
<1>2. \A d \in Clients : TaskTyped(task'[d], db')
  <2>1. SUFFICES ASSUME NEW d \in Clients \ {c} PROVE TaskTyped(task'[d], db')
    BY DEF Moves
  <2>2. TaskTyped(task[d], db) /\ task'[d] = task[d]
    BY <2>1 DEF Typed, Moves
  <2> QED BY <1>1, <2>2, StillTyped
<1> QED BY <1>1, <1>2 DEF Typed, Moves

Bearers == bearer \in [Clients -> Nat]
Grows == Bearers /\ leaked \subseteq leaked'

\* What a row is stamped with is well formed.
LEMMA StampTyped ==
    ASSUME Typed, Bearers, NEW c \in Clients, NEW u
    PROVE  Stamp(c, u) \in Stamps
BY DEF Typed, HistoryTyped, Stamp, Stamps, Bearers

\* A request that inserts a row speaks for the user as it is, or the leak is noted.
LEMMA Earns ==
    ASSUME Typed, Bearers, NEW c \in Clients, Descends(c), <<task[c].op, task[c].at>> \in Inserts
    PROVE  Earned(task[c].user, Stamp(c, task[c].user))
<1>1. task[c] # Idle
  BY DEF Inserts, Idle
<1>2. ASSUME task[c].user \in Users, bearer[c] # life[task[c].user] PROVE task[c].user \in leaked'
  BY <1>1, <1>2 DEF Descends, Leaks
<1> QED BY <1>2 DEF Earned, Stamp

\* The same, with the stamp.
LEMMA Speaks ==
    ASSUME AuthInv, Grows, NEW c \in Clients, Descends(c), NEW op, NEW at, At(c, op, at),
           <<op, at>> \in Inserts, NEW u, u = task[c].user
    PROVE  Stamp(c, u) \in Stamps /\ Earned(u, Stamp(c, u))
<1>1. Typed /\ Bearers
  BY DEF AuthInv, Grows
<1>2. <<task[c].op, task[c].at>> \in Inserts
  BY DEF At
<1> QED BY <1>1, <1>2, StampTyped, Earns

\* Rows are still of users as they are.
LEMMA RowsStep ==
    ASSUME Typed, NothingOutlivesUser, Stays(db, db'), leaked \subseteq leaked',
           \A row \in Owned(db') : row.user \in Users => life'[row.user] = life[row.user]
    PROVE  NothingOutlivesUser'
<1>1. OwnedStay(db, db')
  BY DEF Stays
<1>2. ASSUME NEW row \in Owned(db') PROVE Fresh(row) \/ \E o \in Owned(db) : Same(row, o)
  BY <1>1 DEF OwnedStay, RowsStay, Owned, Range
<1>3. ASSUME NEW row \in Owned(db'), row.user \in Users, row.user \notin leaked'
      PROVE  row.stamp.life = life[row.user]
  <2>1. CASE Fresh(row)
    BY <1>3, <2>1 DEF Fresh, Earned
  <2>2. CASE \E o \in Owned(db) : Same(row, o)
    BY <1>3, <2>2 DEF NothingOutlivesUser, Same
  <2> QED BY <1>2, <2>1, <2>2
<1> QED BY <1>3 DEF NothingOutlivesUser

\* Challenges, when the task takes none and puts back at most one it has taken.
LEMMA TokensStep ==
    ASSUME Typed, TokensOnce, NEW c \in Clients, NEW x, Moves(c, x), ~TakesToken(x),
           spent' = spent, Stays(db, db'),
           \A k \in DOMAIN db'.challenges :
               k \in DOMAIN db.challenges \/ k \notin Given(db) \/ Holds(task[c], k)
    PROVE  TokensOnce'
<1>1. Given(db) \subseteq Given(db')
  <2>1. db.seq \in Nat /\ db'.seq \in Nat /\ db.seq <= db'.seq
    BY DatabaseFacts DEF Typed, Stays, UsersKept
  <2> QED BY <2>1 DEF Given
<1>2. ASSUME NEW d \in Clients, NEW k, Holds(task'[d], k)
      PROVE  /\ k \notin DOMAIN db'.challenges /\ ChallengeSpent(k)' = {}
             /\ \A f \in Clients : Holds(task'[f], k) => f = d
  <2>1. d # c /\ Holds(task[d], k)
    BY <1>2 DEF Moves, Holds
  <2>2. k \in Given(db)
    BY <2>1 DEF Typed, TaskTyped, VerifyTyped, PasskeyTyped, Holds, TakesToken, Given
  <2>3. /\ k \notin DOMAIN db.challenges /\ ChallengeSpent(k) = {}
        /\ \A f \in Clients : Holds(task[f], k) => f = d
    BY <2>1 DEF TokensOnce
  <2>4. \A f \in Clients : Holds(task'[f], k) => f # c /\ Holds(task[f], k)
    BY DEF Moves, Holds
  <2>5. ChallengeSpent(k)' = ChallengeSpent(k)
    BY DEF ChallengeSpent
  <2> QED BY <2>1, <2>2, <2>3, <2>4, <2>5
<1>3. ASSUME NEW e \in spent, e.proof[1] = "challenge"
      PROVE  e.proof[3] \in Given(db') /\ e.proof[3] \notin DOMAIN db'.challenges
  <2>1. e.proof[3] \in Given(db) /\ e.proof[3] \notin DOMAIN db.challenges
    BY <1>3 DEF TokensOnce
  <2>2. ~Holds(task[c], e.proof[3])
    BY <1>3 DEF TokensOnce, ChallengeSpent
  <2> QED BY <1>1, <2>1, <2>2
<1>4. \A e, f \in spent : e.proof[1] = "challenge" /\ f.proof[1] = "challenge"
                           /\ e.proof[3] = f.proof[3] => e.session = f.session
  BY DEF TokensOnce
<1> QED BY <1>2, <1>3, <1>4 DEF TokensOnce

\* A code that has been accepted stays so.
LEMMA AcceptedStays ==
    ASSUME Typed, Stays(db, db'), NEW p, Accepted(p)
    PROVE  Accepted(p)'
<1>1. Given(db) \subseteq Given(db')
  <2>1. db.seq \in Nat /\ db'.seq \in Nat /\ db.seq <= db'.seq
    BY DatabaseFacts DEF Typed, Stays, UsersKept
  <2> QED BY <2>1 DEF Given
<1>2. CASE p[1] = "code" /\ p[3] \in Given(db) /\ (p[3] \in DOMAIN db.codes => db.codes[p[3]].used)
  <2>1. p[3] \in DOMAIN db'.codes => db'.codes[p[3]].used
    BY <1>2 DEF Stays, CodesKept
  <2> QED BY <1>1, <1>2, <2>1 DEF Accepted
<1>3. CASE /\ p[1] = "totp" /\ p[3] \in Given(db) /\ p[4] \in Nat
           /\ p[2] \in DOMAIN db.mfa /\ db.mfa[p[2]].secret = p[3] => db.mfa[p[2]].step >= p[4]
  <2>1. ASSUME p[2] \in DOMAIN db'.mfa, db'.mfa[p[2]].secret = p[3]
        PROVE  db'.mfa[p[2]].step >= p[4]
    <3>1. /\ p[2] \in DOMAIN db.mfa /\ db'.mfa[p[2]].secret = db.mfa[p[2]].secret
          /\ db'.mfa[p[2]].step >= db.mfa[p[2]].step
      BY <1>3, <2>1 DEF Stays, SecretsKept
    <3>2. db.mfa[p[2]].step >= p[4]
      BY <1>3, <2>1, <3>1
    <3>3. db.mfa[p[2]].step \in Nat /\ db'.mfa[p[2]].step \in Nat
      BY <2>1, <3>1, DatabaseFacts DEF Typed, Stays, IsTable, MfaRows
    <3> QED BY <1>3, <3>1, <3>2, <3>3
  <2> QED BY <1>1, <1>3, <2>1 DEF Accepted
<1> QED BY <1>2, <1>3 DEF Accepted

\* Codes, when the task has no proof but the one it had.
LEMMA CodesStep ==
    ASSUME Typed, CodesOnce, NEW c \in Clients, NEW x, Moves(c, x), Stays(db, db'),
           spent' = spent, muddled \subseteq muddled',
           Proves(x) => Proves(task[c]) /\ x.proof = task[c].proof /\ x.user = task[c].user
    PROVE  CodesOnce'
<1>1. \A d \in Clients : Proves(task'[d]) =>
          Proves(task[d]) /\ task'[d].proof = task[d].proof /\ task'[d].user = task[d].user
  BY DEF Moves
<1>2. ASSUME NEW d \in Clients, Proves(task'[d])
      PROVE  /\ Accepted(task[d].proof)' /\ task'[d].proof[2] = task'[d].user
             /\ task'[d].user \notin muddled' =>
                   /\ \A e \in spent' : e.proof # task'[d].proof
                   /\ \A f \in Clients : Proves(task'[f]) /\ task'[f].proof = task'[d].proof => f = d
  <2>1. Accepted(task[d].proof) /\ task[d].proof[2] = task[d].user
    BY <1>1, <1>2 DEF CodesOnce
  <2>2. PICK q : q = task[d].proof /\ q = task'[d].proof
    BY <1>1, <1>2
  <2>3. Accepted(q)'
    BY <2>1, <2>2, AcceptedStays
  <2>4. task'[d].user \notin muddled' =>
            /\ \A e \in spent : e.proof # q
            /\ \A f \in Clients : Proves(task[f]) /\ task[f].proof = q => f = d
    BY <1>1, <1>2, <2>2 DEF CodesOnce
  <2> QED BY <1>1, <1>2, <2>1, <2>2, <2>3, <2>4
<1>3. ASSUME NEW e \in spent', e.proof[1] # "challenge"
      PROVE  Accepted(e.proof)'
  <2>1. Accepted(e.proof)
    BY <1>3 DEF CodesOnce
  <2> QED BY <2>1, AcceptedStays
<1>4. \A e, f \in spent' : e.proof[1] # "challenge" /\ e.proof = f.proof
                           /\ e.proof[2] \notin muddled' => e.session = f.session
  BY DEF CodesOnce
<1> QED BY <1>2, <1>3, <1>4 DEF CodesOnce

\* Secrets, when one that is being checked against is replaced only if that is noted.
LEMMA SecretsStep ==
    ASSUME SecretsStay, NEW c \in Clients, NEW x, Moves(c, x), muddled \subseteq muddled',
           Checking(x) /\ x.user \in DOMAIN db'.mfa => db'.mfa[x.user].secret = x.row.secret,
           \A u \in DOMAIN db'.mfa :
               \/ u \in DOMAIN db.mfa /\ db'.mfa[u].secret = db.mfa[u].secret
               \/ u \in muddled' \/ \A d \in Clients : ~(Checking(task[d]) /\ task[d].user = u)
    PROVE  SecretsStay'
<1>1. ASSUME NEW d \in Clients, Checking(task'[d]), task'[d].user \notin muddled',
             task'[d].user \in DOMAIN db'.mfa
      PROVE  db'.mfa[task'[d].user].secret = task'[d].row.secret
  <2>1. CASE d = c
    BY <1>1, <2>1 DEF Moves
  <2>2. CASE d # c
    <3>1. task'[d] = task[d]
      BY <2>2 DEF Moves
    <3> QED BY <1>1, <3>1 DEF SecretsStay, At, Checking
  <2> QED BY <2>1, <2>2
<1> QED BY <1>1 DEF SecretsStay, At, Checking

\* Changes of password, when the task is not ending sessions.
LEMMA EndsStep ==
    ASSUME Typed, ChangesEnd, NEW c \in Clients, NEW x, Moves(c, x), ~Revoking(task[c]), Stays(db, db'),
           ver' = ver, kept' = kept, lost \subseteq lost'
    PROVE  ChangesEnd'
<1>1. RowsStay(db.sessions, db'.sessions)
  BY DEF Stays, OwnedStay
<1>2. ASSUME NEW u \in Users, Ended(u) PROVE Ended(u)'
  <2>1. ASSUME NEW s \in DOMAIN db'.sessions, db'.sessions[s].user = u
        PROVE  db'.sessions[s].stamp.ver = ver[u] \/ s = kept[u]
    <3>1. CASE Fresh(db'.sessions[s])
      BY <2>1, <3>1 DEF Fresh, Earned
    <3>2. CASE s \in DOMAIN db.sessions /\ Same(db'.sessions[s], db.sessions[s])
      BY <1>2, <2>1, <3>2 DEF Ended, Same
    <3> QED BY <1>1, <3>1, <3>2 DEF RowsStay
  <2> QED BY <2>1 DEF Ended
<1>3. ASSUME NEW u \in Users, NEW d \in Clients, Revoking(task[d]), task[d].user = u, task[d].sid = kept[u]
      PROVE  Revoking(task'[d]) /\ task'[d].user = u /\ task'[d].sid = kept'[u]
  BY <1>3 DEF Moves
<1> QED BY <1>2, <1>3 DEF ChangesEnd, At, Revoking

\* The admin's password, when the task is not between its two copies.
LEMMA AdminStep ==
    ASSUME AdminFollows, NEW c \in Clients, NEW x, Moves(c, x), ~Writing(task[c]), ~Writing(x),
           config' = config, provider' = provider, crossed => crossed'
    PROVE  AdminFollows'
<1>1. AdminWriters = {d \in Clients : Writing(task[d])} /\ AdminWriters' = {d \in Clients : Writing(task'[d])}
  BY DEF AdminWriters, Writing
<1>2. AdminWriters' = AdminWriters
  BY <1>1 DEF Moves
<1>3. \A d \in AdminWriters : task'[d] = task[d]
  BY <1>1 DEF Moves
<1> QED BY <1>2, <1>3 DEF AdminFollows

\* Who may fail, counted.
LEMMA Counted ==
    ASSUME NEW p, NEW S, S \subseteq Behaves(p)
    PROVE  /\ IsFiniteSet(S) /\ Cardinality(S) \in Nat
           /\ IsFiniteSet(Behaves(p)) /\ Cardinality(Behaves(p)) \in Nat
           /\ Cardinality(S) <= Cardinality(Behaves(p))
           /\ S # Behaves(p) => Cardinality(S) < Cardinality(Behaves(p))
<1>1. IsFiniteSet(Behaves(p))
  BY AuthAssumption, FS_Subset DEF Behaves
<1> QED BY <1>1, FS_Subset, FS_CardinalityType

\* Windows, when none is written: they are dropped, a task passes the check or stops being able to fail.
LEMMA WindowsStep ==
    ASSUME Typed, FailuresBounded, WindowsBounded, NEW c \in Clients, NEW x, Moves(c, x), now' = now,
           DOMAIN windows' \subseteq DOMAIN windows,
           \A p \in DOMAIN windows' : windows'[p] = windows[p],
           MayFail(x) => MayFail(task[c]) \/ check_at(Peer[c])
    PROVE  FailuresBounded' /\ WindowsBounded'
<1>1. FailuresBounded'
  BY DEF FailuresBounded
<1>2. ASSUME NEW p \in DOMAIN windows', Open(p)', windows'[p].failures >= MaxFailures
      PROVE  windows'[p].failures + Cardinality(InFlight(p)') < MaxFailures + Cardinality(Behaves(p))
  <2>1. p \in DOMAIN windows /\ Open(p) /\ windows'[p] = windows[p] /\ windows[p].failures >= MaxFailures
    BY <1>2 DEF Open
  <2>2. windows[p].failures + Cardinality(InFlight(p)) < MaxFailures + Cardinality(Behaves(p))
    BY <2>1 DEF WindowsBounded
  <2>3. InFlight(p)' \subseteq InFlight(p)
    <3>1. MaxFailures # 0 /\ MaxFailures \in Nat /\ windows[p].failures \in Nat
      BY <2>1, AuthAssumption DEF WindowsBounded, Typed, WindowsTyped, Windows
    <3>2. p = Peer[c] => ~check_at(Peer[c])
      BY <2>1, <3>1 DEF check_at
    <3>3. ASSUME NEW d \in Behaves(p), MayFail(task'[d]) PROVE MayFail(task[d])
      BY <3>2, <3>3 DEF Moves, Behaves
    <3> QED BY <3>3 DEF InFlight
  <2>4. /\ Cardinality(InFlight(p)') \in Nat /\ Cardinality(InFlight(p)) \in Nat
        /\ Cardinality(InFlight(p)') <= Cardinality(InFlight(p)) /\ Cardinality(Behaves(p)) \in Nat
    <3>1. InFlight(p) \subseteq Behaves(p)
      BY DEF InFlight
    <3>2. IsFiniteSet(InFlight(p)) /\ Cardinality(Behaves(p)) \in Nat
      BY <3>1, Counted
    <3> QED BY <2>3, <3>2, FS_Subset, FS_CardinalityType
  <2>5. windows[p].failures \in Nat /\ MaxFailures \in Nat
    BY <2>1, AuthAssumption DEF Typed, WindowsTyped, Windows
  <2> QED BY <2>1, <2>2, <2>4, <2>5
<1>3. MaxFailures = 0 => DOMAIN windows' = {}
  BY DEF WindowsBounded
<1> QED BY <1>1, <1>2, <1>3 DEF WindowsBounded, Behaves

\* A request that holds nothing the invariant speaks of.
Quiet(x) == ~TakesToken(x) /\ ~Proves(x) /\ ~Checking(x) /\ ~Writing(x)
Still == UNCHANGED <<now, memory, history>> /\ Grows

\* A step after which the task is quiet, apart from the windows.
LEMMA QuietStep ==
    ASSUME AuthInv, NEW c \in Clients, NEW x, task' = [task EXCEPT ![c] = x], Stays(db, db'),
           \A k \in DOMAIN db'.challenges :
               k \in DOMAIN db.challenges \/ k \notin Given(db) \/ Holds(task[c], k),
           \A u \in DOMAIN db'.mfa : u \in DOMAIN db.mfa /\ db'.mfa[u].secret = db.mfa[u].secret,
           TaskTyped(x, db'), Quiet(x), ~Writing(task[c]), ~Revoking(task[c]),
           Still, spent' = spent, WindowsTyped', FailuresBounded', WindowsBounded'
    PROVE  AuthInv'
<1>1. Typed /\ NothingOutlivesUser /\ TokensOnce /\ CodesOnce /\ SecretsStay /\ ChangesEnd /\ AdminFollows
  BY DEF AuthInv
<1>2. Moves(c, x)
  BY <1>1 DEF Typed, Moves
<1>3. /\ now' = now /\ config' = config /\ provider' = provider /\ life' = life /\ ver' = ver
      /\ kept' = kept /\ muddled' = muddled /\ crossed' = crossed /\ lost' = lost
      /\ leaked \subseteq leaked'
  BY DEF Still, Grows, memory, history
<1>4. HistoryTyped'
  BY <1>1, <1>3 DEF Typed, HistoryTyped
<1>5. Typed'
  BY <1>1, <1>2, <1>3, <1>4, TypedStep
<1>6. NothingOutlivesUser'
  BY <1>1, <1>3, RowsStep
<1>7. TokensOnce'
  BY <1>1, <1>2, TokensStep DEF Quiet
<1>8. CodesOnce'
  BY <1>1, <1>2, <1>3, CodesStep DEF Quiet
<1>9. SecretsStay'
  BY <1>1, <1>2, <1>3, SecretsStep DEF Quiet
<1>10. ChangesEnd'
  BY <1>1, <1>2, <1>3, EndsStep
<1>11. AdminFollows'
  BY <1>1, <1>2, <1>3, AdminStep DEF Quiet
<1> QED BY <1>5, <1>6, <1>7, <1>8, <1>9, <1>10, <1>11 DEF AuthInv

\* A step that adds no challenge, secret or session, and that the limiter lets through.
LEMMA PlainStep ==
    ASSUME AuthInv, NEW c \in Clients, NEW x, task' = [task EXCEPT ![c] = x], Kept(db, db'),
           TaskTyped(x, db), Quiet(x), MayFail(x) => MayFail(task[c]) \/ check_at(Peer[c]),
           ~Writing(task[c]), ~Revoking(task[c]), Still, spent' = spent, windows' = windows
    PROVE  AuthInv'
<1>1. Typed /\ FailuresBounded /\ WindowsBounded /\ now' = now
  BY DEF AuthInv, Still
<1>2. Stays(db, db') /\ IsDatabase(db) /\ IsDatabase(db') /\ UsersKept(db, db')
  BY <1>1, KeptStays DEF Kept, Typed
<1>3. TaskTyped(x, db')
  BY <1>2, StillTyped
<1>4. Moves(c, x)
  BY <1>1 DEF Typed, Moves
<1>5. FailuresBounded' /\ WindowsBounded'
  BY <1>1, <1>4, WindowsStep
<1>6. WindowsTyped'
  BY <1>1 DEF Typed, WindowsTyped
<1>7. \A k \in DOMAIN db'.challenges : k \in DOMAIN db.challenges
  BY DEF Kept, ChallengesKept
<1>8. \A u \in DOMAIN db'.mfa : u \in DOMAIN db.mfa /\ db'.mfa[u].secret = db.mfa[u].secret
  BY DEF Kept, MfaKept
<1> QED BY <1>2, <1>3, <1>5, <1>6, <1>7, <1>8, QuietStep

\* A client that has no request.
LEMMA IdleTask ==
    /\ \A d : TaskTyped(Idle, d)
    /\ Quiet(Idle) /\ ~MayFail(Idle) /\ ~Revoking(Idle) /\ Idle.op = "none"
BY DEF Idle, TaskTyped, LoginTyped, VerifyTyped, PasskeyTyped, SessionTyped, UserTyped, Has,
    Behind,
   Quiet, TakesToken, Proves, Checking, Writing, MayFail, Revoking

\* A request that is answered.
LEMMA RepliesStep ==
    ASSUME AuthInv, NEW c \in Clients, NEW e, Kept(db, e), Replies(c, e), Still,
           ~Writing(task[c]), ~Revoking(task[c])
    PROVE  AuthInv'
<1>1. /\ task' = [task EXCEPT ![c] = Idle] /\ db' = e /\ windows' = windows /\ spent' = spent
  BY DEF Replies
<1>2. Kept(db, db')
  BY <1>1
<1> QED BY <1>1, <1>2, IdleTask, PlainStep

\* A request that goes on, with nothing the invariant speaks of.
LEMMA GoesStep ==
    ASSUME AuthInv, NEW c \in Clients, NEW t, NEW e, NEW x, x = Over(t, task[c]),
           Kept(db, e), Goes(c, t, e), Still,
           TaskTyped(x, db), Quiet(x), MayFail(x) => MayFail(task[c]) \/ check_at(Peer[c]),
           ~Writing(task[c]), ~Revoking(task[c])
    PROVE  AuthInv'
<1>1. /\ task' = [task EXCEPT ![c] = x] /\ db' = e /\ windows' = windows /\ spent' = spent
  <2>1. task' = [task EXCEPT ![c] = Over(t, task[c])]
    BY DEF Goes
  <2> QED BY <2>1 DEF Goes
<1>2. Kept(db, db')
  BY <1>1
<1> QED BY <1>1, <1>2, PlainStep

\* A request that moves from one await to the next and carries what it carried.
LEMMA StageTyped ==
    ASSUME NEW y, NEW d, NEW t, NEW x, TaskTyped(y, d), y.op \notin {"none", "VerifyMfa", "DeleteUser"},
           "at" \in DOMAIN t, DOMAIN t \subseteq {"at", "totp", "id"}, x = Over(t, y),
           y.op \in {"ChangePassword", "SetupPassword"} => t.at # "provider",
           y.op = "ChangePassword" /\ t.at = "config" => y.user = Admin
    PROVE  TaskTyped(x, d) /\ x.op = y.op /\ x.at = t.at
<1>1. /\ \A f \in DOMAIN y : f \in DOMAIN x
      /\ \A f \in DOMAIN y : f \notin {"at", "totp", "id"} => x[f] = y[f]
      /\ x.at = t.at /\ "at" \in DOMAIN x
  BY DEF Over
<1>2. Has(y, {"op"}) /\ x.op = y.op /\ x.op # "none" /\ x # Idle
  BY <1>1 DEF TaskTyped, Has, Idle
<1>3. LoginTyped(x)
  BY <1>1, <1>2 DEF TaskTyped, LoginTyped, Has
<1>4. VerifyTyped(x, d.seq)
  BY <1>2 DEF VerifyTyped
<1>5. PasskeyTyped(x, d.seq)
  BY <1>1, <1>2 DEF TaskTyped, PasskeyTyped, Has
<1>6. SessionTyped(x)
  BY <1>1, <1>2 DEF TaskTyped, SessionTyped, Has, Behind, Carries
<1>7. UserTyped(x, d)
  <2>1. x.op = "ChangePassword" => Has(y, {"user"})
    BY <1>2 DEF TaskTyped, SessionTyped, Behind, Has
  <2> QED BY <1>1, <1>2, <2>1 DEF TaskTyped, UserTyped, Has
<1> QED BY <1>1, <1>2, <1>3, <1>4, <1>5, <1>6, <1>7 DEF TaskTyped, Has

\* Such a step, where nothing the invariant speaks of is taken up or given up.
LEMMA StageStep ==
    ASSUME AuthInv, NEW c \in Clients, NEW t, NEW e, Kept(db, e), Goes(c, t, e), Still,
           task[c].op \notin {"none", "VerifyMfa", "DeleteUser"},
           "at" \in DOMAIN t, DOMAIN t \subseteq {"at", "totp", "id"},
           t.at \notin {"provider", "verify", "create"},
           task[c].op \in {"authenticate", "discover"} => t.at # "session",
           task[c].op = "ChangePassword" /\ t.at = "config" => task[c].user = Admin,
           ~Writing(task[c]), ~Revoking(task[c])
    PROVE  AuthInv'
<1>1. PICK x : x = Over(t, task[c])
  OBVIOUS
<1>2. TaskTyped(task[c], db)
  BY DEF AuthInv, Typed
<1>3. TaskTyped(x, db) /\ x.op = task[c].op /\ x.at = t.at
  BY <1>1, <1>2, StageTyped
<1>4. Quiet(x) /\ ~MayFail(x)
  BY <1>3 DEF Quiet, TakesToken, Proves, Checking, Writing, MayFail
<1> QED BY <1>1, <1>3, <1>4, GoesStep

\* The limiter's count of a failure.
LEMMA FailsStep ==
    ASSUME AuthInv, NEW c \in Clients, Fails(c), Still, MayFail(task[c]) \/ check_at(Peer[c]),
           ~Writing(task[c]), ~Revoking(task[c])
    PROVE  AuthInv'
<1>1. /\ Typed /\ FailuresBounded /\ WindowsBounded /\ now' = now /\ now \in Nat
      /\ task' = [task EXCEPT ![c] = Idle] /\ db' = db /\ spent' = spent
  BY DEF AuthInv, Still, Fails, Typed
<1>2. Moves(c, Idle)
  BY <1>1 DEF Typed, Moves
<1>3. PICK p : p = Peer[c]
  OBVIOUS
<1>4. MaxFailures \in Nat /\ WindowTicks \in Nat
  BY AuthAssumption
<1>5. WindowsTyped' /\ FailuresBounded' /\ WindowsBounded'
  <2>1. CASE MaxFailures = 0
    <3>1. windows' = windows
      BY <2>1 DEF Fails, record_failure_at
    <3>2. WindowsTyped'
      BY <1>1, <3>1 DEF Typed, WindowsTyped
    <3>3. FailuresBounded' /\ WindowsBounded'
      BY <1>1, <1>2, <3>1, IdleTask, WindowsStep
    <3> QED BY <3>2, <3>3
  <2>2. CASE MaxFailures # 0
    <3>1. PICK w : w = IF Open(p) THEN [windows[p] EXCEPT !.failures = @ + 1]
                       ELSE [opened |-> now, failures |-> 1]
      OBVIOUS
    <3>2. windows' = Put(windows, p, w)
      BY <1>3, <2>2, <3>1 DEF Fails, record_failure_at
    <3>3. /\ DOMAIN windows' = DOMAIN windows \cup {p} /\ windows'[p] = w
          /\ \A q \in DOMAIN windows : q # p => windows'[q] = windows[q]
          /\ windows' = [q \in DOMAIN windows' |-> windows'[q]]
      BY <3>2 DEF Put
    <3>4. /\ Open(p) => /\ p \in DOMAIN windows /\ windows[p] \in Windows /\ w.opened = windows[p].opened
                        /\ w.failures = windows[p].failures + 1 /\ w \in Windows
          /\ ~Open(p) => w.opened = now /\ w.failures = 1 /\ w \in Windows
      <4>1. CASE Open(p)
        <5>1. p \in DOMAIN windows /\ windows[p] \in Windows
          BY <1>1, <4>1 DEF Open, Typed, WindowsTyped
        <5>2. w = [windows[p] EXCEPT !.failures = windows[p].failures + 1]
          BY <3>1, <4>1
        <5>3. PICK n \in Nat : n = windows[p].failures + 1
          BY <5>1 DEF Windows
        <5> QED BY <4>1, <5>1, <5>2, <5>3 DEF Windows
      <4>2. CASE ~Open(p)
        BY <1>1, <3>1, <4>2 DEF Windows
      <4> QED BY <4>1, <4>2
    <3>5. WindowsTyped'
      <4>1. windows' \in [DOMAIN windows' -> Windows]
        <5>1. \A q \in DOMAIN windows' : windows'[q] \in Windows
          BY <1>1, <3>3, <3>4 DEF Typed, WindowsTyped
        <5> QED BY <3>3, <5>1
      <4>2. \A q \in DOMAIN windows' : windows'[q].opened <= now
        BY <1>1, <3>3, <3>4 DEF Typed, WindowsTyped
      <4> QED BY <1>1, <4>1, <4>2 DEF WindowsTyped
    <3>6. /\ InFlight(p)' = InFlight(p) \ {c} /\ c \in Behaves(p)
          /\ \A q : q # p => InFlight(q)' = InFlight(q)
      BY <1>2, <1>3, IdleTask DEF InFlight, Behaves, Moves
    <3>7. PICK n, m, b : n = Cardinality(InFlight(p)) /\ m = Cardinality(InFlight(p)') /\ b = Cardinality(Behaves(p))
      OBVIOUS
    <3>8. n \in Nat /\ m \in Nat /\ b \in Nat /\ m < b /\ n <= b /\ (c \in InFlight(p) => m = n - 1)
      <4>1. InFlight(p) \subseteq Behaves(p) /\ InFlight(p) \ {c} \subseteq Behaves(p)
            /\ InFlight(p) \ {c} # Behaves(p)
        BY <3>6 DEF InFlight
      <4>2. IsFiniteSet(InFlight(p)) /\ n \in Nat /\ b \in Nat /\ n <= b
        BY <3>7, <4>1, Counted
      <4>3. m \in Nat /\ m < b
        <5>1. PICK S : S = InFlight(p) \ {c}
          OBVIOUS
        <5>2. S \subseteq Behaves(p) /\ S # Behaves(p) /\ m = Cardinality(S)
          BY <3>6, <3>7, <4>1, <5>1
        <5> QED BY <3>7, <5>2, Counted
      <4>4. c \in InFlight(p) => m = n - 1
        BY <3>6, <3>7, <4>2, FS_RemoveElement
      <4> QED BY <4>2, <4>3, <4>4
    <3>9. /\ w.failures >= MaxFailures => w.failures + m < MaxFailures + b
          /\ w.failures < MaxFailures + b
      <4>1. CASE ~Open(p)
        BY <1>4, <2>2, <3>4, <3>8, <4>1
      <4>2. CASE Open(p) /\ windows[p].failures < MaxFailures
        <5>1. windows[p].failures \in Nat
          BY <3>4, <4>2 DEF Windows
        <5> QED BY <1>4, <3>4, <3>8, <4>2, <5>1
      <4>3. CASE Open(p) /\ ~(windows[p].failures < MaxFailures)
        <5>1. windows[p].failures \in Nat /\ p \in DOMAIN windows
          BY <3>4, <4>3 DEF Windows
        <5>2. c \in InFlight(p)
          BY <1>3, <2>2, <3>6, <4>3 DEF check_at, InFlight
        <5>3. windows[p].failures + n < MaxFailures + b
          BY <1>1, <1>4, <3>7, <4>3, <5>1 DEF WindowsBounded
        <5> QED BY <1>4, <3>4, <3>8, <4>3, <5>1, <5>2, <5>3
      <4> QED BY <4>1, <4>2, <4>3
    <3>10. FailuresBounded'
      <4>1. \A q \in DOMAIN windows : windows[q].failures < MaxFailures + Cardinality(Behaves(q))
        BY <1>1 DEF FailuresBounded, Behaves
      <4>2. \A q \in DOMAIN windows' : windows'[q].failures < MaxFailures + Cardinality(Behaves(q))
        BY <3>3, <3>7, <3>9, <4>1
      <4> QED BY <4>2 DEF FailuresBounded, Behaves
    <3>11. ASSUME NEW q \in DOMAIN windows', Open(q)', windows'[q].failures >= MaxFailures
           PROVE  windows'[q].failures + Cardinality(InFlight(q)') < MaxFailures + Cardinality(Behaves(q))
      <4>1. CASE q = p
        BY <3>3, <3>7, <3>9, <3>11, <4>1
      <4>2. CASE q # p
        <5>1. q \in DOMAIN windows /\ windows'[q] = windows[q]
          BY <3>3, <4>2
        <5>2. Open(q)
          BY <1>1, <3>11, <5>1 DEF Open
        <5> QED BY <1>1, <3>6, <3>11, <4>2, <5>1, <5>2 DEF WindowsBounded
      <4> QED BY <4>1, <4>2
    <3> QED BY <2>2, <3>5, <3>10, <3>11 DEF WindowsBounded, Behaves
  <2> QED BY <2>1, <2>2
<1>6. Stays(db, db')
  BY <1>1, NothingDone, KeptStays DEF Typed
<1> QED BY <1>1, <1>5, <1>6, IdleTask, QuietStep

\* A challenge is written, under a new token or under the one the task has taken.
LEMMA ChallengeStep ==
    ASSUME AuthInv, NEW c \in Clients, NEW x, NEW v \in ChallengeRows, Fresh(v), NEW k,
           k = db.seq \/ Holds(task[c], k),
           task' = [task EXCEPT ![c] = x], db' = create_challenge([db EXCEPT !.seq = @ + 1], k, v),
           windows' = windows, spent' = spent, Still,
           TaskTyped(x, db'), Quiet(x), ~MayFail(x), ~Writing(task[c]), ~Revoking(task[c])
    PROVE  AuthInv'
<1>1. Typed /\ FailuresBounded /\ WindowsBounded /\ now' = now /\ IsDatabase(db) /\ db.seq \in Nat
  BY DatabaseFacts DEF AuthInv, Still, Typed
<1>2. Moves(c, x)
  BY <1>1 DEF Typed, Moves
<1>3. k \in 0..db.seq /\ db.seq \notin Given(db)
  <2>1. TaskTyped(task[c], db)
    BY <1>1 DEF Typed
  <2>2. Holds(task[c], k) => k \in 0..(db.seq - 1)
    BY <2>1 DEF TaskTyped, VerifyTyped, PasskeyTyped, Holds, TakesToken
  <2> QED BY <1>1, <2>2 DEF Given
<1>4. PICK d, e : d = db /\ e = db'
  OBVIOUS
<1>5. IsDatabase(d) /\ k \in 0..d.seq /\ e = create_challenge([d EXCEPT !.seq = @ + 1], k, v)
  BY <1>1, <1>3, <1>4
<1>6. /\ Stays(d, e) /\ e.mfa = d.mfa
      /\ DOMAIN e.challenges = DOMAIN d.challenges \cup {k} /\ e.seq = d.seq + 1
  BY <1>5, ChallengeAdded
<1>7. FailuresBounded' /\ WindowsBounded'
  BY <1>1, <1>2, WindowsStep
<1>8. WindowsTyped'
  BY <1>1 DEF Typed, WindowsTyped
<1> QED BY <1>3, <1>4, <1>6, <1>7, <1>8, QuietStep

\* A session is opened with the challenge and the code that the task holds, if it does.
LEMMA BuildStep ==
    ASSUME AuthInv, NEW c \in Clients, NEW u \in Users, NEW proofs, NEW resets,
           build_session(c, u, proofs, resets), Earned(u, Stamp(c, u)),
           task[c].remember \in BOOLEAN, Still, ~Writing(task[c]), ~Revoking(task[c]),
           \A q \in proofs : \/ q[1] = "challenge" /\ Holds(task[c], q[3])
                             \/ Proves(task[c]) /\ q = task[c].proof
    PROVE  AuthInv'
<1>1. /\ Typed /\ NothingOutlivesUser /\ FailuresBounded /\ WindowsBounded
      /\ TokensOnce /\ CodesOnce /\ SecretsStay /\ ChangesEnd /\ AdminFollows
  BY DEF AuthInv
<1>2. IsDatabase(db) /\ db.seq \in Nat /\ now \in Nat
  BY <1>1, DatabaseFacts DEF Typed
<1>3. /\ now' = now /\ config' = config /\ provider' = provider /\ life' = life /\ ver' = ver
      /\ kept' = kept /\ muddled' = muddled /\ crossed' = crossed /\ lost' = lost
      /\ leaked \subseteq leaked'
  BY DEF Still, Grows, memory, history
<1>4. task' = [task EXCEPT ![c] = Idle] /\ Moves(c, Idle)
  BY <1>1 DEF Typed, Moves, build_session
<1>5. Stays(db, db') /\ db'.challenges = db.challenges /\ db'.mfa = db.mfa /\ db'.seq = db.seq + 1
  <2>1. PICK v : v = [user |-> u, expires |-> now + SessionTtl, seen |-> now,
                      remember |-> task[c].remember, stamp |-> Stamp(c, u)]
    OBVIOUS
  <2>2. v \in SessionRows /\ Fresh(v)
    <3>1. now + SessionTtl \in Nat
      <4>1. SessionTtl \in Nat
        BY AuthAssumption
      <4> QED BY <1>2, <4>1
    <3>2. Stamp(c, u) \in Stamps
      BY <1>1, StampTyped DEF Still, Grows
    <3> QED BY <1>2, <2>1, <3>1, <3>2 DEF SessionRows, Fresh
  <2>3. PICK d, e : d = db /\ e = db'
    OBVIOUS
  <2>4. IsDatabase(d) /\ e = create_session(d, v)
    BY <1>2, <2>1, <2>3 DEF build_session
  <2>5. Stays(d, e) /\ e.challenges = d.challenges /\ e.mfa = d.mfa /\ e.seq = d.seq + 1
    BY <2>2, <2>4, SessionAdded
  <2> QED BY <2>3, <2>5
<1>6. /\ \A e \in spent' : e \in spent \/ \E q \in proofs : e.session = db.seq /\ e.proof = q
      /\ spent \subseteq spent'
  BY DEF build_session
<1>7. Proves(task[c]) =>
          /\ Accepted(task[c].proof) /\ task[c].proof[2] = task[c].user /\ task[c].proof[1] # "challenge"
          /\ task[c].user \notin muddled =>
                /\ \A e \in spent : e.proof # task[c].proof
                /\ \A d \in Clients : Proves(task[d]) /\ task[d].proof = task[c].proof => d = c
  BY <1>1 DEF CodesOnce, Accepted
<1>8. \A q \in proofs : q[1] = "challenge" =>
          Holds(task[c], q[3]) /\ ChallengeSpent(q[3]) = {} /\ q[3] \notin DOMAIN db.challenges
  BY <1>1, <1>7 DEF TokensOnce
<1>9. \A q \in proofs : q[1] # "challenge" => Proves(task[c]) /\ q = task[c].proof
  OBVIOUS
<1>10. Typed'
  <2>1. TaskTyped(Idle, db')
    BY IdleTask
  <2>2. HistoryTyped'
    BY <1>1, <1>3 DEF Typed, HistoryTyped
  <2>3. WindowsTyped'
    BY <1>1, <1>3 DEF Typed, WindowsTyped, build_session, Without, Restrict
  <2> QED BY <1>1, <1>3, <1>4, <1>5, <2>1, <2>2, <2>3, TypedStep
<1>11. NothingOutlivesUser'
  BY <1>1, <1>3, <1>5, RowsStep
<1>12. FailuresBounded' /\ WindowsBounded'
  <2>1. DOMAIN windows' \subseteq DOMAIN windows /\ \A q \in DOMAIN windows' : windows'[q] = windows[q]
    BY DEF build_session, Without, Restrict
  <2> QED BY <1>1, <1>3, <1>4, <2>1, IdleTask, WindowsStep
<1>13. TokensOnce'
  <2>1. Given(db) \subseteq Given(db')
    BY <1>2, <1>5 DEF Given
  <2>2. \A k : Holds(task[c], k) => k \in Given(db)
    <3>1. TaskTyped(task[c], db)
      BY <1>1 DEF Typed
    <3> QED BY <3>1 DEF TaskTyped, VerifyTyped, PasskeyTyped, Holds, TakesToken, Given
  <2>3. ASSUME NEW d \in Clients, NEW k, Holds(task'[d], k)
        PROVE  /\ k \notin DOMAIN db'.challenges /\ ChallengeSpent(k)' = {}
               /\ \A f \in Clients : Holds(task'[f], k) => f = d
    <3>1. \A f \in Clients : Holds(task'[f], k) => f # c /\ Holds(task[f], k)
      BY <1>4, IdleTask DEF Moves, Holds, Quiet
    <3>2. /\ k \notin DOMAIN db.challenges /\ ChallengeSpent(k) = {}
          /\ \A f \in Clients : Holds(task[f], k) => f = d
      BY <1>1, <2>3, <3>1 DEF TokensOnce
    <3>3. ~Holds(task[c], k) /\ d # c
      BY <2>3, <3>1, <3>2
    <3>4. ASSUME NEW e \in spent', e.proof[1] = "challenge", e.proof[3] = k PROVE FALSE
      <4>1. CASE e \in spent
        BY <3>2, <3>4, <4>1 DEF ChallengeSpent
      <4>2. CASE \E q \in proofs : e.session = db.seq /\ e.proof = q
        BY <1>8, <3>3, <3>4, <4>2
      <4> QED BY <1>6, <4>1, <4>2
    <3>5. ChallengeSpent(k)' = {}
      BY <3>4 DEF ChallengeSpent
    <3> QED BY <1>5, <3>1, <3>2, <3>5
  <2>4. ASSUME NEW e \in spent', e.proof[1] = "challenge"
        PROVE  e.proof[3] \in Given(db') /\ e.proof[3] \notin DOMAIN db'.challenges
    <3>1. CASE e \in spent
      BY <1>1, <1>5, <2>1, <2>4, <3>1 DEF TokensOnce
    <3>2. CASE \E q \in proofs : e.session = db.seq /\ e.proof = q
      BY <1>5, <1>8, <2>1, <2>2, <2>4, <3>2
    <3> QED BY <1>6, <3>1, <3>2
  <2>5. ASSUME NEW e \in spent', NEW f \in spent', e.proof[1] = "challenge", f.proof[1] = "challenge",
               e.proof[3] = f.proof[3]
        PROVE  e.session = f.session
    <3>1. CASE e \in spent /\ f \in spent
      BY <1>1, <2>5, <3>1 DEF TokensOnce
    <3>2. CASE e.session = db.seq /\ f.session = db.seq
      BY <3>2
    <3>3. CASE e \in spent /\ \E q \in proofs : f.proof = q
      BY <1>8, <2>5, <3>3 DEF ChallengeSpent
    <3>4. CASE f \in spent /\ \E q \in proofs : e.proof = q
      BY <1>8, <2>5, <3>4 DEF ChallengeSpent
    <3> QED BY <1>6, <3>1, <3>2, <3>3, <3>4
  <2> QED BY <2>3, <2>4, <2>5 DEF TokensOnce
<1>14. CodesOnce'
  <2>1. ASSUME NEW d \in Clients, Proves(task'[d])
        PROVE  /\ Accepted(task[d].proof)' /\ task'[d].proof[2] = task'[d].user
               /\ task'[d].user \notin muddled' =>
                     /\ \A e \in spent' : e.proof # task'[d].proof
                     /\ \A f \in Clients : Proves(task'[f]) /\ task'[f].proof = task'[d].proof => f = d
    <3>1. \A f \in Clients : Proves(task'[f]) => f # c /\ task'[f] = task[f]
      BY <1>4, IdleTask DEF Moves, Quiet
    <3>2. PICK y : y = task[d] /\ y = task'[d] /\ d # c
      BY <2>1, <3>1
    <3>3. /\ Accepted(y.proof) /\ y.proof[2] = y.user
          /\ y.user \notin muddled =>
                /\ \A e \in spent : e.proof # y.proof
                /\ \A f \in Clients : Proves(task[f]) /\ task[f].proof = y.proof => f = d
      BY <1>1, <2>1, <3>2, ZenonT(60) DEF CodesOnce
    <3>4. Accepted(y.proof)'
      BY <1>1, <1>5, <3>3, AcceptedStays
    <3>5. y.proof[1] # "challenge"
      BY <3>3 DEF Accepted
    <3>6. ASSUME y.user \notin muddled, NEW e \in spent', e.proof = y.proof PROVE FALSE
      <4>1. CASE e \in spent
        BY <3>3, <3>6, <4>1
      <4>2. CASE \E q \in proofs : e.session = db.seq /\ e.proof = q
        <5>1. Proves(task[c]) /\ y.proof = task[c].proof
          BY <1>9, <3>5, <3>6, <4>2
        <5>2. c = d
          BY <3>3, <3>6, <5>1
        <5> QED BY <3>2, <5>2
      <4> QED BY <1>6, <4>1, <4>2
    <3> QED BY <1>3, <3>1, <3>2, <3>3, <3>4, <3>6
  <2>2. ASSUME NEW e \in spent', e.proof[1] # "challenge"
        PROVE  Accepted(e.proof)'
    <3>1. Accepted(e.proof)
      <4>1. CASE e \in spent
        BY <1>1, <2>2, <4>1 DEF CodesOnce
      <4>2. CASE \E q \in proofs : e.session = db.seq /\ e.proof = q
        BY <1>7, <1>9, <2>2, <4>2
      <4> QED BY <1>6, <4>1, <4>2
    <3> QED BY <1>1, <1>5, <3>1, AcceptedStays
  <2>3. ASSUME NEW e \in spent', NEW f \in spent', e.proof[1] # "challenge", e.proof = f.proof,
               e.proof[2] \notin muddled
        PROVE  e.session = f.session
    <3>1. CASE e \in spent /\ f \in spent
      BY <1>1, <2>3, <3>1 DEF CodesOnce
    <3>2. CASE e.session = db.seq /\ f.session = db.seq
      BY <3>2
    <3>3. CASE e \in spent /\ \E q \in proofs : f.proof = q
      BY <1>7, <1>9, <2>3, <3>3
    <3>4. CASE f \in spent /\ \E q \in proofs : e.proof = q
      BY <1>7, <1>9, <2>3, <3>4
    <3> QED BY <1>6, <3>1, <3>2, <3>3, <3>4
  <2> QED BY <1>3, <2>1, <2>2, <2>3 DEF CodesOnce
<1>15. SecretsStay'
  BY <1>1, <1>3, <1>4, <1>5, IdleTask, SecretsStep DEF Quiet
<1>16. ChangesEnd'
  BY <1>1, <1>3, <1>4, <1>5, EndsStep
<1>17. AdminFollows'
  BY <1>1, <1>3, <1>4, IdleTask, AdminStep DEF Quiet
<1> QED BY <1>10, <1>11, <1>12, <1>13, <1>14, <1>15, <1>16, <1>17 DEF AuthInv

\* A challenge is taken out of the table, by one request.
LEMMA TakeStep ==
    ASSUME AuthInv, NEW c \in Clients, NEW x, NEW k, task' = [task EXCEPT ![c] = x],
           delete_challenge(db, k).ok, db' = delete_challenge(db, k).db,
           windows' = windows, spent' = spent, Still,
           TaskTyped(x, db), TakesToken(x), x.token = k, ~Checking(x), ~Writing(x), ~MayFail(x),
           Proves(x) => Proves(task[c]) /\ x.proof = task[c].proof /\ x.user = task[c].user,
           ~Writing(task[c]), ~Revoking(task[c])
    PROVE  AuthInv'
<1>1. /\ Typed /\ NothingOutlivesUser /\ FailuresBounded /\ WindowsBounded
      /\ TokensOnce /\ CodesOnce /\ SecretsStay /\ ChangesEnd /\ AdminFollows
  BY DEF AuthInv
<1>2. /\ now' = now /\ config' = config /\ provider' = provider /\ life' = life /\ ver' = ver
      /\ kept' = kept /\ muddled' = muddled /\ crossed' = crossed /\ lost' = lost
      /\ leaked \subseteq leaked'
  BY DEF Still, Grows, memory, history
<1>3. Moves(c, x)
  BY <1>1 DEF Typed, Moves
<1>4. /\ Kept(db, db') /\ k \in DOMAIN db.challenges /\ k \notin DOMAIN db'.challenges
      /\ IsDatabase(db) /\ Stays(db, db')
  <2>1. IsDatabase(db)
    BY <1>1 DEF Typed
  <2> QED BY <2>1, ChallengeStatements, KeptStays
<1>5. Typed'
  <2>1. HistoryTyped' /\ WindowsTyped'
    BY <1>1, <1>2 DEF Typed, HistoryTyped, WindowsTyped
  <2>2. TaskTyped(x, db')
    BY <1>4, StillTyped DEF Kept
  <2> QED BY <1>1, <1>2, <1>3, <1>4, <2>1, <2>2, TypedStep
<1>6. NothingOutlivesUser'
  BY <1>1, <1>2, <1>4, RowsStep
<1>7. FailuresBounded' /\ WindowsBounded'
  BY <1>1, <1>2, <1>3, WindowsStep
<1>8. TokensOnce'
  <2>1. Given(db) \subseteq Given(db')
    <3>1. db.seq \in Nat /\ db'.seq \in Nat /\ db.seq <= db'.seq
      BY <1>4, DatabaseFacts DEF Kept, UsersKept
    <3> QED BY <3>1 DEF Given
  <2>2. /\ \A d \in Clients : ~Holds(task[d], k)
        /\ \A e \in spent : e.proof[1] = "challenge" => e.proof[3] # k
    BY <1>1, <1>4 DEF TokensOnce
  <2>3. \A j : /\ Holds(task'[c], j) => j = k
               /\ \A d \in Clients \ {c} : Holds(task'[d], j) => Holds(task[d], j) /\ j # k
    BY <1>3, <2>2 DEF Moves, Holds
  <2>4. \A j : ChallengeSpent(j)' = ChallengeSpent(j)
    BY DEF ChallengeSpent
  <2>5. DOMAIN db'.challenges \subseteq DOMAIN db.challenges
    BY <1>4 DEF Kept, ChallengesKept
  <2>6. ASSUME NEW d \in Clients, NEW j, Holds(task'[d], j)
        PROVE  /\ j \notin DOMAIN db'.challenges /\ ChallengeSpent(j)' = {}
               /\ \A f \in Clients : Holds(task'[f], j) => f = d
    <3>1. CASE d = c
      <4>1. j = k /\ \A f \in Clients : Holds(task'[f], j) => f = d
        BY <2>3, <2>6, <3>1
      <4>2. ChallengeSpent(j) = {}
        BY <2>2, <4>1 DEF ChallengeSpent
      <4> QED BY <1>4, <2>4, <4>1, <4>2
    <3>2. CASE d # c
      <4>1. Holds(task[d], j) /\ j # k
        BY <2>3, <2>6, <3>2
      <4>2. /\ j \notin DOMAIN db.challenges /\ ChallengeSpent(j) = {}
            /\ \A f \in Clients : Holds(task[f], j) => f = d
        BY <1>1, <4>1 DEF TokensOnce
      <4>3. \A f \in Clients : Holds(task'[f], j) => f = d
        BY <2>3, <4>1, <4>2
      <4> QED BY <2>4, <2>5, <4>2, <4>3
    <3> QED BY <3>1, <3>2
  <2>7. \A e \in spent : e.proof[1] = "challenge" =>
            e.proof[3] \in Given(db') /\ e.proof[3] \notin DOMAIN db'.challenges
    BY <1>1, <2>1, <2>5 DEF TokensOnce
  <2>8. \A e, f \in spent : e.proof[1] = "challenge" /\ f.proof[1] = "challenge"
                            /\ e.proof[3] = f.proof[3] => e.session = f.session
    BY <1>1 DEF TokensOnce
  <2> QED BY <2>6, <2>7, <2>8 DEF TokensOnce
<1>9. CodesOnce'
  BY <1>1, <1>2, <1>3, <1>4, CodesStep
<1>10. SecretsStay'
  <2>1. \A u \in DOMAIN db'.mfa : u \in DOMAIN db.mfa /\ db'.mfa[u].secret = db.mfa[u].secret
    BY <1>4 DEF Kept, MfaKept
  <2> QED BY <1>1, <1>2, <1>3, <2>1, SecretsStep
<1>11. ChangesEnd'
  BY <1>1, <1>2, <1>3, <1>4, EndsStep
<1>12. AdminFollows'
  BY <1>1, <1>2, <1>3, AdminStep
<1> QED BY <1>5, <1>6, <1>7, <1>8, <1>9, <1>10, <1>11, <1>12 DEF AuthInv

\* A request that begins.
LEMMA AskStep ==
    ASSUME AuthInv, NEW c \in Clients, task[c] = Idle, NEW t, "op" \in DOMAIN t, t = [f \in DOMAIN t |-> t[f]],
           NEW e, Kept(db, e), Goes(c, t, e), Still,
           TaskTyped(t, db), Quiet(t), MayFail(t) => check_at(Peer[c])
    PROVE  AuthInv'
<1>1. Over(t, task[c]) = t
  BY DEF Over, Idle
<1>2. ~Writing(task[c]) /\ ~Revoking(task[c])
  BY IdleTask DEF Quiet
<1> QED BY <1>1, <1>2, GoesStep

\* A request that is answered at once.
LEMMA AnswerStep ==
    ASSUME AuthInv, NEW c \in Clients, task[c] = Idle, NEW e, Kept(db, e), Replies(c, e), Still
    PROVE  AuthInv'
<1>1. ~Writing(task[c]) /\ ~Revoking(task[c])
  BY IdleTask DEF Quiet
<1> QED BY <1>1, RepliesStep

(***************************************************************************)
(* The requests, one lemma each                                            *)
(***************************************************************************)

\* What is known at every step: the tables, and that doing nothing keeps them.
LEMMA Known ==
    ASSUME AuthInv
    PROVE  /\ Typed /\ IsDatabase(db) /\ Kept(db, db) /\ db.seq \in Nat /\ Given(db) = 0..(db.seq - 1)
           /\ now \in Nat /\ now - 1 \in Nat
           /\ \A c \in Clients : TaskTyped(task[c], db)
<1>1. Typed /\ IsDatabase(db) /\ now \in Nat \ {0}
  BY DEF AuthInv, Typed
<1>2. now \in Nat /\ now - 1 \in Nat
  BY <1>1
<1> QED BY <1>1, <1>2, DatabaseFacts, NothingDone DEF Typed, Given

\* login: the check, and the user.
LEMMA AskLoginStep ==
    ASSUME AuthInv, NEW c \in Clients, NEW u \in Users, NEW pw, NEW code \in Presented, NEW r \in BOOLEAN,
           AskLogin(c, u, pw, code, r), Still, task[c] = Idle \/ task[c].op = "AppPassword"
    PROVE  AuthInv'
<1>1. ~Writing(task[c]) /\ ~Revoking(task[c]) /\ Kept(db, db)
  BY IdleTask, Known DEF Quiet, Writing, Revoking
<1>2. CASE ~check_at(Peer[c])
  <2>1. Replies(c, db)
    BY <1>2 DEF AskLogin
  <2> QED BY <1>1, <2>1, RepliesStep
<1>3. CASE check_at(Peer[c]) /\ ~\E row \in get_by_username(u) : row.enabled
  <2>1. Fails(c)
    BY <1>3 DEF AskLogin
  <2> QED BY <1>1, <1>3, <2>1, FailsStep
<1>4. CASE check_at(Peer[c]) /\ \E row \in get_by_username(u) : row.enabled
  <2>1. PICK h : h = (CHOOSE row \in get_by_username(u) : TRUE).hash
    OBVIOUS
  <2>2. PICK t : t = [op |-> "Login", at |-> "verify", user |-> u, pw |-> pw, code |-> code,
                      remember |-> r, hash |-> h]
    OBVIOUS
  <2>3. Goes(c, t, db)
    BY <1>4, <2>1, <2>2 DEF AskLogin
  <2>4. PICK x : x = Over(t, task[c])
    OBVIOUS
  <2>5. /\ DOMAIN t \subseteq DOMAIN x /\ x.op = "Login" /\ x.at = "verify" /\ x.user = u /\ x.code = code
        /\ x.remember = r
    BY <2>2, <2>4 DEF Over
  <2>6. TaskTyped(x, db)
    BY <2>2, <2>5 DEF TaskTyped, LoginTyped, VerifyTyped, PasskeyTyped, SessionTyped,
        UserTyped, Has, Behind,
       Idle
  <2>7. Quiet(x)
    BY <2>5 DEF Quiet, TakesToken, Proves, Checking, Writing
  <2> QED BY <1>1, <1>4, <2>3, <2>4, <2>6, <2>7, GoesStep
<1> QED BY <1>2, <1>3, <1>4

\* What a login presents as a code is one.
LEMMA CodesPresented ==
    ASSUME AuthInv
    PROVE  Codes \subseteq Presented /\ NoCode \in Presented
<1>1. /\ \A u \in DOMAIN db.mfa : db.mfa[u].secret \in Nat
      /\ DOMAIN db.codes \subseteq Nat /\ now \in Nat /\ now - 1 \in Nat
  <2>1. IsTable(db.mfa, Users, MfaRows) /\ IsTable(db.codes, Given(db), CodeRows) /\ db.seq \in Nat
    BY Known, DatabaseFacts
  <2>2. Given(db) \subseteq Nat
    BY <2>1 DEF Given
  <2> QED BY <2>1, <2>2, Known DEF IsTable, MfaRows
<1>2. Ever \in Nat /\ 0 \in Nat
  BY DEF Ever
<1>3. ASSUME NEW u \in DOMAIN db.mfa, NEW n \in {now - 1, now}
      PROVE  [secret |-> db.mfa[u].secret, step |-> n, id |-> 0] \in Presented
  BY <1>1, <1>2 DEF Presented
<1>4. ASSUME NEW i \in DOMAIN db.codes \cup {0}
      PROVE  [secret |-> 0, step |-> Ever, id |-> i] \in Presented
  BY <1>1, <1>2 DEF Presented
<1>5. ASSUME NEW code \in Codes PROVE code \in Presented
  <2>1. CASE \E u \in DOMAIN db.mfa : \E n \in {now - 1, now} :
                 code = [secret |-> db.mfa[u].secret, step |-> n, id |-> 0]
    BY <1>3, <2>1
  <2>2. CASE \E i \in DOMAIN db.codes \cup {0} : code = [secret |-> 0, step |-> Ever, id |-> i]
    BY <1>4, <2>2
  <2> QED BY <2>1, <2>2 DEF Codes
<1> QED BY <1>4, <1>5 DEF NoCode

\* A step from one await to the next, as `Goes` with the await alone.
LEMMA AwaitStep ==
    ASSUME AuthInv, NEW c \in Clients, NEW v, NEW e, Kept(db, e), Goes(c, [at |-> v], e), Still,
           task[c].op \notin {"none", "VerifyMfa", "DeleteUser"},
           v \notin {"provider", "verify", "create"},
           task[c].op \in {"authenticate", "discover"} => v # "session",
           task[c].op = "ChangePassword" /\ v = "config" => task[c].user = Admin,
           ~Writing(task[c]), ~Revoking(task[c])
    PROVE  AuthInv'
<1>1. PICK t : t = [at |-> v]
  OBVIOUS
<1>2. "at" \in DOMAIN t /\ DOMAIN t \subseteq {"at", "totp", "id"} /\ t.at = v /\ Goes(c, t, e)
  BY <1>1
<1> QED BY <1>2, StageStep

\* LoginUseCase.
LEMMA LoginStep ==
    ASSUME AuthInv, NEW c \in Clients, Login(c), Still, Descends(c)
    PROVE  AuthInv'
<1>1. /\ TaskTyped(task[c], db) /\ Kept(db, db) /\ Typed /\ IsDatabase(db) /\ db.seq \in Nat /\ now \in Nat
  BY Known
<1>2. task[c].op = "Login"
  BY DEF Login, At
<1>3. ~Writing(task[c]) /\ ~Revoking(task[c])
  BY <1>2 DEF Writing, Revoking
<1>4. /\ Has(task[c], {"user", "code", "remember", "op", "at"}) /\ task[c].user \in Users
      /\ task[c].code \in Presented /\ task[c].remember \in BOOLEAN
  BY <1>1, <1>2 DEF TaskTyped, LoginTyped, Has, Idle
<1>5. CASE /\ At(c, "Login", "verify")
           /\ IF task[c].pw # task[c].hash THEN Fails(c)
              ELSE Goes(c, [at |-> "passkeys", totp |-> \E m \in Find(db.mfa, task[c].user) : m.enabled], db)
  <2>1. CASE Fails(c)
    <3>1. MayFail(task[c])
      BY <1>5 DEF MayFail, At
    <3> QED BY <1>3, <2>1, <3>1, FailsStep
  <2>2. CASE Goes(c, [at |-> "passkeys", totp |-> \E m \in Find(db.mfa, task[c].user) : m.enabled], db)
    <3>1. PICK b : b = \E m \in Find(db.mfa, task[c].user) : m.enabled
      OBVIOUS
    <3>2. PICK t : t = [at |-> "passkeys", totp |-> b]
      OBVIOUS
    <3>3. "at" \in DOMAIN t /\ DOMAIN t \subseteq {"at", "totp", "id"} /\ t.at = "passkeys" /\ Goes(c, t, db)
      BY <2>2, <3>1, <3>2
    <3> QED BY <1>1, <1>2, <1>3, <3>3, StageStep
  <2> QED BY <1>5, <2>1, <2>2
<1>6. CASE Goes(c, [at |-> IF task[c].totp \/ has_credentials(db, task[c].user)
                           THEN "challenge" ELSE "session"], db)
  <2>1. PICK v : v = IF task[c].totp \/ has_credentials(db, task[c].user) THEN "challenge" ELSE "session"
    OBVIOUS
  <2>2. v \in {"challenge", "session"} /\ Goes(c, [at |-> v], db)
    BY <1>6, <2>1
  <2> QED BY <1>1, <1>2, <1>3, <2>2, AwaitStep
<1>7. CASE /\ At(c, "Login", "challenge")
           /\ LET made == create_challenge([db EXCEPT !.seq = @ + 1], db.seq,
                               [user |-> task[c].user, kind |-> "Totp", state |-> <<>>,
                                expires |-> now + ChallengeTtl, remember |-> task[c].remember,
                                stamp |-> Stamp(c, task[c].user)])
              IN  IF task[c].code = NoCode THEN Replies(c, made)
                  ELSE Goes(c, [op |-> "VerifyMfa", at |-> "challenge", token |-> db.seq], made)
  <2>1. PICK v : v = [user |-> task[c].user, kind |-> "Totp", state |-> <<>>,
                      expires |-> now + ChallengeTtl, remember |-> task[c].remember,
                      stamp |-> Stamp(c, task[c].user)]
    OBVIOUS
  <2>2. v \in ChallengeRows /\ Fresh(v)
    <3>1. now + ChallengeTtl \in Nat
      <4>1. ChallengeTtl \in Nat
        BY AuthAssumption
      <4> QED BY <1>1, <4>1
    <3>2. Stamp(c, task[c].user) \in Stamps /\ Earned(task[c].user, Stamp(c, task[c].user))
      BY <1>7, Speaks DEF Still, Inserts
    <3> QED BY <1>4, <2>1, <3>1, <3>2 DEF ChallengeRows, Fresh
  <2>3. PICK k : k = db.seq
    OBVIOUS
  <2>4. PICK e : e = create_challenge([db EXCEPT !.seq = @ + 1], k, v)
    OBVIOUS
  <2>5. CASE Replies(c, e)
    <3>1. task' = [task EXCEPT ![c] = Idle] /\ db' = e /\ windows' = windows /\ spent' = spent
      BY <2>5 DEF Replies
    <3> QED BY <1>3, <2>2, <2>3, <2>4, <3>1, IdleTask, ChallengeStep
  <2>6. CASE Goes(c, [op |-> "VerifyMfa", at |-> "challenge", token |-> k], e)
    <3>1. PICK t : t = [op |-> "VerifyMfa", at |-> "challenge", token |-> k]
      OBVIOUS
    <3>2. PICK x : x = Over(t, task[c])
      OBVIOUS
    <3>3. task' = [task EXCEPT ![c] = x] /\ db' = e /\ windows' = windows /\ spent' = spent
      <4>1. task' = [task EXCEPT ![c] = Over(t, task[c])]
        BY <2>6, <3>1 DEF Goes
      <4> QED BY <2>6, <3>2, <4>1 DEF Goes
    <3>4. /\ Has(x, {"op", "at", "token", "code"}) /\ x.op = "VerifyMfa" /\ x.at = "challenge"
          /\ x.token = k /\ x.code = task[c].code
      BY <1>4, <3>1, <3>2 DEF Over, Has
    <3>5. e.seq = db.seq + 1
      BY <1>1, <2>4, DatabaseRecord DEF create_challenge, IsRecord, Columns
    <3>6. k \in 0..(e.seq - 1)
      BY <1>1, <2>3, <3>5
    <3>7. TaskTyped(x, e)
      BY <1>4, <3>4, <3>6 DEF TaskTyped, LoginTyped, VerifyTyped, PasskeyTyped,
          SessionTyped, UserTyped, Has,
         Behind, Idle
    <3>8. Quiet(x) /\ ~MayFail(x)
      BY <3>4 DEF Quiet, TakesToken, Proves, Checking, Writing, MayFail
    <3> QED BY <1>3, <2>2, <2>3, <2>4, <3>3, <3>7, <3>8, ChallengeStep
  <2> QED BY <1>7, <2>1, <2>3, <2>4, <2>5, <2>6
<1>8. CASE At(c, "Login", "session") /\ build_session(c, task[c].user, {}, TRUE)
  <2>1. PICK u, none, b : u = task[c].user /\ none = {} /\ b = TRUE
    OBVIOUS
  <2>2. u \in Users /\ build_session(c, u, none, b) /\ \A q \in none : FALSE
    BY <1>4, <1>8, <2>1
  <2>3. Earned(u, Stamp(c, u))
    BY <1>8, <2>1, Speaks DEF Still, Inserts
  <2> QED BY <1>3, <1>4, <2>2, <2>3, BuildStep
<1> QED BY <1>5, <1>6, <1>7, <1>8 DEF Login

\* A code is accepted that was not accepted before.
LEMMA ProveStep ==
    ASSUME AuthInv, NEW c \in Clients, NEW x, task' = [task EXCEPT ![c] = x], Kept(db, db'),
           windows' = windows, spent' = spent, Still, TaskTyped(x, db),
           Proves(x), x.at = "spend", ~Writing(task[c]), ~Revoking(task[c]),
           x.proof[2] = x.user, Accepted(x.proof)', x.user \notin muddled => ~Accepted(x.proof)
    PROVE  AuthInv'
<1>1. /\ Typed /\ NothingOutlivesUser /\ FailuresBounded /\ WindowsBounded
      /\ TokensOnce /\ CodesOnce /\ SecretsStay /\ ChangesEnd /\ AdminFollows
  BY DEF AuthInv
<1>2. /\ now' = now /\ config' = config /\ provider' = provider /\ life' = life /\ ver' = ver
      /\ kept' = kept /\ muddled' = muddled /\ crossed' = crossed /\ lost' = lost
      /\ leaked \subseteq leaked'
  BY DEF Still, Grows, memory, history
<1>3. Moves(c, x)
  BY <1>1 DEF Typed, Moves
<1>4. Stays(db, db') /\ IsDatabase(db)
  BY <1>1, KeptStays DEF Typed
<1>5. ~TakesToken(x) /\ ~Checking(x) /\ ~Writing(x) /\ ~MayFail(x)
  BY DEF Proves, TakesToken, Checking, Writing, MayFail
<1>6. Typed'
  <2>1. HistoryTyped' /\ WindowsTyped'
    BY <1>1, <1>2 DEF Typed, HistoryTyped, WindowsTyped
  <2>2. TaskTyped(x, db')
    BY <1>4, StillTyped DEF Kept
  <2> QED BY <1>1, <1>2, <1>3, <1>4, <2>1, <2>2, TypedStep
<1>7. NothingOutlivesUser'
  BY <1>1, <1>2, <1>4, RowsStep
<1>8. FailuresBounded' /\ WindowsBounded'
  BY <1>1, <1>2, <1>3, <1>5, WindowsStep
<1>9. TokensOnce'
  <2>1. \A k \in DOMAIN db'.challenges : k \in DOMAIN db.challenges
    BY DEF Kept, ChallengesKept
  <2> QED BY <1>1, <1>3, <1>4, <1>5, <2>1, TokensStep
<1>10. CodesOnce'
  <2>1. x.proof[1] \in {"code", "totp"}
    BY DEF Accepted
  <2>2. \A e \in spent : x.user \notin muddled => e.proof # x.proof
    BY <1>1, <2>1 DEF CodesOnce
  <2>3. \A d \in Clients : Proves(task[d]) => /\ Accepted(task[d].proof) /\ task[d].proof[2] = task[d].user
                                              /\ x.user \notin muddled => task[d].proof # x.proof
    BY <1>1 DEF CodesOnce
  <2>4. ASSUME NEW d \in Clients, Proves(task'[d])
        PROVE  /\ Accepted(task[d].proof)' /\ task'[d].proof[2] = task'[d].user
               /\ task'[d].user \notin muddled' =>
                     /\ \A e \in spent' : e.proof # task'[d].proof
                     /\ \A f \in Clients : Proves(task'[f]) /\ task'[f].proof = task'[d].proof => f = d
    <3>1. CASE d = c
      <4>1. task'[d] = x
        BY <1>3, <3>1 DEF Moves
      <4>2. x.user \notin muddled => \A f \in Clients : Proves(task'[f]) /\ task'[f].proof = x.proof => f = d
        BY <1>3, <2>3, <3>1 DEF Moves
      <4> QED BY <1>2, <2>2, <4>1, <4>2
    <3>2. CASE d # c
      <4>1. PICK y : y = task[d] /\ task'[d] = y
        BY <1>3, <3>2 DEF Moves
      <4>2. /\ Accepted(y.proof) /\ y.proof[2] = y.user
            /\ y.user \notin muddled =>
                  /\ \A e \in spent : e.proof # y.proof
                  /\ \A f \in Clients : Proves(task[f]) /\ task[f].proof = y.proof => f = d
        BY <1>1, <2>4, <4>1 DEF CodesOnce
      <4>3. Accepted(y.proof)'
        BY <1>1, <1>4, <4>2, AcceptedStays
      <4>4. y.user \notin muddled => y.proof # x.proof
        BY <4>2
      <4>5. y.user \notin muddled => \A f \in Clients : Proves(task'[f]) /\ task'[f].proof = y.proof => f = d
        BY <1>3, <4>2, <4>4 DEF Moves
      <4> QED BY <1>2, <4>1, <4>2, <4>3, <4>5
    <3> QED BY <3>1, <3>2
  <2>5. ASSUME NEW e \in spent', e.proof[1] # "challenge" PROVE Accepted(e.proof)'
    <3>1. Accepted(e.proof)
      BY <1>1, <2>5 DEF CodesOnce
    <3> QED BY <1>1, <1>4, <3>1, AcceptedStays
  <2>6. \A e, f \in spent : e.proof[1] # "challenge" /\ e.proof = f.proof
                           /\ e.proof[2] \notin muddled => e.session = f.session
    BY <1>1 DEF CodesOnce
  <2> QED BY <1>2, <2>4, <2>5, <2>6 DEF CodesOnce
<1>11. SecretsStay'
  <2>1. \A u \in DOMAIN db'.mfa : u \in DOMAIN db.mfa /\ db'.mfa[u].secret = db.mfa[u].secret
    BY DEF Kept, MfaKept
  <2> QED BY <1>1, <1>2, <1>3, <1>5, <2>1, SecretsStep
<1>12. ChangesEnd'
  BY <1>1, <1>2, <1>3, <1>4, EndsStep
<1>13. AdminFollows'
  BY <1>1, <1>2, <1>3, <1>5, AdminStep
<1> QED BY <1>6, <1>7, <1>8, <1>9, <1>10, <1>11, <1>12, <1>13 DEF AuthInv

\* A task reads the secret it will check a code against.
LEMMA CheckStep ==
    ASSUME AuthInv, NEW c \in Clients, NEW x, task' = [task EXCEPT ![c] = x], db' = db,
           windows' = windows, spent' = spent, Still, TaskTyped(x, db),
           Checking(x), MayFail(task[c]), ~Writing(task[c]), ~Revoking(task[c]),
           x.user \in DOMAIN db.mfa, x.row = db.mfa[x.user]
    PROVE  AuthInv'
<1>1. /\ Typed /\ NothingOutlivesUser /\ FailuresBounded /\ WindowsBounded
      /\ TokensOnce /\ CodesOnce /\ SecretsStay /\ ChangesEnd /\ AdminFollows
  BY DEF AuthInv
<1>2. /\ now' = now /\ config' = config /\ provider' = provider /\ life' = life /\ ver' = ver
      /\ kept' = kept /\ muddled' = muddled /\ crossed' = crossed /\ lost' = lost
      /\ leaked \subseteq leaked'
  BY DEF Still, Grows, memory, history
<1>3. Moves(c, x)
  BY <1>1 DEF Typed, Moves
<1>4. Stays(db, db')
  BY <1>1, NothingDone, KeptStays DEF Typed
<1>5. ~TakesToken(x) /\ ~Proves(x) /\ ~Writing(x)
  BY DEF Proves, TakesToken, Checking, Writing
<1>6. Typed'
  <2>1. HistoryTyped' /\ WindowsTyped'
    BY <1>1, <1>2 DEF Typed, HistoryTyped, WindowsTyped
  <2> QED BY <1>1, <1>2, <1>3, <1>4, <2>1, TypedStep
<1>7. NothingOutlivesUser'
  BY <1>1, <1>2, <1>4, RowsStep
<1>8. FailuresBounded' /\ WindowsBounded'
  BY <1>1, <1>2, <1>3, WindowsStep
<1>9. TokensOnce'
  BY <1>1, <1>3, <1>4, <1>5, TokensStep
<1>10. CodesOnce'
  BY <1>1, <1>2, <1>3, <1>4, <1>5, CodesStep
<1>11. SecretsStay'
  BY <1>1, <1>2, <1>3, SecretsStep
<1>12. ChangesEnd'
  BY <1>1, <1>2, <1>3, <1>4, EndsStep
<1>13. AdminFollows'
  BY <1>1, <1>2, <1>3, <1>5, AdminStep
<1> QED BY <1>6, <1>7, <1>8, <1>9, <1>10, <1>11, <1>12, <1>13 DEF AuthInv

\* What a verification carries from await to await.
LEMMA VerifyMoves ==
    ASSUME NEW y, NEW d, TaskTyped(y, d), y.op = "VerifyMfa", y.at # "challenge",
           NEW t, "at" \in DOMAIN t, DOMAIN t \subseteq {"at", "row", "proof"}, NEW x, x = Over(t, y)
    PROVE  /\ Has(x, {"op", "at", "token", "code", "user", "remember"}) /\ DOMAIN t \subseteq DOMAIN x
           /\ x.op = "VerifyMfa" /\ x.at = t.at /\ x.token = y.token /\ x.code = y.code
           /\ x.user = y.user /\ x.remember = y.remember
           /\ "row" \in DOMAIN t => x.row = t.row
           /\ "proof" \in DOMAIN t => x.proof = t.proof
           /\ "proof" \in DOMAIN y \ DOMAIN t => x.proof = y.proof /\ "proof" \in DOMAIN x
           /\ y.token \in 0..(d.seq - 1) /\ y.code \in Presented /\ y.remember \in BOOLEAN
           /\ VerifyTyped(x, d.seq) => TaskTyped(x, d)
<1>1. /\ Has(y, {"op", "token", "code", "user", "remember"}) /\ y.token \in 0..(d.seq - 1)
      /\ y.code \in Presented /\ y.remember \in BOOLEAN
  BY DEF TaskTyped, VerifyTyped, Has
<1>2. /\ Has(x, {"op", "at", "token", "code", "user", "remember"}) /\ DOMAIN t \subseteq DOMAIN x
      /\ x.op = "VerifyMfa" /\ x.at = t.at /\ x.token = y.token /\ x.code = y.code
      /\ x.user = y.user /\ x.remember = y.remember
      /\ "row" \in DOMAIN t => x.row = t.row
      /\ "proof" \in DOMAIN t => x.proof = t.proof
      /\ "proof" \in DOMAIN y \ DOMAIN t => x.proof = y.proof /\ "proof" \in DOMAIN x
  BY <1>1 DEF Over, Has
<1>3. VerifyTyped(x, d.seq) => TaskTyped(x, d)
  BY <1>2 DEF TaskTyped, LoginTyped, PasskeyTyped, SessionTyped, UserTyped, Has, Behind,
      Idle
<1> QED BY <1>1, <1>2, <1>3

\* The step of a task that goes on, as the change of its record.
LEMMA GoesTo ==
    ASSUME NEW c, NEW t, NEW e, NEW x, x = Over(t, task[c]), Goes(c, t, e)
    PROVE  task' = [task EXCEPT ![c] = x] /\ db' = e /\ windows' = windows /\ spent' = spent
<1>1. task' = [task EXCEPT ![c] = Over(t, task[c])]
  BY DEF Goes
<1> QED BY <1>1 DEF Goes

\* VerifyMfaUseCase: the challenge, the user and the secret.
LEMMA VerifyReads ==
    ASSUME AuthInv, NEW c \in Clients, VerifyMfa(c), Still,
           At(c, "VerifyMfa", "challenge") \/ At(c, "VerifyMfa", "user") \/ At(c, "VerifyMfa", "mfa")
    PROVE  AuthInv'
<1>1. /\ TaskTyped(task[c], db) /\ Kept(db, db) /\ Typed /\ IsDatabase(db) /\ Given(db) = 0..(db.seq - 1)
  BY Known
<1>2. task[c].op = "VerifyMfa"
  BY DEF At
<1>3. ~Writing(task[c]) /\ ~Revoking(task[c])
  BY <1>2 DEF Writing, Revoking
<1>4. CASE At(c, "VerifyMfa", "challenge")
  <2>1. LET row == get_challenge(db, task[c].token)
        IN  IF ~check_at(Peer[c]) \/ row = {} THEN Replies(c, db)
            ELSE IF \E r \in row : is_expired(r) THEN Replies(c, delete_challenge(db, task[c].token).db)
            ELSE \E r \in row : Goes(c, [at |-> "user", user |-> r.user, remember |-> r.remember], db)
    BY <1>4 DEF VerifyMfa, At
  <2>2. CASE Replies(c, db)
    BY <1>1, <1>3, <2>2, RepliesStep
  <2>3. CASE Replies(c, delete_challenge(db, task[c].token).db)
    <3>1. PICK e : e = delete_challenge(db, task[c].token).db
      OBVIOUS
    <3>2. Kept(db, e)
      BY <1>1, <3>1, ChallengeStatements
    <3> QED BY <1>3, <2>3, <3>1, <3>2, RepliesStep
  <2>4. CASE /\ check_at(Peer[c])
             /\ \E r \in get_challenge(db, task[c].token) :
                   Goes(c, [at |-> "user", user |-> r.user, remember |-> r.remember], db)
    <3>1. PICK r \in get_challenge(db, task[c].token) :
              Goes(c, [at |-> "user", user |-> r.user, remember |-> r.remember], db)
      BY <2>4
    <3>2. r \in ChallengeRows
      BY <1>1, DatabaseFacts DEF get_challenge, Find, IsTable
    <3>3. PICK b, u : b = r.remember /\ u = r.user /\ b \in BOOLEAN
      BY <3>2 DEF ChallengeRows
    <3>4. PICK t : t = [at |-> "user", user |-> u, remember |-> b]
      OBVIOUS
    <3>5. PICK x : x = Over(t, task[c])
      OBVIOUS
    <3>6. Goes(c, t, db)
      BY <3>1, <3>3, <3>4
    <3>7. Has(task[c], {"op", "token", "code"})
          /\ task[c].token \in 0..(db.seq - 1) /\ task[c].code \in Presented
      BY <1>1, <1>2 DEF TaskTyped, VerifyTyped, Has
    <3>8. /\ Has(x, {"op", "at", "token", "code", "user", "remember"}) /\ x.op = "VerifyMfa" /\ x.at = "user"
          /\ x.token = task[c].token /\ x.code = task[c].code /\ x.remember = b
      BY <1>2, <3>4, <3>5, <3>7 DEF Over, Has
    <3>9. x.remember \in BOOLEAN
      BY <3>3, <3>8
    <3>10. TaskTyped(x, db)
      BY <3>7, <3>8, <3>9 DEF TaskTyped, LoginTyped, VerifyTyped, PasskeyTyped,
          SessionTyped, UserTyped, Has,
         Behind, Idle
    <3>11. Quiet(x)
      BY <3>8 DEF Quiet, TakesToken, Proves, Checking, Writing
    <3> QED BY <1>1, <1>3, <2>4, <3>5, <3>6, <3>10, <3>11, GoesStep
  <2> QED BY <2>1, <2>2, <2>3, <2>4
<1>5. CASE At(c, "VerifyMfa", "user")
  <2>1. IF get_by_username(task[c].user) = {} THEN Replies(c, db) ELSE Goes(c, [at |-> "mfa"], db)
    BY <1>5 DEF VerifyMfa, At
  <2>2. CASE Replies(c, db)
    BY <1>1, <1>3, <2>2, RepliesStep
  <2>3. CASE Goes(c, [at |-> "mfa"], db)
    <3>1. PICK t : t = [at |-> "mfa"]
      OBVIOUS
    <3>2. PICK x : x = Over(t, task[c])
      OBVIOUS
    <3>3. "at" \in DOMAIN t /\ DOMAIN t \subseteq {"at", "row", "proof"} /\ t.at = "mfa"
          /\ task[c].at # "challenge"
      BY <1>5, <3>1 DEF At
    <3>4. /\ Has(x, {"op", "at", "token", "code", "user", "remember"})
          /\ x.op = "VerifyMfa" /\ x.at = "mfa" /\ x.token = task[c].token /\ x.code = task[c].code
          /\ x.remember = task[c].remember
          /\ task[c].token \in 0..(db.seq - 1) /\ task[c].code \in Presented /\ task[c].remember \in BOOLEAN
          /\ VerifyTyped(x, db.seq) => TaskTyped(x, db)
      BY <1>1, <1>2, <3>2, <3>3, VerifyMoves
    <3>5. VerifyTyped(x, db.seq)
      BY <3>4 DEF VerifyTyped, Has
    <3>6. Quiet(x) /\ MayFail(task[c])
      BY <1>5, <3>4 DEF Quiet, TakesToken, Proves, Checking, Writing, MayFail, At
    <3>7. Goes(c, t, db)
      BY <2>3, <3>1
    <3> QED BY <1>1, <1>3, <3>2, <3>4, <3>5, <3>6, <3>7, GoesStep
  <2> QED BY <2>1, <2>2, <2>3
<1>6. CASE At(c, "VerifyMfa", "mfa")
  <2>1. IF task[c].user \notin DOMAIN db.mfa THEN Replies(c, db)
        ELSE Goes(c, [at |-> "totp", row |-> db.mfa[task[c].user]], db)
    BY <1>6 DEF VerifyMfa, At
  <2>2. CASE Replies(c, db)
    BY <1>1, <1>3, <2>2, RepliesStep
  <2>3. CASE task[c].user \in DOMAIN db.mfa /\ Goes(c, [at |-> "totp", row |-> db.mfa[task[c].user]], db)
    <3>1. PICK m : m = db.mfa[task[c].user]
      OBVIOUS
    <3>2. PICK t : t = [at |-> "totp", row |-> m]
      OBVIOUS
    <3>3. PICK x : x = Over(t, task[c])
      OBVIOUS
    <3>4. "at" \in DOMAIN t /\ DOMAIN t \subseteq {"at", "row", "proof"} /\ t.at = "totp" /\ t.row = m
          /\ "row" \in DOMAIN t /\ task[c].at # "challenge"
      BY <1>6, <3>2 DEF At
    <3>5. /\ Has(x, {"op", "at", "token", "code", "user", "remember"}) /\ DOMAIN t \subseteq DOMAIN x
          /\ x.op = "VerifyMfa" /\ x.at = "totp" /\ x.token = task[c].token /\ x.code = task[c].code
          /\ x.user = task[c].user /\ x.remember = task[c].remember /\ x.row = m
          /\ task[c].token \in 0..(db.seq - 1) /\ task[c].code \in Presented /\ task[c].remember \in BOOLEAN
          /\ VerifyTyped(x, db.seq) => TaskTyped(x, db)
      BY <1>1, <1>2, <3>3, <3>4, VerifyMoves
    <3>6. x.user \in Users /\ m.secret \in 0..(db.seq - 1)
      BY <1>1, <2>3, <3>1, <3>5, DatabaseFacts DEF IsTable
    <3>7. VerifyTyped(x, db.seq)
      BY <3>4, <3>5, <3>6 DEF VerifyTyped, Has
    <3>8. task' = [task EXCEPT ![c] = x] /\ db' = db /\ windows' = windows /\ spent' = spent
      BY <2>3, <3>1, <3>2, <3>3, GoesTo
    <3>9. Checking(x) /\ MayFail(task[c])
      BY <1>6, <3>5 DEF Checking, MayFail, At
    <3> QED BY <1>3, <2>3, <3>1, <3>5, <3>7, <3>8, <3>9, CheckStep
  <2> QED BY <2>1, <2>2, <2>3
<1> QED BY <1>4, <1>5, <1>6

\* The code, against the secret: its step is counted for the secret it was checked against.
LEMMA VerifyTotp ==
    ASSUME AuthInv, NEW c \in Clients, VerifyMfa(c), Still, At(c, "VerifyMfa", "totp")
    PROVE  AuthInv'
<1>1. /\ TaskTyped(task[c], db) /\ Kept(db, db) /\ Typed /\ IsDatabase(db) /\ Given(db) = 0..(db.seq - 1)
  BY Known
<1>2. task[c].op = "VerifyMfa" /\ task[c].at = "totp"
  BY DEF At
<1>3. ~Writing(task[c]) /\ ~Revoking(task[c]) /\ MayFail(task[c])
  BY <1>2 DEF Writing, Revoking, MayFail
<1>4. task[c].user \in Users /\ task[c].row.secret \in Given(db)
  BY <1>1, <1>2 DEF TaskTyped, VerifyTyped
<1>5. task[c].code.step \in Nat
  BY <1>1, <1>2 DEF TaskTyped, VerifyTyped, Presented
<1>6. PICK u, n, k : u = task[c].user /\ n = task[c].code.step /\ k = task[c].row.secret
  OBVIOUS
<1>7. CASE /\ advance_totp_step(db, u, n).ok
           /\ Goes(c, [at |-> "spend", proof |-> <<"totp", u, k, n>>], advance_totp_step(db, u, n).db)
  <2>1. PICK e, q : e = advance_totp_step(db, u, n).db /\ q = <<"totp", u, k, n>>
    OBVIOUS
  <2>2. Kept(db, e) /\ u \in DOMAIN db.mfa /\ db.mfa[u].step < n /\ u \in DOMAIN e.mfa /\ e.mfa[u].step = n
    <3>1. IsDatabase(db) /\ n \in Nat /\ advance_totp_step(db, u, n).ok
      BY <1>1, <1>5, <1>6, <1>7
    <3>2. /\ Kept(db, advance_totp_step(db, u, n).db) /\ u \in DOMAIN db.mfa /\ db.mfa[u].step < n
          /\ u \in DOMAIN advance_totp_step(db, u, n).db.mfa
          /\ advance_totp_step(db, u, n).db.mfa[u].step = n
      <4>1. Kept(db, advance_totp_step(db, u, n).db)
        BY <3>1, MfaStatements
      <4>2. /\ u \in DOMAIN db.mfa /\ db.mfa[u].step < n
            /\ u \in DOMAIN advance_totp_step(db, u, n).db.mfa
            /\ advance_totp_step(db, u, n).db.mfa[u].step = n
        BY <3>1, MfaStatements
      <4> QED BY <4>1, <4>2
    <3> QED BY <2>1, <3>2, Zenon
  <2>3. PICK t : t = [at |-> "spend", proof |-> q]
    OBVIOUS
  <2>4. PICK x : x = Over(t, task[c])
    OBVIOUS
  <2>5. "at" \in DOMAIN t /\ DOMAIN t \subseteq {"at", "row", "proof"} /\ t.at = "spend" /\ t.proof = q
        /\ "proof" \in DOMAIN t /\ task[c].at # "challenge"
    BY <1>2, <2>3
  <2>6. /\ Has(x, {"op", "at", "token", "code", "user", "remember"}) /\ DOMAIN t \subseteq DOMAIN x
        /\ x.op = "VerifyMfa" /\ x.at = "spend" /\ x.token = task[c].token /\ x.code = task[c].code
        /\ x.user = task[c].user /\ x.remember = task[c].remember /\ x.proof = q
        /\ task[c].token \in 0..(db.seq - 1) /\ task[c].code \in Presented /\ task[c].remember \in BOOLEAN
        /\ VerifyTyped(x, db.seq) => TaskTyped(x, db)
    BY <1>1, <1>2, <2>4, <2>5, VerifyMoves
  <2>7. VerifyTyped(x, db.seq)
    BY <1>4, <2>5, <2>6 DEF VerifyTyped, Has
  <2>8. task' = [task EXCEPT ![c] = x] /\ db' = e /\ windows' = windows /\ spent' = spent
    BY <1>7, <2>1, <2>3, <2>4, GoesTo
  <2>9. q[1] = "totp" /\ q[2] = u /\ q[3] = k /\ q[4] = n
    BY <2>1
  <2>10. Accepted(q)'
    <3>1. k \in Given(e)
      <4>1. db.seq \in Nat /\ e.seq \in Nat /\ db.seq <= e.seq
        BY <1>1, <2>2, DatabaseFacts DEF Kept, UsersKept
      <4> QED BY <1>4, <1>6, <4>1 DEF Given
    <3>2. e.mfa[u].step >= n
      BY <1>5, <1>6, <2>2
    <3> QED BY <1>5, <1>6, <2>8, <2>9, <3>1, <3>2 DEF Accepted
  <2>11. u \notin muddled => ~Accepted(q)
    <3>1. SecretsStay
      BY DEF AuthInv
    <3>2. u \notin muddled => db.mfa[u].secret = k
      BY <1>6, <2>2, <3>1 DEF SecretsStay
    <3>3. db.mfa[u].step \in Nat
      BY <1>1, <2>2, DatabaseFacts DEF IsTable, MfaRows
    <3>4. ~(db.mfa[u].step >= n)
      BY <1>5, <1>6, <2>2, <3>3
    <3> QED BY <2>2, <2>9, <3>2, <3>4 DEF Accepted
  <2>12. Proves(x)
    BY <2>6 DEF Proves
  <2> QED BY <1>3, <1>6, <2>2, <2>6, <2>7, <2>8, <2>9, <2>10, <2>11, <2>12, ProveStep
<1>8. CASE Goes(c, [at |-> "codes"], db)
  <2>1. PICK t : t = [at |-> "codes"]
    OBVIOUS
  <2>2. PICK x : x = Over(t, task[c])
    OBVIOUS
  <2>3. "at" \in DOMAIN t /\ DOMAIN t \subseteq {"at", "row", "proof"} /\ t.at = "codes" /\ task[c].at # "challenge"
    BY <1>2, <2>1
  <2>4. /\ Has(x, {"op", "at", "token", "code", "user", "remember"})
        /\ x.op = "VerifyMfa" /\ x.at = "codes" /\ x.token = task[c].token /\ x.code = task[c].code
        /\ x.user = task[c].user /\ x.remember = task[c].remember
        /\ task[c].token \in 0..(db.seq - 1) /\ task[c].code \in Presented /\ task[c].remember \in BOOLEAN
        /\ VerifyTyped(x, db.seq) => TaskTyped(x, db)
    BY <1>1, <1>2, <2>2, <2>3, VerifyMoves
  <2>5. VerifyTyped(x, db.seq)
    BY <1>4, <2>4 DEF VerifyTyped, Has
  <2>6. Quiet(x)
    BY <2>4 DEF Quiet, TakesToken, Proves, Checking, Writing
  <2> QED BY <1>1, <1>3, <1>8, <2>1, <2>2, <2>4, <2>5, <2>6, GoesStep
<1> QED BY <1>2, <1>6, <1>7, <1>8 DEF VerifyMfa, At

\* The recovery codes.
LEMMA VerifyRecovery ==
    ASSUME AuthInv, NEW c \in Clients, VerifyMfa(c), Still,
           At(c, "VerifyMfa", "codes") \/ At(c, "VerifyMfa", "mark")
    PROVE  AuthInv'
<1>1. /\ TaskTyped(task[c], db) /\ Kept(db, db) /\ Typed /\ IsDatabase(db) /\ Given(db) = 0..(db.seq - 1)
  BY Known
<1>2. task[c].op = "VerifyMfa" /\ task[c].at # "challenge"
  BY DEF At
<1>3. ~Writing(task[c]) /\ ~Revoking(task[c])
  BY <1>2 DEF Writing, Revoking
<1>4. task[c].user \in Users
  BY <1>1, <1>2 DEF TaskTyped, VerifyTyped, At
<1>5. PICK u, i : u = task[c].user /\ i = task[c].code.id
  OBVIOUS
<1>6. CASE At(c, "VerifyMfa", "codes")
  <2>1. CASE Fails(c)
    <3>1. MayFail(task[c])
      BY <1>6 DEF MayFail, At
    <3> QED BY <1>3, <2>1, <3>1, FailsStep
  <2>2. CASE i \in list_unused_recovery_codes(db, u) /\ Goes(c, [at |-> "mark", proof |-> <<"code", u, i>>], db)
    <3>1. PICK q : q = <<"code", u, i>>
      OBVIOUS
    <3>2. PICK t : t = [at |-> "mark", proof |-> q]
      OBVIOUS
    <3>3. PICK x : x = Over(t, task[c])
      OBVIOUS
    <3>4. "at" \in DOMAIN t /\ DOMAIN t \subseteq {"at", "row", "proof"} /\ t.at = "mark" /\ t.proof = q
          /\ "proof" \in DOMAIN t
      BY <3>2
    <3>5. /\ Has(x, {"op", "at", "token", "code", "user", "remember"}) /\ DOMAIN t \subseteq DOMAIN x
          /\ x.op = "VerifyMfa" /\ x.at = "mark" /\ x.token = task[c].token /\ x.code = task[c].code
          /\ x.user = task[c].user /\ x.remember = task[c].remember /\ x.proof = q
          /\ task[c].token \in 0..(db.seq - 1) /\ task[c].code \in Presented /\ task[c].remember \in BOOLEAN
          /\ VerifyTyped(x, db.seq) => TaskTyped(x, db)
      BY <1>1, <1>2, <3>3, <3>4, VerifyMoves
    <3>6. i \in 0..(db.seq - 1)
      BY <1>1, <2>2, DatabaseFacts DEF list_unused_recovery_codes, RowsOf, IsTable
    <3>7. VerifyTyped(x, db.seq)
      BY <1>4, <1>5, <3>1, <3>4, <3>5, <3>6 DEF VerifyTyped, Has
    <3>8. Quiet(x) /\ ~MayFail(x)
      BY <3>5 DEF Quiet, TakesToken, Proves, Checking, Writing, MayFail
    <3> QED BY <1>1, <1>3, <2>2, <3>1, <3>2, <3>3, <3>5, <3>7, <3>8, GoesStep
  <2> QED BY <1>5, <1>6, <2>1, <2>2 DEF VerifyMfa, At
<1>7. CASE At(c, "VerifyMfa", "mark")
  <2>1. Tries(c, mark_recovery_code_used(db, i), [at |-> "spend"])
    BY <1>5, <1>7 DEF VerifyMfa, At
  <2>2. PICK e : e = mark_recovery_code_used(db, i).db
    OBVIOUS
  <2>3. Kept(db, e)
    BY <1>1, <2>2, CodeStatements
  <2>4. CASE Replies(c, e)
    BY <1>3, <2>3, <2>4, RepliesStep
  <2>5. CASE mark_recovery_code_used(db, i).ok /\ Goes(c, [at |-> "spend"], e)
    <3>1. PICK t : t = [at |-> "spend"]
      OBVIOUS
    <3>2. PICK x : x = Over(t, task[c])
      OBVIOUS
    <3>3. "at" \in DOMAIN t /\ DOMAIN t \subseteq {"at", "row", "proof"} /\ t.at = "spend" /\ "proof" \notin DOMAIN t
      BY <3>1
    <3>4. /\ Has(task[c], {"proof"}) /\ i \in 0..(db.seq - 1) /\ task[c].proof = <<"code", u, i>>
      BY <1>1, <1>2, <1>5, <1>7 DEF TaskTyped, VerifyTyped, At
    <3>5. PICK q : q = <<"code", u, i>>
      OBVIOUS
    <3>6. /\ Has(x, {"op", "at", "token", "code", "user", "remember"}) /\ "proof" \in DOMAIN x
          /\ x.op = "VerifyMfa" /\ x.at = "spend" /\ x.token = task[c].token /\ x.code = task[c].code
          /\ x.user = task[c].user /\ x.remember = task[c].remember /\ x.proof = q
          /\ task[c].token \in 0..(db.seq - 1) /\ task[c].code \in Presented /\ task[c].remember \in BOOLEAN
          /\ VerifyTyped(x, db.seq) => TaskTyped(x, db)
      <4>1. "proof" \in DOMAIN task[c] \ DOMAIN t
        BY <3>3, <3>4 DEF Has
      <4> QED BY <1>1, <1>2, <3>2, <3>3, <3>4, <3>5, <4>1, VerifyMoves
    <3>7. VerifyTyped(x, db.seq)
      BY <1>4, <3>6 DEF VerifyTyped, Has
    <3>8. task' = [task EXCEPT ![c] = x] /\ db' = e /\ windows' = windows /\ spent' = spent
      BY <2>5, <3>1, <3>2, GoesTo
    <3>9. q[1] = "code" /\ q[2] = u /\ q[3] = i
      BY <3>5
    <3>10. i \in DOMAIN db.codes /\ ~db.codes[i].used /\ e.codes[i].used
      BY <1>1, <2>2, <2>5, CodeStatements
    <3>11. Accepted(q)'
      <4>1. i \in Given(e)
        <5>1. db.seq \in Nat /\ e.seq \in Nat /\ db.seq <= e.seq
          BY <1>1, <2>3, DatabaseFacts DEF Kept, UsersKept
        <5> QED BY <3>4, <5>1 DEF Given
      <4> QED BY <3>8, <3>9, <3>10, <4>1 DEF Accepted
    <3>12. ~Accepted(q)
      BY <3>9, <3>10 DEF Accepted
    <3>13. Proves(x)
      BY <3>6 DEF Proves
    <3> QED BY <1>3, <1>5, <2>3, <3>6, <3>7, <3>8, <3>9, <3>11, <3>12, <3>13, ProveStep
  <2> QED BY <2>1, <2>2, <2>4, <2>5 DEF Tries
<1> QED BY <1>6, <1>7

\* The challenge is spent, and the session opened.
LEMMA VerifySpends ==
    ASSUME AuthInv, NEW c \in Clients, VerifyMfa(c), Still, Descends(c),
           At(c, "VerifyMfa", "spend") \/ At(c, "VerifyMfa", "session")
    PROVE  AuthInv'
<1>1. /\ TaskTyped(task[c], db) /\ Kept(db, db) /\ Typed /\ IsDatabase(db) /\ Given(db) = 0..(db.seq - 1)
  BY Known
<1>2. task[c].op = "VerifyMfa" /\ task[c].at # "challenge"
  BY DEF At
<1>3. ~Writing(task[c]) /\ ~Revoking(task[c])
  BY <1>2 DEF Writing, Revoking
<1>4. task[c].user \in Users /\ "proof" \in DOMAIN task[c] /\ task[c].remember \in BOOLEAN
  BY <1>1, <1>2 DEF TaskTyped, VerifyTyped, At, Has
<1>5. Proves(task[c])
  BY DEF At, Proves
<1>6. PICK k, u : k = task[c].token /\ u = task[c].user
  OBVIOUS
<1>7. CASE At(c, "VerifyMfa", "spend")
  <2>1. Tries(c, delete_challenge(db, k), [at |-> "session"])
    BY <1>6, <1>7 DEF VerifyMfa, At
  <2>2. PICK e : e = delete_challenge(db, k).db
    OBVIOUS
  <2>3. Kept(db, e)
    BY <1>1, <2>2, ChallengeStatements
  <2>4. CASE Replies(c, e)
    BY <1>3, <2>3, <2>4, RepliesStep
  <2>5. CASE delete_challenge(db, k).ok /\ Goes(c, [at |-> "session"], e)
    <3>1. PICK t : t = [at |-> "session"]
      OBVIOUS
    <3>2. PICK x : x = Over(t, task[c])
      OBVIOUS
    <3>3. "at" \in DOMAIN t /\ DOMAIN t \subseteq {"at", "row", "proof"} /\ t.at = "session"
          /\ "proof" \in DOMAIN task[c] \ DOMAIN t
      BY <1>4, <3>1
    <3>4. /\ Has(x, {"op", "at", "token", "code", "user", "remember"}) /\ "proof" \in DOMAIN x
          /\ x.op = "VerifyMfa" /\ x.at = "session" /\ x.token = task[c].token /\ x.code = task[c].code
          /\ x.user = task[c].user /\ x.remember = task[c].remember /\ x.proof = task[c].proof
          /\ task[c].token \in 0..(db.seq - 1) /\ task[c].code \in Presented /\ task[c].remember \in BOOLEAN
          /\ VerifyTyped(x, db.seq) => TaskTyped(x, db)
      BY <1>1, <1>2, <3>2, <3>3, VerifyMoves
    <3>5. VerifyTyped(x, db.seq)
      BY <1>4, <3>4 DEF VerifyTyped, Has
    <3>6. task' = [task EXCEPT ![c] = x] /\ db' = e /\ windows' = windows /\ spent' = spent
      BY <2>5, <3>1, <3>2, GoesTo
    <3>7. TakesToken(x) /\ ~Checking(x) /\ ~Writing(x) /\ ~MayFail(x)
      BY <3>4 DEF TakesToken, Checking, Writing, MayFail
    <3> QED BY <1>3, <1>5, <1>6, <2>2, <2>5, <3>4, <3>5, <3>6, <3>7, TakeStep
  <2> QED BY <2>1, <2>2, <2>4, <2>5 DEF Tries
<1>8. CASE At(c, "VerifyMfa", "session")
  <2>1. PICK proofs, b : proofs = {task[c].proof, <<"challenge", u, k>>} /\ b = TRUE
    OBVIOUS
  <2>2. build_session(c, u, proofs, b)
    BY <1>6, <1>8, <2>1 DEF VerifyMfa, At
  <2>3. Holds(task[c], k)
    BY <1>6, <1>8 DEF Holds, TakesToken, At
  <2>4. \A q \in proofs : \/ q[1] = "challenge" /\ Holds(task[c], q[3])
                          \/ Proves(task[c]) /\ q = task[c].proof
    BY <1>5, <2>1, <2>3
  <2>5. Earned(u, Stamp(c, u))
    BY <1>6, <1>8, Speaks DEF Still, Inserts
  <2> QED BY <1>3, <1>4, <1>6, <2>2, <2>4, <2>5, BuildStep
<1> QED BY <1>7, <1>8

\* VerifyMfaUseCase.
LEMMA VerifyStep ==
    ASSUME AuthInv, NEW c \in Clients, VerifyMfa(c), Still, Descends(c)
    PROVE  AuthInv'
<1>1. \/ At(c, "VerifyMfa", "challenge") \/ At(c, "VerifyMfa", "user") \/ At(c, "VerifyMfa", "mfa")
      \/ At(c, "VerifyMfa", "totp")
      \/ At(c, "VerifyMfa", "codes") \/ At(c, "VerifyMfa", "mark")
      \/ At(c, "VerifyMfa", "spend") \/ At(c, "VerifyMfa", "session")
  BY DEF VerifyMfa
<1> QED BY <1>1, VerifyReads, VerifyTotp, VerifyRecovery, VerifySpends

\* The handlers that begin a login.
LEMMA LoginAsked ==
    ASSUME AuthInv, NEW c \in Clients, login_public(c) \/ verify_mfa_public(c) \/ pihole_login(c), Still
    PROVE  AuthInv'
<1>1. Kept(db, db) /\ IsDatabase(db) /\ Given(db) = 0..(db.seq - 1) /\ task[c] = Idle
  BY Known DEF login_public, verify_mfa_public, pihole_login, MayAsk
<1>2. CASE login_public(c)
  <2>1. PICK u \in Users, pw \in Passwords, r \in BOOLEAN : AskLogin(c, u, pw, NoCode, r)
    BY <1>2 DEF login_public
  <2>2. PICK code \in Presented : code = NoCode
    BY CodesPresented
  <2>3. AskLogin(c, u, pw, code, r)
    BY <2>1, <2>2
  <2> QED BY <1>1, <2>3, AskLoginStep
<1>3. CASE verify_mfa_public(c)
  <2>1. PICK token \in DOMAIN db.challenges, code \in Codes :
            Goes(c, [op |-> "VerifyMfa", at |-> "challenge", token |-> token, code |-> code], db)
    BY <1>3 DEF verify_mfa_public
  <2>2. PICK t : t = [op |-> "VerifyMfa", at |-> "challenge", token |-> token, code |-> code]
    OBVIOUS
  <2>3. token \in 0..(db.seq - 1) /\ code \in Presented
    BY <1>1, CodesPresented, DatabaseFacts DEF IsTable
  <2>4. TaskTyped(t, db)
    BY <2>2, <2>3 DEF TaskTyped, LoginTyped, VerifyTyped, PasskeyTyped, SessionTyped,
        UserTyped, Has, Behind,
       Idle
  <2>5. Quiet(t) /\ ~MayFail(t) /\ "op" \in DOMAIN t /\ t = [f \in DOMAIN t |-> t[f]]
    BY <2>2 DEF Quiet, TakesToken, Proves, Checking, Writing, MayFail
  <2> QED BY <1>1, <2>1, <2>2, <2>4, <2>5, AskStep
<1>4. CASE pihole_login(c)
  <2>1. PICK pw \in Passwords \cup Tokens, code \in Codes :
            Goes(c, [op |-> "AppPassword", at |-> "token", user |-> Admin, pw |-> pw, code |-> code,
                     remember |-> FALSE], db)
    BY <1>4 DEF pihole_login
  <2>2. PICK t : t = [op |-> "AppPassword", at |-> "token", user |-> Admin, pw |-> pw, code |-> code,
                      remember |-> FALSE]
    OBVIOUS
  <2>3. code \in Presented /\ Admin \in Users
    BY CodesPresented DEF Users
  <2>4. TaskTyped(t, db)
    BY <2>2, <2>3 DEF TaskTyped, LoginTyped, VerifyTyped, PasskeyTyped, SessionTyped,
        UserTyped, Has, Behind,
       Idle
  <2>5. Quiet(t) /\ ~MayFail(t) /\ "op" \in DOMAIN t /\ t = [f \in DOMAIN t |-> t[f]]
    BY <2>2 DEF Quiet, TakesToken, Proves, Checking, Writing, MayFail
  <2> QED BY <1>1, <2>1, <2>2, <2>4, <2>5, AskStep
<1> QED BY <1>2, <1>3, <1>4

\* AppPasswordLoginUseCase.
LEMMA AppPasswordStep ==
    ASSUME AuthInv, NEW c \in Clients, AppPasswordLogin(c), Still, Descends(c)
    PROVE  AuthInv'
<1>1. Kept(db, db) /\ IsDatabase(db) /\ TaskTyped(task[c], db)
  BY Known
<1>2. task[c].op = "AppPassword"
  BY DEF AppPasswordLogin, At
<1>3. ~Writing(task[c]) /\ ~Revoking(task[c])
  BY <1>2 DEF Writing, Revoking
<1>4. task[c].user \in Users /\ task[c].code \in Presented /\ task[c].remember \in BOOLEAN
  BY <1>1, <1>2 DEF TaskTyped, LoginTyped
<1>5. CASE At(c, "AppPassword", "token")
  <2>1. CASE Replies(c, db)
    BY <1>1, <1>3, <2>1, RepliesStep
  <2>2. CASE Goes(c, [at |-> "password"], db)
    BY <1>1, <1>2, <1>3, <2>2, AwaitStep
  <2>3. CASE Goes(c, [at |-> "used", id |-> CHOOSE i \in get_id_by_hash(db, task[c].pw) : TRUE], db)
    <3>1. PICK i : i = CHOOSE j \in get_id_by_hash(db, task[c].pw) : TRUE
      OBVIOUS
    <3>2. PICK t : t = [at |-> "used", id |-> i]
      OBVIOUS
    <3>3. "at" \in DOMAIN t /\ DOMAIN t \subseteq {"at", "totp", "id"} /\ t.at = "used" /\ Goes(c, t, db)
      BY <2>3, <3>1, <3>2
    <3> QED BY <1>1, <1>2, <1>3, <3>3, StageStep
  <2> QED BY <1>5, <2>1, <2>2, <2>3 DEF AppPasswordLogin, At
<1>6. CASE At(c, "AppPassword", "used")
  <2>1. PICK e : e = update_last_used(db, task[c].id)
    OBVIOUS
  <2>2. Kept(db, e) /\ Goes(c, [at |-> "user"], e)
    BY <1>1, <1>6, <2>1, TokenStatements DEF AppPasswordLogin, At
  <2> QED BY <1>2, <1>3, <2>2, AwaitStep
<1>7. CASE At(c, "AppPassword", "user")
  <2>1. PICK v : v = IF \E row \in get_by_username(task[c].user) : row.enabled THEN "session" ELSE "password"
    OBVIOUS
  <2>2. v \in {"session", "password"} /\ Goes(c, [at |-> v], db)
    BY <1>7, <2>1 DEF AppPasswordLogin, At
  <2> QED BY <1>1, <1>2, <1>3, <2>2, AwaitStep
<1>8. CASE At(c, "AppPassword", "session")
  <2>1. PICK u, none, b : u = task[c].user /\ none = {} /\ b = TRUE
    OBVIOUS
  <2>2. u \in Users /\ build_session(c, u, none, b) /\ \A q \in none : FALSE
    BY <1>4, <1>8, <2>1 DEF AppPasswordLogin, At
  <2>3. Earned(u, Stamp(c, u))
    BY <1>8, <2>1, Speaks DEF Still, Inserts
  <2> QED BY <1>3, <1>4, <2>2, <2>3, BuildStep
<1>9. CASE At(c, "AppPassword", "password")
  <2>1. PICK u, pw, code, b : u = task[c].user /\ pw = task[c].pw /\ code = task[c].code /\ b = FALSE
    OBVIOUS
  <2>2. u \in Users /\ code \in Presented /\ b \in BOOLEAN
    BY <1>4, <2>1
  <2>3. AskLogin(c, u, pw, code, b)
    BY <1>9, <2>1 DEF AppPasswordLogin, At
  <2> QED BY <1>2, <2>2, <2>3, AskLoginStep
<1> QED BY <1>5, <1>6, <1>7, <1>8, <1>9 DEF AppPasswordLogin

\* A challenge that is of no use is deleted, or left.
LEMMA UnusableKept ==
    ASSUME IsDatabase(db), NEW c, NEW k
    PROVE  /\ Kept(db, Unusable(c, k, Webauthn))
           /\ Kept(db, delete_challenge(db, k).db)
<1>1. Kept(db, db) /\ Kept(db, delete_challenge(db, k).db)
  BY NothingDone, ChallengeStatements
<1>2. Unusable(c, k, Webauthn) \in {db, delete_challenge(db, k).db}
  BY DEF Unusable
<1> QED BY <1>1, <1>2

\* A challenge read from the table.
LEMMA ChallengeRead ==
    ASSUME IsDatabase(db), NEW k \in DOMAIN db.challenges, NEW r \in get_challenge(db, k)
    PROVE  /\ k \in 0..(db.seq - 1) /\ r.user \in Users \cup {""} /\ r.remember \in BOOLEAN /\ r.expires \in Nat
<1>1. IsTable(db.challenges, Given(db), ChallengeRows)
  BY DatabaseFacts
<1>2. r \in ChallengeRows /\ k \in 0..(db.seq - 1)
  BY <1>1 DEF get_challenge, Find, IsTable, Given
<1> QED BY <1>2 DEF ChallengeRows

\* PasskeyStart: the challenge is taken out and written again as a ceremony's.
LEMMA PasskeyStartStep ==
    ASSUME AuthInv, NEW c \in Clients, AuthenticatePasskey_start(c), Still, Descends(c)
    PROVE  AuthInv'
<1>1. Kept(db, db) /\ IsDatabase(db) /\ TaskTyped(task[c], db) /\ Typed /\ now \in Nat /\ db.seq \in Nat
  BY Known
<1>2. CASE webauthn_authenticate_start_public(c)
  <2>1. task[c] = Idle
    BY <1>2 DEF webauthn_authenticate_start_public, MayAsk
  <2>2. PICK k \in DOMAIN db.challenges : \E r \in get_challenge(db, k) :
            IF is_expired(r) THEN Replies(c, delete_challenge(db, k).db)
            ELSE Goes(c, [op |-> "PasskeyStart", at |-> "list", token |-> k, user |-> r.user,
                          remember |-> r.remember, expires |-> r.expires], db)
    BY <1>2 DEF webauthn_authenticate_start_public
  <2>3. PICK r \in get_challenge(db, k) :
            IF is_expired(r) THEN Replies(c, delete_challenge(db, k).db)
            ELSE Goes(c, [op |-> "PasskeyStart", at |-> "list", token |-> k, user |-> r.user,
                          remember |-> r.remember, expires |-> r.expires], db)
    BY <2>2
  <2>4. CASE Replies(c, delete_challenge(db, k).db)
    <3>1. PICK e : e = delete_challenge(db, k).db
      OBVIOUS
    <3>2. Kept(db, e) /\ Replies(c, e)
      BY <1>1, <2>4, <3>1, UnusableKept
    <3> QED BY <2>1, <3>2, AnswerStep
  <2>5. CASE Goes(c, [op |-> "PasskeyStart", at |-> "list", token |-> k, user |-> r.user,
                      remember |-> r.remember, expires |-> r.expires], db)
    <3>1. PICK t : t = [op |-> "PasskeyStart", at |-> "list", token |-> k, user |-> r.user,
                        remember |-> r.remember, expires |-> r.expires]
      OBVIOUS
    <3>2. k \in 0..(db.seq - 1) /\ r.user \in Users \cup {""} /\ r.remember \in BOOLEAN /\ r.expires \in Nat
      BY <1>1, <2>2, <2>3, ChallengeRead
    <3>3. TaskTyped(t, db)
      BY <3>1, <3>2 DEF TaskTyped, LoginTyped, VerifyTyped, PasskeyTyped, SessionTyped,
          UserTyped, Has, Behind,
         Idle
    <3>4. Quiet(t) /\ ~MayFail(t) /\ "op" \in DOMAIN t /\ t = [f \in DOMAIN t |-> t[f]]
      BY <3>1 DEF Quiet, TakesToken, Proves, Checking, Writing, MayFail
    <3> QED BY <1>1, <2>1, <2>5, <3>1, <3>3, <3>4, AskStep
  <2> QED BY <2>3, <2>4, <2>5
<1>3. CASE task[c].op = "PasskeyStart"
  <2>1. ~Writing(task[c]) /\ ~Revoking(task[c])
    BY <1>3 DEF Writing, Revoking
  <2>2. /\ task[c].token \in 0..(db.seq - 1) /\ task[c].remember \in BOOLEAN /\ task[c].expires \in Nat
        /\ task[c].user \in Users \cup {""} /\ Has(task[c], {"op", "token"})
    BY <1>1, <1>3 DEF TaskTyped, PasskeyTyped, Has
  <2>3. CASE At(c, "PasskeyStart", "list")
    <3>1. CASE Replies(c, db)
      BY <1>1, <2>1, <3>1, RepliesStep
    <3>2. CASE Goes(c, [at |-> "delete"], db)
      BY <1>1, <1>3, <2>1, <3>2, AwaitStep
    <3> QED BY <1>3, <2>3, <3>1, <3>2
            DEF AuthenticatePasskey_start, At, webauthn_authenticate_start_public, MayAsk, Idle
  <2>4. CASE At(c, "PasskeyStart", "delete")
    <3>1. PICK k, e : k = task[c].token /\ e = delete_challenge(db, k).db
      OBVIOUS
    <3>2. Tries(c, delete_challenge(db, k), [at |-> "create"]) /\ Kept(db, e)
      BY <1>1, <1>3, <2>4, <3>1, UnusableKept
         DEF AuthenticatePasskey_start, At, webauthn_authenticate_start_public, MayAsk, Idle
    <3>3. CASE Replies(c, e)
      BY <2>1, <3>2, <3>3, RepliesStep
    <3>4. CASE delete_challenge(db, k).ok /\ Goes(c, [at |-> "create"], e)
      <4>1. PICK t : t = [at |-> "create"]
        OBVIOUS
      <4>2. PICK x : x = Over(t, task[c])
        OBVIOUS
      <4>3. task' = [task EXCEPT ![c] = x] /\ db' = e /\ windows' = windows /\ spent' = spent
        BY <3>4, <4>1, <4>2, GoesTo
      <4>4. "at" \in DOMAIN t /\ DOMAIN t \subseteq {"at", "totp", "id"} /\ t.at = "create"
        BY <4>1
      <4>5. TaskTyped(x, db) /\ x.op = "PasskeyStart" /\ x.at = "create"
        BY <1>1, <1>3, <4>2, <4>4, StageTyped
      <4>6. x.token = k
        BY <2>2, <3>1, <4>1, <4>2 DEF Over, Has
      <4>7. TakesToken(x) /\ ~Checking(x) /\ ~Writing(x) /\ ~MayFail(x) /\ ~Proves(x)
        BY <4>5 DEF TakesToken, Checking, Writing, MayFail, Proves
      <4> QED BY <2>1, <3>1, <3>4, <4>3, <4>5, <4>6, <4>7, TakeStep
    <3> QED BY <3>1, <3>2, <3>3, <3>4 DEF Tries
  <2>5. CASE At(c, "PasskeyStart", "create")
    <3>1. PICK v : v = [user |-> task[c].user, kind |-> "Webauthn", state |-> <<"authenticate", db.seq>>,
                        expires |-> task[c].expires, remember |-> task[c].remember,
                        stamp |-> Stamp(c, task[c].user)]
      OBVIOUS
    <3>2. v = [Ceremony(c, task[c].user, "authenticate", task[c].remember) EXCEPT !.expires = task[c].expires]
      BY <3>1 DEF Ceremony
    <3>3. v \in ChallengeRows /\ Fresh(v)
      <4>1. <<"authenticate", db.seq>> \in Ceremonies \X Nat
        BY <1>1 DEF Ceremonies
      <4>2. Stamp(c, task[c].user) \in Stamps /\ Earned(task[c].user, Stamp(c, task[c].user))
        BY <2>5, Speaks DEF Still, Inserts
      <4> QED BY <2>2, <3>1, <4>1, <4>2 DEF ChallengeRows, Fresh
    <3>4. PICK k, e : k = task[c].token /\ e = create_challenge([db EXCEPT !.seq = @ + 1], k, v)
      OBVIOUS
    <3>5. Replies(c, e)
      BY <1>3, <2>5, <3>2, <3>4
         DEF AuthenticatePasskey_start, At, webauthn_authenticate_start_public, MayAsk, Idle
    <3>6. task' = [task EXCEPT ![c] = Idle] /\ db' = e /\ windows' = windows /\ spent' = spent
      BY <3>5 DEF Replies
    <3>7. Holds(task[c], k)
      BY <2>5, <3>4 DEF Holds, TakesToken, At
    <3> QED BY <2>1, <3>3, <3>4, <3>6, <3>7, IdleTask, ChallengeStep
  <2>6. At(c, "PasskeyStart", "list") \/ At(c, "PasskeyStart", "delete") \/ At(c, "PasskeyStart", "create")
    BY <1>3 DEF AuthenticatePasskey_start, At, webauthn_authenticate_start_public, MayAsk,
        Idle
  <2> QED BY <2>3, <2>4, <2>5, <2>6
<1> QED BY <1>2, <1>3 DEF AuthenticatePasskey_start, At

\* Times and counters grow within the naturals.
LEMMA SumNat == \A m, n \in Nat : m + n \in Nat
OBVIOUS

\* A ceremony's challenge is a row, of the user that the request speaks for.
LEMMA CeremonyRow ==
    ASSUME AuthInv, Bearers, NEW c \in Clients, NEW u \in Users \cup {""}, NEW what \in Ceremonies,
           NEW r \in BOOLEAN, Earned(u, Stamp(c, u))
    PROVE  Ceremony(c, u, what, r) \in ChallengeRows /\ Fresh(Ceremony(c, u, what, r))
<1>1. Typed /\ now \in Nat /\ db.seq \in Nat
  BY Known
<1>2. now + ChallengeTtl \in Nat
  <2>1. ChallengeTtl \in Nat
    BY AuthAssumption
  <2> QED BY <1>1, <2>1, SumNat
<1>3. <<what, db.seq>> \in Ceremonies \X Nat /\ Stamp(c, u) \in Stamps
  BY <1>1, StampTyped
<1>4. PICK n, k, z : n = now + ChallengeTtl /\ k = <<what, db.seq>> /\ z = Stamp(c, u)
  OBVIOUS
<1>5. PICK v : v = [user |-> u, kind |-> "Webauthn", state |-> k, expires |-> n, remember |-> r, stamp |-> z]
  OBVIOUS
<1>6. v \in ChallengeRows /\ v.user = u /\ v.stamp = z
  BY <1>2, <1>3, <1>4, <1>5 DEF ChallengeRows
<1>7. Ceremony(c, u, what, r) = v
  BY <1>4, <1>5 DEF Ceremony
<1> QED BY <1>4, <1>6, <1>7 DEF Fresh

\* A challenge is made, and the request answered.
LEMMA CeremonyStep ==
    ASSUME AuthInv, NEW c \in Clients, NEW u \in Users \cup {""}, NEW what \in Ceremonies, NEW r \in BOOLEAN,
           Replies(c, create_challenge([db EXCEPT !.seq = @ + 1], db.seq, Ceremony(c, u, what, r))), Still,
           Earned(u, Stamp(c, u)),
           ~Writing(task[c]), ~Revoking(task[c])
    PROVE  AuthInv'
<1>1. PICK v, k : v = Ceremony(c, u, what, r) /\ k = db.seq
  OBVIOUS
<1>2. v \in ChallengeRows /\ Fresh(v)
  BY <1>1, CeremonyRow DEF Still, Grows
<1>3. /\ task' = [task EXCEPT ![c] = Idle] /\ db' = create_challenge([db EXCEPT !.seq = @ + 1], k, v)
      /\ windows' = windows /\ spent' = spent
  BY <1>1 DEF Replies
<1> QED BY <1>1, <1>2, <1>3, IdleTask, ChallengeStep

\* A passkey answers a ceremony.
LEMMA FinishStep ==
    ASSUME AuthInv, NEW c \in Clients, NEW what \in {"authenticate", "discover"}, task[c] = Idle,
           Finish(c, what), Still
    PROVE  AuthInv'
<1>1. Kept(db, db) /\ IsDatabase(db) /\ IsTable(db.creds, Given(db), CredRows)
  BY Known, DatabaseFacts
<1>2. PICK k \in DOMAIN db.challenges, by \in DOMAIN db.creds : \E r \in get_challenge(db, k) :
        IF ~Webauthn(r) \/ is_expired(r) THEN Replies(c, Unusable(c, k, Webauthn))
        ELSE /\ r.state[1] = what
             /\ \E bump \in {0, 1} :
                   Goes(c, [op |-> what, at |-> "count", token |-> k, by |-> by,
                            user |-> IF r.user = "" THEN db.creds[by].user ELSE r.user,
                            count |-> db.creds[by].count + bump, remember |-> r.remember], db)
  BY DEF Finish
<1>3. PICK r \in get_challenge(db, k) :
        IF ~Webauthn(r) \/ is_expired(r) THEN Replies(c, Unusable(c, k, Webauthn))
        ELSE /\ r.state[1] = what
             /\ \E bump \in {0, 1} :
                   Goes(c, [op |-> what, at |-> "count", token |-> k, by |-> by,
                            user |-> IF r.user = "" THEN db.creds[by].user ELSE r.user,
                            count |-> db.creds[by].count + bump, remember |-> r.remember], db)
  BY <1>2
<1>4. CASE Replies(c, Unusable(c, k, Webauthn))
  <2>1. PICK e : e = Unusable(c, k, Webauthn)
    OBVIOUS
  <2>2. Kept(db, e) /\ Replies(c, e)
    BY <1>1, <1>4, <2>1, UnusableKept
  <2> QED BY <2>2, AnswerStep
<1>5. CASE \E bump \in {0, 1} :
               Goes(c, [op |-> what, at |-> "count", token |-> k, by |-> by,
                        user |-> IF r.user = "" THEN db.creds[by].user ELSE r.user,
                        count |-> db.creds[by].count + bump, remember |-> r.remember], db)
  <2>1. PICK bump \in {0, 1} :
               Goes(c, [op |-> what, at |-> "count", token |-> k, by |-> by,
                        user |-> IF r.user = "" THEN db.creds[by].user ELSE r.user,
                        count |-> db.creds[by].count + bump, remember |-> r.remember], db)
    BY <1>5
  <2>2. PICK u, n, b : /\ u = IF r.user = "" THEN db.creds[by].user ELSE r.user
                       /\ n = db.creds[by].count + bump /\ b = r.remember
    OBVIOUS
  <2>3. db.creds[by].user \in Users /\ db.creds[by].count \in Nat
    BY <1>1, <1>2 DEF IsTable, CredRows
  <2>4. k \in 0..(db.seq - 1) /\ r.user \in Users \cup {""} /\ r.remember \in BOOLEAN
    BY <1>1, <1>2, <1>3, ChallengeRead
  <2>5. u \in Users /\ n \in Nat /\ b \in BOOLEAN
    <3>1. u \in Users
      BY <2>2, <2>3, <2>4
    <3>2. bump \in Nat
      <4>1. 0 \in Nat /\ 1 \in Nat
        OBVIOUS
      <4>2. bump \in {0, 1}
        BY <2>1
      <4> QED BY <4>1, <4>2, Zenon
    <3>3. n \in Nat
      BY <2>2, <2>3, <3>2, SumNat, Zenon
    <3> QED BY <2>2, <2>4, <3>1, <3>3
  <2>6. PICK t : t = [op |-> what, at |-> "count", token |-> k, by |-> by, user |-> u, count |-> n, remember |-> b]
    OBVIOUS
  <2>7. Goes(c, t, db)
    BY <2>1, <2>2, <2>6
  <2>8. TaskTyped(t, db)
    BY <2>4, <2>5, <2>6 DEF TaskTyped, LoginTyped, VerifyTyped, PasskeyTyped, SessionTyped,
        UserTyped, Has, Behind,
       Idle
  <2>9. Quiet(t) /\ ~MayFail(t) /\ "op" \in DOMAIN t /\ t = [f \in DOMAIN t |-> t[f]]
    BY <2>6 DEF Quiet, TakesToken, Proves, Checking, Writing, MayFail
  <2> QED BY <1>1, <2>7, <2>8, <2>9, AskStep
<1> QED BY <1>3, <1>4, <1>5

\* The awaits of a passkey's login, of a user or of a discoverable passkey.
LEMMA PasskeyStep ==
    ASSUME AuthInv, NEW c \in Clients, task[c].op \in {"authenticate", "discover"}, Still, Descends(c),
           \/ Replies(c, db) \/ Goes(c, [at |-> "spend"], db)
           \/ Tries(c, update_credential(db, task[c].by, task[c].count), [at |-> "user"])
           \/ Tries(c, delete_challenge(db, task[c].token), [at |-> "session"])
           \/ /\ task[c].at = "session"
              /\ build_session(c, task[c].user, {<<"challenge", task[c].user, task[c].token>>}, FALSE)
    PROVE  AuthInv'
<1>1. Kept(db, db) /\ IsDatabase(db) /\ TaskTyped(task[c], db)
  BY Known
<1>2. ~Writing(task[c]) /\ ~Revoking(task[c]) /\ task[c].op \in {"authenticate", "discover"}
  BY DEF Writing, Revoking
<1>3. /\ task[c].token \in 0..(db.seq - 1) /\ task[c].remember \in BOOLEAN /\ task[c].count \in Nat
      /\ task[c].user \in Users /\ Has(task[c], {"op", "token"})
  BY <1>1, <1>2 DEF TaskTyped, PasskeyTyped, Has
<1>4. CASE Replies(c, db)
  BY <1>1, <1>2, <1>4, RepliesStep
<1>5. CASE Goes(c, [at |-> "spend"], db)
  BY <1>1, <1>2, <1>5, AwaitStep
<1>6. CASE Tries(c, update_credential(db, task[c].by, task[c].count), [at |-> "user"])
  <2>1. PICK e : e = update_credential(db, task[c].by, task[c].count).db
    OBVIOUS
  <2>2. Kept(db, e)
    BY <1>1, <1>3, <2>1, CredentialStatements
  <2>3. Replies(c, e) \/ Goes(c, [at |-> "user"], e)
    BY <1>6, <2>1 DEF Tries
  <2>4. CASE Replies(c, e)
    BY <1>2, <2>2, <2>4, RepliesStep
  <2>5. CASE Goes(c, [at |-> "user"], e)
    BY <1>2, <2>2, <2>5, AwaitStep
  <2> QED BY <2>3, <2>4, <2>5
<1>7. CASE Tries(c, delete_challenge(db, task[c].token), [at |-> "session"])
  <2>1. PICK k, e : k = task[c].token /\ e = delete_challenge(db, k).db
    OBVIOUS
  <2>2. Kept(db, e)
    BY <1>1, <2>1, UnusableKept
  <2>3. CASE Replies(c, e)
    BY <1>2, <2>2, <2>3, RepliesStep
  <2>4. CASE delete_challenge(db, k).ok /\ Goes(c, [at |-> "session"], e)
    <3>1. PICK t : t = [at |-> "session"]
      OBVIOUS
    <3>2. PICK x : x = Over(t, task[c])
      OBVIOUS
    <3>3. task' = [task EXCEPT ![c] = x] /\ db' = e /\ windows' = windows /\ spent' = spent
      BY <2>4, <3>1, <3>2, GoesTo
    <3>4. "at" \in DOMAIN t /\ DOMAIN t \subseteq {"at", "totp", "id"} /\ t.at = "session"
      BY <3>1
    <3>5. TaskTyped(x, db) /\ x.op = task[c].op /\ x.at = "session"
      <4>1. task[c].op \notin {"none", "VerifyMfa", "DeleteUser", "ChangePassword", "SetupPassword"}
        BY <1>2
      <4>2. TaskTyped(task[c], db) /\ "at" \in DOMAIN t /\ DOMAIN t \subseteq {"at", "totp", "id"}
        BY <1>1, <3>4
      <4>3. PICK y : y = task[c]
        OBVIOUS
      <4>4. /\ TaskTyped(y, db) /\ y.op \notin {"none", "VerifyMfa", "DeleteUser"} /\ x = Over(t, y)
            /\ y.op \notin {"ChangePassword", "SetupPassword"}
        BY <3>2, <4>1, <4>2, <4>3
      <4>5. TaskTyped(x, db) /\ x.op = y.op /\ x.at = t.at
        BY <4>2, <4>4, StageTyped
      <4> QED BY <3>4, <4>3, <4>5
    <3>6. x.token = k
      BY <1>3, <2>1, <3>1, <3>2 DEF Over, Has
    <3>7. TakesToken(x) /\ ~Checking(x) /\ ~Writing(x) /\ ~MayFail(x) /\ ~Proves(x)
      BY <1>2, <3>5 DEF TakesToken, Checking, Writing, MayFail, Proves
    <3> QED BY <1>2, <2>1, <2>4, <3>3, <3>5, <3>6, <3>7, TakeStep
  <2> QED BY <1>7, <2>1, <2>3, <2>4 DEF Tries
<1>8. CASE /\ task[c].at = "session"
           /\ build_session(c, task[c].user, {<<"challenge", task[c].user, task[c].token>>}, FALSE)
  <2>1. PICK u, k, b : u = task[c].user /\ k = task[c].token /\ b = FALSE
    OBVIOUS
  <2>2. PICK proofs : proofs = {<<"challenge", u, k>>}
    OBVIOUS
  <2>3. build_session(c, u, proofs, b) /\ u \in Users
    BY <1>3, <1>8, <2>1, <2>2
  <2>4. Holds(task[c], k)
    BY <1>2, <1>8, <2>1 DEF Holds, TakesToken
  <2>5. \A q \in proofs : q[1] = "challenge" /\ Holds(task[c], q[3])
    BY <2>2, <2>4
  <2>6. PICK op, at : op = task[c].op /\ at = task[c].at
    OBVIOUS
  <2>7. At(c, op, at) /\ <<op, at>> \in Inserts
    BY <1>2, <1>8, <2>6 DEF At, Inserts
  <2>8. Earned(u, Stamp(c, u))
    BY <2>1, <2>7, Speaks DEF Still
  <2> QED BY <1>2, <1>3, <2>3, <2>5, <2>8, BuildStep
<1> QED BY <1>4, <1>5, <1>6, <1>7, <1>8

\* The passkeys' logins.
LEMMA PasskeyLogins ==
    ASSUME AuthInv, NEW c \in Clients, Still, Descends(c),
           AuthenticatePasskey_finish(c) \/ DiscoverablePasskey_start(c) \/ DiscoverablePasskey_finish(c)
    PROVE  AuthInv'
<1>1. CASE AuthenticatePasskey_finish(c)
  <2>1. CASE webauthn_authenticate_finish_public(c)
    BY <2>1, FinishStep DEF webauthn_authenticate_finish_public, MayAsk
  <2>2. CASE task[c].op = "authenticate" /\ ~webauthn_authenticate_finish_public(c)
    BY <1>1, <2>2, PasskeyStep DEF AuthenticatePasskey_finish, At
  <2> QED BY <1>1, <2>1, <2>2 DEF AuthenticatePasskey_finish, At
<1>2. CASE DiscoverablePasskey_start(c)
  <2>1. task[c] = Idle
    BY <1>2 DEF DiscoverablePasskey_start, MayAsk
  <2>2. ~Writing(task[c]) /\ ~Revoking(task[c])
    BY <2>1, IdleTask DEF Quiet
  <2>3. PICK u, what, r : u = "" /\ what = "discover" /\ r = FALSE
    OBVIOUS
  <2>4. u \in Users \cup {""} /\ what \in Ceremonies /\ r \in BOOLEAN
    BY <2>3 DEF Ceremonies
  <2>5. Replies(c, create_challenge([db EXCEPT !.seq = @ + 1], db.seq, Ceremony(c, u, what, r)))
    BY <1>2, <2>3 DEF DiscoverablePasskey_start
  <2>6. Earned(u, Stamp(c, u))
    BY <2>3, AuthAssumption DEF Earned
  <2> QED BY <2>2, <2>4, <2>5, <2>6, CeremonyStep
<1>3. CASE DiscoverablePasskey_finish(c)
  <2>1. CASE webauthn_discoverable_finish_public(c)
    BY <2>1, FinishStep DEF webauthn_discoverable_finish_public, MayAsk
  <2>2. CASE task[c].op = "discover" /\ ~webauthn_discoverable_finish_public(c)
    BY <1>3, <2>2, PasskeyStep DEF DiscoverablePasskey_finish, At
  <2> QED BY <1>3, <2>1, <2>2 DEF DiscoverablePasskey_finish, At
<1> QED BY <1>1, <1>2, <1>3

\* A session is looked up, and the request goes on for its user.
LEMMA ValidateStep ==
    ASSUME AuthInv, NEW c \in Clients, NEW sid, NEW t, ValidateSession(c, sid, t), Still,
           ~Writing(task[c]), ~Revoking(task[c]), Has(t, {"op", "at"}),
           Resumes(t) \/ (t.op = "session" /\ t.at = "again" /\ Has(t, {"then"}) /\ Resumes(t.then))
    PROVE  AuthInv'
<1>1. /\ Kept(db, db) /\ IsDatabase(db) /\ IsTable(db.sessions, Given(db), SessionRows)
      /\ now \in Nat /\ db.seq \in Nat
  BY Known, DatabaseFacts
<1>2. CASE Replies(c, db)
  BY <1>1, <1>2, RepliesStep
<1>3. CASE Replies(c, delete_session_row(db, sid))
  <2>1. PICK e : e = delete_session_row(db, sid)
    OBVIOUS
  <2>2. Kept(db, e) /\ Replies(c, e)
    BY <1>1, <1>3, <2>1, SessionStatements
  <2> QED BY <2>2, RepliesStep
<1>4. CASE /\ sid \in DOMAIN db.sessions
           /\ Goes(c, Over([user |-> db.sessions[sid].user, sid |-> sid], t), update_last_seen(db, sid, now))
  <2>1. PICK u, e : u = db.sessions[sid].user /\ e = update_last_seen(db, sid, now)
    OBVIOUS
  <2>2. PICK o : o = [user |-> u, sid |-> sid]
    OBVIOUS
  <2>3. PICK z : z = Over(o, t)
    OBVIOUS
  <2>4. PICK x : x = Over(z, task[c])
    OBVIOUS
  <2>5. Goes(c, z, e) /\ Kept(db, e)
    BY <1>1, <1>4, <2>1, <2>2, <2>3, SessionStatements
  <2>6. u \in Users /\ sid \in Nat
    <3>1. Given(db) \subseteq Nat
      BY <1>1 DEF Given
    <3> QED BY <1>1, <1>4, <2>1, <3>1 DEF IsTable, SessionRows
  <2>7. /\ DOMAIN z = {"user", "sid"} \cup DOMAIN t /\ z.user = u /\ z.sid = sid
        /\ \A f \in DOMAIN t : f \notin {"user", "sid"} => z[f] = t[f]
    BY <2>2, <2>3 DEF Over
  <2>8. DOMAIN z \subseteq DOMAIN x /\ \A f \in DOMAIN z : x[f] = z[f]
    BY <2>4 DEF Over
  <2>9. Has(x, {"op", "at", "user", "sid"}) /\ x.op = t.op /\ x.at = t.at /\ x.user = u /\ x.sid = sid
    BY <2>7, <2>8 DEF Has
  <2>10. TaskTyped(x, db) /\ Quiet(x) /\ ~MayFail(x)
    <3>1. CASE Resumes(t)
      <4>1. x.op \in Behind /\ x.at \in {"read", "create", "go"}
        BY <2>9, <3>1 DEF Resumes
      <4>2. Carries(x)
        BY <2>7, <2>8, <2>9, <3>1 DEF Resumes, Carries, Has
      <4>3. SessionTyped(x)
        BY <2>6, <2>9, <4>1, <4>2 DEF SessionTyped, Behind, Has
      <4>4. TaskTyped(x, db)
        BY <2>9, <4>1, <4>3 DEF TaskTyped, LoginTyped, VerifyTyped, PasskeyTyped, UserTyped,
            Has, Behind, Idle
      <4>5. Quiet(x) /\ ~MayFail(x)
        BY <4>1 DEF Quiet, TakesToken, Proves, Checking, Writing, MayFail, Behind
      <4> QED BY <4>4, <4>5
    <3>2. CASE t.op = "session" /\ t.at = "again" /\ Has(t, {"then"}) /\ Resumes(t.then)
      <4>1. Has(x, {"then"}) /\ x.then = t.then
        BY <2>7, <2>8, <3>2 DEF Has
      <4>2. SessionTyped(x)
        BY <2>9, <3>2, <4>1 DEF SessionTyped, Behind, Has
      <4>3. TaskTyped(x, db)
        BY <2>9, <3>2, <4>2 DEF TaskTyped, LoginTyped, VerifyTyped, PasskeyTyped, UserTyped,
            Has, Idle
      <4>4. Quiet(x) /\ ~MayFail(x)
        BY <2>9, <3>2 DEF Quiet, TakesToken, Proves, Checking, Writing, MayFail
      <4> QED BY <4>3, <4>4
    <3> QED BY <3>1, <3>2
  <2> QED BY <2>4, <2>5, <2>10, GoesStep
<1> QED BY <1>2, <1>3, <1>4 DEF ValidateSession

\* A request of a session begins, and the session is looked up again by its handler.
LEMMA RequireStep ==
    ASSUME AuthInv, NEW c \in Clients, NEW name, NEW t, Resumes(t), require_auth(c, name, t), Still
    PROVE  AuthInv'
<1>1. ~Writing(task[c]) /\ ~Revoking(task[c])
  BY IdleTask DEF Quiet, require_auth, MayAsk
<1>2. PICK z : z = [op |-> "session", at |-> "again", name |-> name, then |-> t]
  OBVIOUS
<1>3. PICK sid : ValidateSession(c, sid, z)
  BY <1>2 DEF require_auth
<1>4. Has(z, {"op", "at", "then"}) /\ z.op = "session" /\ z.at = "again" /\ z.then = t
  BY <1>2 DEF Has
<1> QED BY <1>1, <1>3, <1>4, ValidateStep DEF Has

\* The session is there, and the request goes on.
LEMMA CurrentSession ==
    ASSUME AuthInv, NEW c \in Clients, current_session(c), Still
    PROVE  AuthInv'
<1>1. TaskTyped(task[c], db) /\ task[c].op = "session"
  BY Known DEF current_session, At
<1>2. ~Writing(task[c]) /\ ~Revoking(task[c])
  BY <1>1 DEF Writing, Revoking
<1>3. PICK sid, t : sid = task[c].sid /\ t = task[c].then
  OBVIOUS
<1>4. ValidateSession(c, sid, t) /\ Resumes(t)
  BY <1>1, <1>3 DEF current_session, TaskTyped, SessionTyped
<1>5. Has(t, {"op", "at"})
  BY <1>4 DEF Resumes
<1> QED BY <1>2, <1>4, <1>5, ValidateStep

\* A request behind a session: what it carries.
LEMMA BehindTyped ==
    ASSUME AuthInv, NEW c \in Clients, task[c].op \in Behind
    PROVE  /\ task[c].user \in Users /\ task[c].sid \in Nat /\ Has(task[c], {"op", "at", "user", "sid"})
           /\ task[c].op = "ConfirmTotp" => task[c].code \in Presented
           /\ task[c].op = "ChangePassword" => task[c].new \in Passwords /\ Has(task[c], {"new"})
           /\ task[c].op # "ChangePassword" => ~Writing(task[c]) /\ ~Revoking(task[c])
<1>1. TaskTyped(task[c], db)
  BY Known
<1>2. task[c] # Idle
  BY DEF Idle, Behind
<1> QED BY <1>1, <1>2 DEF TaskTyped, SessionTyped, Carries, Has, Behind, Writing, Revoking

\* And how it goes on.
LEMMA BehindStep ==
    ASSUME AuthInv, NEW c \in Clients, task[c].op \in Behind, task[c].op # "ChangePassword", Still,
           NEW e, Kept(db, e),
           \/ Replies(c, e)
           \/ \E v \in {"step", "enable", "codes", "delete", "write", "add", "spend"} : Goes(c, [at |-> v], e)
    PROVE  AuthInv'
<1>1. ~Writing(task[c]) /\ ~Revoking(task[c])
  BY BehindTyped
<1>2. CASE Replies(c, e)
  BY <1>1, <1>2, RepliesStep
<1>3. ASSUME NEW v \in {"step", "enable", "codes", "delete", "write", "add", "spend"}, Goes(c, [at |-> v], e)
      PROVE  AuthInv'
  <2>1. task[c].op \notin {"none", "VerifyMfa", "DeleteUser", "authenticate", "discover"}
    BY DEF Behind
  <2>2. v \notin {"provider", "verify", "create", "config"}
    OBVIOUS
  <2> QED BY <1>1, <1>3, <2>1, <2>2, AwaitStep
<1> QED BY <1>2, <1>3

\* ConfirmTotp.
LEMMA ConfirmStep ==
    ASSUME AuthInv, NEW c \in Clients, ConfirmTotp(c), Still, Descends(c)
    PROVE  AuthInv'
<1>1. Kept(db, db) /\ IsDatabase(db) /\ Typed
  BY Known
<1>2. CASE confirm_totp(c)
  <2>1. PICK code \in Codes :
            require_auth(c, "confirm_totp", [op |-> "ConfirmTotp", at |-> "read", code |-> code])
    BY <1>2 DEF confirm_totp
  <2>2. PICK t : t = [op |-> "ConfirmTotp", at |-> "read", code |-> code]
    OBVIOUS
  <2>3. code \in Presented
    BY CodesPresented
  <2>4. Resumes(t)
    BY <2>2, <2>3 DEF Resumes, Carries, Has, Behind
  <2> QED BY <2>1, <2>2, <2>4, RequireStep
<1>3. CASE ~confirm_totp(c)
  <2>1. task[c].op = "ConfirmTotp" /\ task[c].at \in {"read", "step", "enable", "codes"}
    BY <1>3 DEF ConfirmTotp, At
  <2>2. task[c].op \in Behind /\ task[c].op # "ChangePassword"
    BY <2>1 DEF Behind
  <2>3. task[c].user \in Users /\ task[c].code \in Presented
    BY <2>1, <2>2, BehindTyped
  <2>4. PICK u, n : u = task[c].user /\ n = task[c].code.step
    OBVIOUS
  <2>5. u \in Users /\ n \in Nat
    BY <2>3, <2>4 DEF Presented
  <2>6. CASE At(c, "ConfirmTotp", "read")
    <3>1. Replies(c, db) \/ Goes(c, [at |-> "step"], db)
      BY <1>3, <2>6 DEF ConfirmTotp, At
    <3> QED BY <1>1, <2>2, <3>1, BehindStep
  <2>7. CASE At(c, "ConfirmTotp", "step")
    <3>1. PICK e : e = advance_totp_step(db, u, n).db
      OBVIOUS
    <3>2. Kept(db, e)
      BY <1>1, <2>5, <3>1, MfaStatements
    <3>3. Tries(c, advance_totp_step(db, u, n), [at |-> "enable"])
      BY <1>3, <2>4, <2>7 DEF ConfirmTotp, At
    <3>4. Replies(c, e) \/ Goes(c, [at |-> "enable"], e)
      BY <3>1, <3>3 DEF Tries
    <3> QED BY <2>2, <3>2, <3>4, BehindStep
  <2>8. CASE At(c, "ConfirmTotp", "enable")
    <3>1. PICK e : e = enable(db, u)
      OBVIOUS
    <3>2. Kept(db, e)
      BY <1>1, <3>1, MfaStatements
    <3>3. Goes(c, [at |-> "codes"], e)
      BY <1>3, <2>4, <2>8, <3>1 DEF ConfirmTotp, At
    <3> QED BY <2>2, <3>2, <3>3, BehindStep
  <2>9. CASE At(c, "ConfirmTotp", "codes")
    <3>1. PICK z, e : z = Stamp(c, u) /\ e = replace_recovery_codes(db, u, z)
      OBVIOUS
    <3>2. z \in Stamps /\ Earned(u, z)
      BY <2>4, <2>9, <3>1, Speaks DEF Still, Inserts
    <3>3. Kept(db, e)
      BY <1>1, <2>5, <3>1, <3>2, CodeStatements
    <3>4. Replies(c, e)
      BY <1>3, <2>4, <2>9, <3>1 DEF ConfirmTotp, At
    <3> QED BY <2>2, <3>3, <3>4, BehindStep
  <2> QED BY <2>1, <2>6, <2>7, <2>8, <2>9 DEF At
<1> QED BY <1>2, <1>3

\* DisableMfa.
LEMMA DisableStep ==
    ASSUME AuthInv, NEW c \in Clients, DisableMfa(c), Still
    PROVE  AuthInv'
<1>1. Kept(db, db) /\ IsDatabase(db) /\ Typed
  BY Known
<1>2. CASE disable_mfa(c)
  <2>1. PICK pw \in Passwords :
            require_auth(c, "disable_mfa", [op |-> "DisableMfa", at |-> "read", pw |-> pw])
    BY <1>2 DEF disable_mfa
  <2>2. PICK t : t = [op |-> "DisableMfa", at |-> "read", pw |-> pw]
    OBVIOUS
  <2>3. Resumes(t)
    BY <2>2 DEF Resumes, Carries, Has, Behind
  <2> QED BY <2>1, <2>2, <2>3, RequireStep
<1>3. CASE ~disable_mfa(c)
  <2>1. task[c].op = "DisableMfa" /\ task[c].at \in {"read", "delete"}
    BY <1>3 DEF DisableMfa, At
  <2>2. task[c].op \in Behind /\ task[c].op # "ChangePassword"
    BY <2>1 DEF Behind
  <2>3. CASE At(c, "DisableMfa", "read")
    <3>1. Replies(c, db) \/ Goes(c, [at |-> "delete"], db)
      BY <1>3, <2>3 DEF DisableMfa, At
    <3> QED BY <1>1, <2>2, <3>1, BehindStep
  <2>4. CASE At(c, "DisableMfa", "delete")
    <3>1. PICK u, e : u = task[c].user /\ e = delete_all(db, u)
      OBVIOUS
    <3>2. Kept(db, e)
      BY <1>1, <3>1, UserDeleted
    <3>3. Replies(c, e)
      BY <1>3, <2>4, <3>1 DEF DisableMfa, At
    <3> QED BY <2>2, <3>2, <3>3, BehindStep
  <2> QED BY <2>1, <2>3, <2>4 DEF At
<1> QED BY <1>2, <1>3

\* RegisterPasskey.
LEMMA RegisterStep ==
    ASSUME AuthInv, NEW c \in Clients, RegisterPasskey_start(c) \/ RegisterPasskey_finish(c), Still,
           Descends(c)
    PROVE  AuthInv'
<1>1. Kept(db, db) /\ IsDatabase(db) /\ Typed
  BY Known
<1>2. CASE register_passkey_start(c)
  <2>1. PICK t : t = [op |-> "RegisterStart", at |-> "create"]
    OBVIOUS
  <2>2. Resumes(t)
    BY <2>1 DEF Resumes, Carries, Has, Behind
  <2> QED BY <1>2, <2>1, <2>2, RequireStep DEF register_passkey_start
<1>3. CASE RegisterPasskey_start(c) /\ ~register_passkey_start(c)
  <2>1. task[c].op \in Behind /\ task[c].op # "ChangePassword"
    BY <1>3 DEF RegisterPasskey_start, At, Behind
  <2>2. PICK u, what, r : u = task[c].user /\ what = "register" /\ r = FALSE
    OBVIOUS
  <2>3. u \in Users \cup {""} /\ what \in Ceremonies /\ r \in BOOLEAN /\ ~Writing(task[c]) /\ ~Revoking(task[c])
    BY <2>1, <2>2, BehindTyped DEF Ceremonies
  <2>4. Replies(c, create_challenge([db EXCEPT !.seq = @ + 1], db.seq, Ceremony(c, u, what, r)))
    BY <1>3, <2>2 DEF RegisterPasskey_start
  <2>5. At(c, "RegisterStart", "create")
    BY <1>3 DEF RegisterPasskey_start
  <2>6. Earned(u, Stamp(c, u))
    BY <2>2, <2>5, Speaks DEF Still, Inserts
  <2> QED BY <2>3, <2>4, <2>6, CeremonyStep
<1>4. CASE register_passkey_finish(c)
  <2>1. PICK k : require_auth(c, "register", [op |-> "RegisterFinish", at |-> "read", token |-> k])
    BY <1>4 DEF register_passkey_finish
  <2>2. PICK t : t = [op |-> "RegisterFinish", at |-> "read", token |-> k]
    OBVIOUS
  <2>3. Resumes(t)
    BY <2>2 DEF Resumes, Carries, Has, Behind
  <2> QED BY <2>1, <2>2, <2>3, RequireStep
<1>5. CASE RegisterPasskey_finish(c) /\ ~register_passkey_finish(c)
  <2>1. task[c].op = "RegisterFinish" /\ task[c].at \in {"read", "add", "spend"}
    BY <1>5 DEF RegisterPasskey_finish, At
  <2>2. task[c].op \in Behind /\ task[c].op # "ChangePassword"
    BY <2>1 DEF Behind
  <2>3. PICK k, u : k = task[c].token /\ u = task[c].user
    OBVIOUS
  <2>4. PICK gone : gone = delete_challenge(db, k).db
    OBVIOUS
  <2>5. Kept(db, gone)
    BY <1>1, <2>4, ChallengeStatements
  <2>6. CASE At(c, "RegisterFinish", "read")
    <3>1. Goes(c, [at |-> "add"], db) \/ Replies(c, db) \/ Replies(c, gone)
      BY <1>5, <2>3, <2>4, <2>6 DEF RegisterPasskey_finish, At, Unusable
    <3> QED BY <1>1, <2>2, <2>5, <3>1, BehindStep
  <2>7. CASE At(c, "RegisterFinish", "add")
    <3>1. PICK z, e : z = Stamp(c, u) /\ e = add_credential(db, u, z)
      OBVIOUS
    <3>2. u \in Users /\ z \in Stamps /\ Earned(u, z)
      BY <2>2, <2>3, <2>7, <3>1, BehindTyped, Speaks DEF Still, Inserts
    <3>3. Kept(db, e)
      BY <1>1, <3>1, <3>2, CredentialStatements
    <3>4. Goes(c, [at |-> "spend"], e)
      BY <1>5, <2>3, <2>7, <3>1 DEF RegisterPasskey_finish, At
    <3> QED BY <2>2, <3>3, <3>4, BehindStep
  <2>8. CASE At(c, "RegisterFinish", "spend")
    <3>1. Replies(c, gone)
      BY <1>5, <2>3, <2>4, <2>8 DEF RegisterPasskey_finish, At
    <3> QED BY <2>2, <2>5, <3>1, BehindStep
  <2> QED BY <2>1, <2>6, <2>7, <2>8 DEF At
<1> QED BY <1>2, <1>3, <1>4, <1>5

\* DeletePasskey.
LEMMA DeletePasskeyStep ==
    ASSUME AuthInv, NEW c \in Clients, DeletePasskey(c), Still
    PROVE  AuthInv'
<1>1. IsDatabase(db)
  BY Known
<1>2. CASE delete_passkey(c)
  <2>1. PICK id : require_auth(c, "delete_passkey", [op |-> "DeletePasskey", at |-> "go", id |-> id])
    BY <1>2 DEF delete_passkey
  <2>2. PICK t : t = [op |-> "DeletePasskey", at |-> "go", id |-> id]
    OBVIOUS
  <2>3. Resumes(t)
    BY <2>2 DEF Resumes, Carries, Has, Behind
  <2> QED BY <2>1, <2>2, <2>3, RequireStep
<1>3. CASE ~delete_passkey(c)
  <2>1. PICK e : e = delete_credential(db, task[c].id, task[c].user).db
    OBVIOUS
  <2>2. Kept(db, e)
    BY <1>1, <2>1, CredentialStatements
  <2>3. Replies(c, e) /\ task[c].op = "DeletePasskey"
    BY <1>3, <2>1 DEF DeletePasskey, At
  <2>4. task[c].op \in Behind /\ task[c].op # "ChangePassword"
    BY <2>3 DEF Behind
  <2> QED BY <2>2, <2>3, <2>4, BehindStep
<1> QED BY <1>2, <1>3

\* A request that carries what no part of the invariant looks at.
LEMMA OtherTask ==
    ASSUME NEW t, NEW d, Has(t, {"op", "at"}), t.op \in {"DeleteSession", "UpdateToken"}
    PROVE  TaskTyped(t, d) /\ Quiet(t) /\ ~MayFail(t) /\ ~Writing(t) /\ ~Revoking(t)
BY DEF Idle, TaskTyped, LoginTyped, VerifyTyped, PasskeyTyped, SessionTyped, UserTyped, Has,
    Behind,
   Quiet, TakesToken, Proves, Checking, Writing, MayFail, Revoking

\* Logout, and the sessions' cleanup.
LEMMA LogoutStep ==
    ASSUME AuthInv, NEW c \in Clients, Still,
           logout_public(c) \/ pihole_delete_session(c) \/ SessionCleanup(c)
    PROVE  AuthInv'
<1>1. IsDatabase(db) /\ Kept(db, db)
  BY Known
<1>2. ASSUME NEW sid, Logout(c, sid), ~Writing(task[c]), ~Revoking(task[c]) PROVE AuthInv'
  <2>1. PICK e : e = delete_session_row(db, sid)
    OBVIOUS
  <2>2. Kept(db, e) /\ Replies(c, e)
    BY <1>1, <1>2, <2>1, SessionStatements DEF Logout
  <2> QED BY <1>2, <2>2, RepliesStep
<1>3. CASE logout_public(c)
  <2>1. PICK sid : Logout(c, sid)
    BY <1>3 DEF logout_public
  <2>2. ~Writing(task[c]) /\ ~Revoking(task[c])
    BY <1>3, IdleTask DEF Quiet, logout_public, MayAsk
  <2> QED BY <1>2, <2>1, <2>2
<1>4. CASE pihole_delete_session(c)
  <2>1. CASE MayAsk(c, "logout") /\ \E sid : Goes(c, [op |-> "DeleteSession", at |-> "go", sid |-> sid], db)
    <3>1. PICK sid : Goes(c, [op |-> "DeleteSession", at |-> "go", sid |-> sid], db)
      BY <2>1
    <3>2. PICK t : t = [op |-> "DeleteSession", at |-> "go", sid |-> sid]
      OBVIOUS
    <3>3. "op" \in DOMAIN t /\ t = [f \in DOMAIN t |-> t[f]] /\ Goes(c, t, db)
      BY <3>1, <3>2
    <3>4. TaskTyped(t, db) /\ Quiet(t) /\ ~MayFail(t)
      BY <3>2, OtherTask DEF Has
    <3> QED BY <1>1, <2>1, <3>3, <3>4, AskStep DEF MayAsk
  <2>2. CASE At(c, "DeleteSession", "go") /\ Logout(c, task[c].sid)
    BY <1>2, <2>2 DEF At, Writing, Revoking
  <2> QED BY <1>4, <2>1, <2>2 DEF pihole_delete_session
<1>5. CASE SessionCleanup(c)
  <2>1. PICK e : e = delete_expired(db, now)
    OBVIOUS
  <2>2. Kept(db, e) /\ Replies(c, e) /\ task[c] = Idle
    BY <1>1, <1>5, <2>1, SessionStatements DEF SessionCleanup, MayAsk
  <2> QED BY <2>2, AnswerStep
<1> QED BY <1>3, <1>4, <1>5

\* API tokens.
LEMMA TokenStep ==
    ASSUME AuthInv, NEW c \in Clients, Still, CreateApiToken(c) \/ UpdateApiToken(c) \/ DeleteApiToken(c)
    PROVE  AuthInv'
<1>1. IsDatabase(db) /\ Kept(db, db)
  BY Known
<1>2. CASE CreateApiToken(c)
  <2>1. PICK name, key : Replies(c, create_token_row(db, name, key).db)
    BY <1>2 DEF CreateApiToken
  <2>2. PICK e : e = create_token_row(db, name, key).db
    OBVIOUS
  <2>3. Kept(db, e) /\ Replies(c, e) /\ task[c] = Idle
    BY <1>1, <1>2, <2>1, <2>2, TokenStatements DEF CreateApiToken, MayAsk
  <2> QED BY <2>3, AnswerStep
<1>3. CASE DeleteApiToken(c)
  <2>1. PICK id : Replies(c, delete_token_row(db, id).db)
    BY <1>3 DEF DeleteApiToken
  <2>2. PICK e : e = delete_token_row(db, id).db
    OBVIOUS
  <2>3. Kept(db, e) /\ Replies(c, e) /\ task[c] = Idle
    BY <1>1, <1>3, <2>1, <2>2, TokenStatements DEF DeleteApiToken, MayAsk
  <2> QED BY <2>3, AnswerStep
<1>4. CASE update_api_token(c)
  <2>1. task[c] = Idle
    BY <1>4 DEF update_api_token, MayAsk
  <2>2. CASE Replies(c, db)
    BY <1>1, <2>1, <2>2, AnswerStep
  <2>3. CASE ~Replies(c, db)
    <3>1. PICK id, name, key :
              Goes(c, [op |-> "UpdateToken", at |-> "write", id |-> id, name |-> name, key |-> key], db)
      BY <1>4, <2>3 DEF update_api_token
    <3>2. PICK t : t = [op |-> "UpdateToken", at |-> "write", id |-> id, name |-> name, key |-> key]
      OBVIOUS
    <3>3. "op" \in DOMAIN t /\ t = [f \in DOMAIN t |-> t[f]] /\ Goes(c, t, db)
      BY <3>1, <3>2
    <3>4. TaskTyped(t, db) /\ Quiet(t) /\ ~MayFail(t)
      BY <3>2, OtherTask DEF Has
    <3> QED BY <1>1, <2>1, <3>3, <3>4, AskStep
  <2> QED BY <2>2, <2>3
<1>5. CASE UpdateApiToken(c) /\ ~update_api_token(c)
  <2>1. PICK e : e = update_token_row(db, task[c].id, task[c].name, task[c].key).db
    OBVIOUS
  <2>2. Kept(db, e)
    BY <1>1, <2>1, TokenStatements
  <2>3. Replies(c, e) /\ task[c].op = "UpdateToken"
    BY <1>5, <2>1 DEF UpdateApiToken, At
  <2>4. ~Writing(task[c]) /\ ~Revoking(task[c])
    BY <2>3 DEF Writing, Revoking
  <2> QED BY <2>2, <2>3, <2>4, RepliesStep
<1> QED BY <1>2, <1>3, <1>4, <1>5

\* The requests that leave the admin's hash and the history as they are.
LEMMA RequestStep ==
    ASSUME AuthInv, NEW c \in Clients, Request(c), Descends(c), Grows, now' = now
    PROVE  AuthInv'
<1>1. Still
  BY DEF Request, Still
<1>2. CASE login_public(c) \/ verify_mfa_public(c) \/ pihole_login(c)
  BY <1>1, <1>2, LoginAsked
<1>3. CASE AuthenticatePasskey_start(c)
  BY <1>1, <1>3, PasskeyStartStep
<1>4. CASE AuthenticatePasskey_finish(c) \/ DiscoverablePasskey_start(c) \/ DiscoverablePasskey_finish(c)
  BY <1>1, <1>4, PasskeyLogins
<1>5. CASE ConfirmTotp(c)
  BY <1>1, <1>5, ConfirmStep
<1>6. CASE DisableMfa(c)
  BY <1>1, <1>6, DisableStep
<1>7. CASE RegisterPasskey_start(c) \/ RegisterPasskey_finish(c)
  BY <1>1, <1>7, RegisterStep
<1>8. CASE DeletePasskey(c)
  BY <1>1, <1>8, DeletePasskeyStep
<1>9. CASE logout_public(c) \/ pihole_delete_session(c) \/ SessionCleanup(c)
  BY <1>1, <1>9, LogoutStep
<1>10. CASE CreateApiToken(c) \/ UpdateApiToken(c) \/ DeleteApiToken(c)
  BY <1>1, <1>10, TokenStep
<1>11. CASE Login(c)
  BY <1>1, <1>11, LoginStep
<1>12. CASE VerifyMfa(c)
  BY <1>1, <1>12, VerifyStep
<1>13. CASE AppPasswordLogin(c)
  BY <1>1, <1>13, AppPasswordStep
<1>14. CASE current_session(c)
  BY <1>1, <1>14, CurrentSession
<1> QED BY <1>2, <1>3, <1>4, <1>5, <1>6, <1>7, <1>8, <1>9, <1>10, <1>11, <1>12, <1>13, <1>14
    DEF Request

\* What a step that changes the history leaves to the parts of the invariant about it.
LEMMA HistoryStep ==
    ASSUME AuthInv, NEW c \in Clients, NEW x, task' = [task EXCEPT ![c] = x], Stays(db, db'),
           \A k \in DOMAIN db'.challenges : k \in DOMAIN db.challenges,
           \A u \in DOMAIN db'.mfa :
               \/ u \in DOMAIN db.mfa /\ db'.mfa[u].secret = db.mfa[u].secret
               \/ u \in muddled' \/ \A d \in Clients : ~(Checking(task[d]) /\ task[d].user = u),
           TaskTyped(x, db'), ~TakesToken(x), ~Proves(x), ~Checking(x), ~MayFail(x), HistoryTyped',
           now' = now, spent' = spent, windows' = windows, muddled \subseteq muddled'
    PROVE  /\ Moves(c, x)
           /\ Typed' /\ FailuresBounded' /\ WindowsBounded' /\ TokensOnce' /\ CodesOnce' /\ SecretsStay'
<1>1. Typed /\ FailuresBounded /\ WindowsBounded /\ TokensOnce /\ CodesOnce /\ SecretsStay
  BY DEF AuthInv
<1>2. Moves(c, x)
  BY <1>1 DEF Typed, Moves
<1>3. WindowsTyped'
  BY <1>1 DEF Typed, WindowsTyped
<1>4. Typed'
  BY <1>1, <1>2, <1>3, TypedStep
<1>5. FailuresBounded' /\ WindowsBounded'
  BY <1>1, <1>2, WindowsStep
<1>6. TokensOnce'
  BY <1>1, <1>2, TokensStep
<1>7. CodesOnce'
  BY <1>1, <1>2, CodesStep
<1>8. SecretsStay'
  BY <1>1, <1>2, SecretsStep
<1> QED BY <1>2, <1>4, <1>5, <1>6, <1>7, <1>8

\* The same, of a step whose statement adds no challenge, secret or session.
LEMMA KeptStep ==
    ASSUME AuthInv, NEW c \in Clients, NEW x, task' = [task EXCEPT ![c] = x], Kept(db, db'),
           TaskTyped(x, db), ~TakesToken(x), ~Proves(x), ~Checking(x), ~MayFail(x), HistoryTyped',
           now' = now, spent' = spent, windows' = windows, muddled' = muddled
    PROVE  /\ Moves(c, x) /\ Stays(db, db')
           /\ Typed' /\ FailuresBounded' /\ WindowsBounded' /\ TokensOnce' /\ CodesOnce' /\ SecretsStay'
<1>1. Stays(db, db') /\ IsDatabase(db) /\ IsDatabase(db') /\ UsersKept(db, db')
  BY KeptStays DEF AuthInv, Kept, Typed
<1>2. TaskTyped(x, db')
  BY <1>1, StillTyped
<1>3. \A k \in DOMAIN db'.challenges : k \in DOMAIN db.challenges
  BY DEF Kept, ChallengesKept
<1>4. \A u \in DOMAIN db'.mfa : u \in DOMAIN db.mfa /\ db'.mfa[u].secret = db.mfa[u].secret
  BY DEF Kept, MfaKept
<1> QED BY <1>1, <1>2, <1>3, <1>4, HistoryStep

\* Enrolment: a secret is put in place of another, and a user whose codes are then counted
\* for a secret they were not checked against is muddled.
LEMMA EnrolStep ==
    ASSUME AuthInv, NEW c \in Clients, Enrol(c), Descends(c), Grows, now' = now
    PROVE  AuthInv'
<1>1. Kept(db, db) /\ IsDatabase(db) /\ Typed
  BY Known
<1>2. CASE ~At(c, "SetupTotp", "write")
  <2>1. Still
    BY <1>2 DEF Enrol, Muddles, Still, memory, history
  <2>2. CASE setup_totp(c)
    <3>1. PICK t : t = [op |-> "SetupTotp", at |-> "read"]
      OBVIOUS
    <3>2. Resumes(t)
      BY <3>1 DEF Resumes, Carries, Has, Behind
    <3> QED BY <2>1, <2>2, <3>1, <3>2, RequireStep DEF setup_totp
  <2>3. CASE ~setup_totp(c)
    <3>1. /\ Replies(c, db) \/ Goes(c, [at |-> "write"], db)
          /\ task[c].op = "SetupTotp"
      BY <1>2, <2>3 DEF Enrol, SetupTotp, At
    <3>2. task[c].op \in Behind /\ task[c].op # "ChangePassword"
      BY <3>1 DEF Behind
    <3> QED BY <1>1, <2>1, <3>1, <3>2, BehindStep
  <2> QED BY <2>2, <2>3
<1>3. CASE At(c, "SetupTotp", "write")
  <2>1. task[c].op \in Behind /\ task[c].op # "ChangePassword" /\ task[c].op # "none"
    BY <1>3 DEF At, Behind
  <2>2. PICK u : u = task[c].user
    OBVIOUS
  <2>3. u \in Users /\ ~Writing(task[c]) /\ ~Revoking(task[c])
        /\ Stamp(c, u) \in Stamps /\ Earned(u, Stamp(c, u))
    BY <1>1, <1>3, <2>1, <2>2, BehindTyped, Speaks DEF Inserts
  <2>4. PICK e : e = upsert_secret(db, u, Stamp(c, u))
    OBVIOUS
  <2>5. /\ Stays(db, e) /\ e.challenges = db.challenges
        /\ \A x \in DOMAIN e.mfa : x # u => x \in DOMAIN db.mfa /\ e.mfa[x].secret = db.mfa[x].secret
    BY <1>1, <2>3, <2>4, SecretAdded
  <2>6. ~setup_totp(c)
    BY <2>1 DEF setup_totp, require_auth, MayAsk, Idle
  <2>7. Replies(c, e)
    BY <1>3, <2>2, <2>4, <2>6 DEF Enrol, SetupTotp, At
  <2>8. task' = [task EXCEPT ![c] = Idle] /\ db' = e /\ windows' = windows /\ spent' = spent
    BY <2>7 DEF Replies
  <2>9. /\ config' = config /\ provider' = provider /\ life' = life /\ ver' = ver
        /\ kept' = kept /\ crossed' = crossed /\ lost' = lost
        /\ muddled' = IF Muddles(c) THEN muddled \cup {u} ELSE muddled
    BY <2>2 DEF Enrol, memory
  <2>10. muddled \subseteq muddled'
    BY <2>9
  <2>11. HistoryTyped'
    BY <1>1, <2>9 DEF Typed, HistoryTyped
  <2>12. u \in muddled' \/ \A d \in Clients : ~(Checking(task[d]) /\ task[d].user = u)
    <3>1. ASSUME NEW d \in Clients, Checking(task[d]), task[d].user = u PROVE Muddles(c)
      BY <1>3, <2>2, <3>1 DEF Muddles, Checking, At
    <3> QED BY <2>9, <3>1
  <2>13. \A x \in DOMAIN db'.mfa :
             \/ x \in DOMAIN db.mfa /\ db'.mfa[x].secret = db.mfa[x].secret
             \/ x \in muddled' \/ \A d \in Clients : ~(Checking(task[d]) /\ task[d].user = x)
    BY <2>5, <2>8, <2>12
  <2>14. Stays(db, db') /\ \A k \in DOMAIN db'.challenges : k \in DOMAIN db.challenges
    BY <2>5, <2>8
  <2>15. PICK y : y = Idle
    OBVIOUS
  <2>16. /\ TaskTyped(y, db') /\ ~TakesToken(y) /\ ~Proves(y) /\ ~Checking(y) /\ ~MayFail(y) /\ ~Writing(y)
         /\ task' = [task EXCEPT ![c] = y]
    BY <2>8, <2>15, IdleTask DEF Quiet
  <2>17. /\ Moves(c, y)
         /\ Typed' /\ FailuresBounded' /\ WindowsBounded' /\ TokensOnce' /\ CodesOnce' /\ SecretsStay'
    BY <2>8, <2>10, <2>11, <2>13, <2>14, <2>16, HistoryStep
  <2>18. NothingOutlivesUser'
    BY <1>1, <2>9, <2>14, RowsStep DEF AuthInv, Grows
  <2>19. ChangesEnd'
    BY <1>1, <2>3, <2>9, <2>14, <2>17, EndsStep DEF AuthInv
  <2>20. AdminFollows'
    BY <2>3, <2>9, <2>16, <2>17, AdminStep DEF AuthInv
  <2> QED BY <2>17, <2>18, <2>19, <2>20 DEF AuthInv
<1> QED BY <1>2, <1>3

\* A change of a password has been written, and goes on to end the other sessions.
LEMMA ChangedStep ==
    ASSUME Typed, ChangesEnd, NEW c \in Clients, NEW x, Moves(c, x), ~Revoking(task[c]), Stays(db, db'),
           Revoking(x), NEW u \in Users, x.user = u,
           ver' = [ver EXCEPT ![u] = @ + 1], kept' = [kept EXCEPT ![u] = x.sid], lost' = lost
    PROVE  ChangesEnd'
<1>1. RowsStay(db.sessions, db'.sessions) /\ HistoryTyped
  BY DEF Stays, OwnedStay, Typed
<1>2. kept'[u] = x.sid /\ \A w \in Users : w # u => ver'[w] = ver[w] /\ kept'[w] = kept[w]
  BY <1>1 DEF HistoryTyped
<1>3. ASSUME NEW w \in Users, w # u, Ended(w) PROVE Ended(w)'
  <2>1. ASSUME NEW s \in DOMAIN db'.sessions, db'.sessions[s].user = w
        PROVE  db'.sessions[s].stamp.ver = ver[w] \/ s = kept[w]
    <3>1. CASE Fresh(db'.sessions[s])
      BY <2>1, <3>1 DEF Fresh, Earned
    <3>2. CASE s \in DOMAIN db.sessions /\ Same(db'.sessions[s], db.sessions[s])
      BY <1>3, <2>1, <3>2 DEF Ended, Same
    <3> QED BY <1>1, <3>1, <3>2 DEF RowsStay
  <2> QED BY <1>2, <1>3, <2>1 DEF Ended
<1>4. ASSUME NEW w \in Users, w # u, NEW d \in Clients, Revoking(task[d]),
             task[d].user = w, task[d].sid = kept[w]
      PROVE  Revoking(task'[d]) /\ task'[d].user = w /\ task'[d].sid = kept'[w]
  BY <1>2, <1>4 DEF Moves
<1>5. Revoking(task'[c]) /\ task'[c].user = u /\ task'[c].sid = kept'[u]
  BY <1>2 DEF Moves
<1>6. ASSUME NEW w \in Users
      PROVE  \/ Ended(w)' \/ w \in lost'
             \/ \E d \in Clients : Revoking(task'[d]) /\ task'[d].user = w /\ task'[d].sid = kept'[w]
  <2>1. CASE w = u
    BY <1>5, <2>1
  <2>2. CASE w # u
    BY <1>3, <1>4, <2>2 DEF ChangesEnd, At, Revoking
  <2> QED BY <2>1, <2>2
<1> QED BY <1>6 DEF ChangesEnd, At, Revoking

\* A change of the admin's password: the configuration has the new hash, the provider is to follow.
LEMMA ConfigStep ==
    ASSUME AuthInv, Grows, NEW c \in Clients, NEW pw, update_toml_admin_password(c, pw),
           task[c].op \in {"ChangePassword", "SetupPassword"}, task[c].at = "config",
           now' = now, provider' = provider, life' = life, ver' = ver, kept' = kept,
           muddled' = muddled, lost' = lost
    PROVE  AuthInv'
<1>1. Kept(db, db) /\ Typed /\ TaskTyped(task[c], db) /\ HistoryTyped
  BY Known DEF Typed
<1>2. ~Writing(task[c]) /\ ~Revoking(task[c]) /\ task[c] # Idle
  BY IdleTask DEF Writing, Revoking
<1>3. CASE config' = config /\ Replies(c, db) /\ crossed' = crossed
  <2>1. Still
    BY <1>3 DEF Still, memory, history
  <2> QED BY <1>1, <1>2, <1>3, <2>1, RepliesStep
<1>4. CASE /\ config' = pw
           /\ Goes(c, [at |-> "provider", adopts |-> pw], db)
           /\ crossed' = (crossed \/ AdminWriters # {})
  <2>1. PICK t : t = [at |-> "provider", adopts |-> pw]
    OBVIOUS
  <2>2. PICK x : x = Over(t, task[c])
    OBVIOUS
  <2>3. task' = [task EXCEPT ![c] = x] /\ db' = db /\ windows' = windows /\ spent' = spent
    BY <1>4, <2>1, <2>2, GoesTo
  <2>4. /\ \A f \in DOMAIN task[c] : f \in DOMAIN x
        /\ \A f \in DOMAIN task[c] : f \notin {"at", "adopts"} => x[f] = task[c][f]
        /\ x.at = "provider" /\ x.adopts = pw /\ {"at", "adopts"} \subseteq DOMAIN x
    BY <2>1, <2>2 DEF Over
  <2>5. Has(task[c], {"op"}) /\ Has(x, {"op"}) /\ x.op = task[c].op /\ x.op # "none" /\ x # Idle
    BY <1>1, <2>4 DEF TaskTyped, Has, Idle
  <2>6. SessionTyped(x)
    BY <1>1, <2>4, <2>5 DEF TaskTyped, SessionTyped, Has, Behind, Carries
  <2>7. UserTyped(x, db)
    <3>1. x.op = "ChangePassword" => Has(task[c], {"user"}) /\ task[c].user = Admin
      BY <1>1, <2>5 DEF TaskTyped, SessionTyped, UserTyped, Behind, Has
    <3> QED BY <2>4, <2>5, <3>1 DEF UserTyped, Has
  <2>8. TaskTyped(x, db)
    BY <2>4, <2>5, <2>6, <2>7 DEF TaskTyped, LoginTyped, VerifyTyped, PasskeyTyped, Has
  <2>9. ~TakesToken(x) /\ ~Proves(x) /\ ~Checking(x) /\ ~MayFail(x) /\ Writing(x)
    BY <2>4, <2>5 DEF TakesToken, Proves, Checking, MayFail, Writing
  <2>10. HistoryTyped' /\ Kept(db, db')
    BY <1>1, <2>3 DEF HistoryTyped
  <2>11. /\ Moves(c, x) /\ Stays(db, db')
         /\ Typed' /\ FailuresBounded' /\ WindowsBounded' /\ TokensOnce' /\ CodesOnce' /\ SecretsStay'
    BY <2>3, <2>8, <2>9, <2>10, KeptStep
  <2>12. NothingOutlivesUser'
    BY <1>1, <2>11, RowsStep DEF AuthInv, Grows
  <2>13. ChangesEnd'
    BY <1>1, <1>2, <2>11, EndsStep DEF AuthInv
  <2>14. AdminFollows'
    <3>1. /\ AdminWriters = {d \in Clients : Writing(task[d])}
          /\ AdminWriters' = {d \in Clients : Writing(task'[d])}
      BY DEF AdminWriters, Writing
    <3>2. CASE AdminWriters = {}
      <4>1. AdminWriters' = {c} /\ task'[c].adopts = config'
        BY <1>4, <2>4, <2>9, <2>11, <3>1, <3>2 DEF Moves
      <4> QED BY <4>1 DEF AdminFollows
    <3>3. CASE AdminWriters # {}
      BY <1>4, <3>3 DEF AdminFollows
    <3> QED BY <3>2, <3>3
  <2> QED BY <2>11, <2>12, <2>13, <2>14 DEF AuthInv
<1> QED BY <1>3, <1>4 DEF update_toml_admin_password

\* The provider adopts the hash that the task brings, and no one else is under way.
LEMMA AdoptStep ==
    ASSUME AdminFollows, NEW c \in Clients, NEW x, Moves(c, x), Writing(task[c]), ~Writing(x),
           provider' = task[c].adopts, config' = config, crossed' = crossed
    PROVE  AdminFollows'
<1>1. /\ AdminWriters = {d \in Clients : Writing(task[d])}
      /\ AdminWriters' = {d \in Clients : Writing(task'[d])}
  BY DEF AdminWriters, Writing
<1>2. CASE crossed
  BY <1>2 DEF AdminFollows
<1>3. CASE ~crossed
  <2>1. AdminWriters = {c} /\ task[c].adopts = config
    BY <1>1, <1>3 DEF AdminFollows
  <2>2. AdminWriters' = {}
    BY <1>1, <2>1 DEF Moves
  <2> QED BY <2>1, <2>2 DEF AdminFollows
<1> QED BY <1>2, <1>3

\* SetupPassword.
LEMMA SetupPasswordStep ==
    ASSUME AuthInv, Grows, NEW c \in Clients, SetupPassword(c), now' = now
    PROVE  AuthInv'
<1>1. Kept(db, db) /\ Typed /\ TaskTyped(task[c], db) /\ HistoryTyped
  BY Known DEF Typed
<1>2. CASE setup_password_public(c) /\ UNCHANGED <<memory, history>>
  <2>1. Still /\ task[c] = Idle
    BY <1>2 DEF Still, setup_password_public, MayAsk
  <2>2. CASE Replies(c, db)
    BY <1>1, <2>1, <2>2, AnswerStep
  <2>3. CASE ~Replies(c, db)
    <3>1. PICK pw : Goes(c, [op |-> "SetupPassword", at |-> "config", new |-> pw], db)
      BY <1>2, <2>3 DEF setup_password_public
    <3>2. PICK t : t = [op |-> "SetupPassword", at |-> "config", new |-> pw]
      OBVIOUS
    <3>3. "op" \in DOMAIN t /\ t = [f \in DOMAIN t |-> t[f]] /\ Goes(c, t, db)
      BY <3>1, <3>2
    <3>4. TaskTyped(t, db) /\ Quiet(t) /\ ~MayFail(t)
      BY <3>2 DEF Idle, TaskTyped, LoginTyped, VerifyTyped, PasskeyTyped, SessionTyped,
          UserTyped, Has, Behind,
         Quiet, TakesToken, Proves, Checking, Writing, MayFail
    <3> QED BY <1>1, <2>1, <3>3, <3>4, AskStep
  <2> QED BY <2>2, <2>3
<1>3. CASE /\ At(c, "SetupPassword", "config") /\ update_toml_admin_password(c, task[c].new)
           /\ UNCHANGED <<provider, life, ver, kept, muddled, lost>>
  <2>1. PICK pw : pw = task[c].new
    OBVIOUS
  <2>2. /\ update_toml_admin_password(c, pw)
        /\ task[c].op \in {"ChangePassword", "SetupPassword"} /\ task[c].at = "config"
    BY <1>3, <2>1 DEF At
  <2> QED BY <1>3, <2>2, ConfigStep
<1>4. CASE /\ At(c, "SetupPassword", "provider") /\ provider' = task[c].adopts /\ Replies(c, db)
           /\ UNCHANGED <<config, history>>
  <2>1. PICK y : y = Idle
    OBVIOUS
  <2>2. /\ TaskTyped(y, db) /\ ~TakesToken(y) /\ ~Proves(y) /\ ~Checking(y) /\ ~MayFail(y) /\ ~Writing(y)
    BY <2>1, IdleTask DEF Quiet
  <2>3. task' = [task EXCEPT ![c] = y] /\ db' = db /\ windows' = windows /\ spent' = spent
    BY <1>4, <2>1 DEF Replies
  <2>4. /\ config' = config /\ life' = life /\ ver' = ver
        /\ kept' = kept /\ muddled' = muddled /\ crossed' = crossed /\ lost' = lost
    BY <1>4 DEF history
  <2>5. HistoryTyped' /\ Kept(db, db')
    BY <1>1, <2>3, <2>4 DEF HistoryTyped
  <2>6. /\ Moves(c, y) /\ Stays(db, db')
        /\ Typed' /\ FailuresBounded' /\ WindowsBounded' /\ TokensOnce' /\ CodesOnce' /\ SecretsStay'
    BY <2>2, <2>3, <2>4, <2>5, KeptStep
  <2>7. Writing(task[c]) /\ ~Revoking(task[c])
    BY <1>4 DEF At, Writing, Revoking
  <2>8. NothingOutlivesUser'
    BY <1>1, <2>4, <2>6, RowsStep DEF AuthInv, Grows
  <2>9. ChangesEnd'
    BY <1>1, <2>4, <2>6, <2>7, EndsStep DEF AuthInv
  <2>10. AdminFollows'
    BY <1>4, <2>2, <2>4, <2>6, <2>7, AdoptStep DEF AuthInv
  <2> QED BY <2>6, <2>8, <2>9, <2>10 DEF AuthInv
<1> QED BY <1>2, <1>3, <1>4 DEF SetupPassword

\* A change of password that is about to end the other sessions.
LEMMA RevokesNext ==
    ASSUME AuthInv, NEW c \in Clients, task[c].op = "ChangePassword",
           NEW x, x = Over([at |-> "revoke"], task[c])
    PROVE  /\ TaskTyped(x, db) /\ Revoking(x) /\ ~Writing(x)
           /\ ~TakesToken(x) /\ ~Proves(x) /\ ~Checking(x) /\ ~MayFail(x)
           /\ x.user = task[c].user /\ x.sid = task[c].sid
<1>1. TaskTyped(task[c], db) /\ task[c].op \in Behind
  BY Known DEF Behind
<1>2. PICK y, t : y = task[c] /\ t = [at |-> "revoke"]
  OBVIOUS
<1>3. TaskTyped(x, db) /\ x.op = y.op /\ x.at = t.at
  BY <1>1, <1>2, StageTyped
<1>4. Has(y, {"op", "at", "user", "sid"})
  BY <1>1, <1>2, BehindTyped
<1>5. x.user = y.user /\ x.sid = y.sid
  BY <1>2, <1>4 DEF Over, Has
<1>6. x.op = "ChangePassword" /\ x.at = "revoke"
  BY <1>2, <1>3
<1> QED BY <1>2, <1>3, <1>5, <1>6 DEF Revoking, Writing, TakesToken, Proves, Checking,
    MayFail

\* The other sessions of the user are ended.
LEMMA RevokeStep ==
    ASSUME AuthInv, NEW c \in Clients, At(c, "ChangePassword", "revoke"), Still,
           Replies(c, delete_other_sessions(db, task[c].user, task[c].sid))
    PROVE  AuthInv'
<1>1. IsDatabase(db) /\ Typed /\ HistoryTyped
  BY Known DEF Typed
<1>2. PICK u, sid : u = task[c].user /\ sid = task[c].sid
  OBVIOUS
<1>3. PICK y : y = Idle
  OBVIOUS
<1>4. /\ task' = [task EXCEPT ![c] = y] /\ db' = delete_other_sessions(db, u, sid)
      /\ windows' = windows /\ spent' = spent
  BY <1>2, <1>3 DEF Replies
<1>5. /\ TaskTyped(y, db) /\ ~TakesToken(y) /\ ~Proves(y) /\ ~Checking(y) /\ ~MayFail(y) /\ ~Writing(y)
  BY <1>3, IdleTask DEF Quiet
<1>6. /\ now' = now /\ config' = config /\ provider' = provider /\ life' = life /\ ver' = ver
      /\ kept' = kept /\ muddled' = muddled /\ crossed' = crossed /\ lost' = lost
      /\ leaked \subseteq leaked'
  BY DEF Still, Grows, memory, history
<1>7. HistoryTyped' /\ Kept(db, db')
  BY <1>1, <1>4, <1>6, SessionStatements DEF HistoryTyped
<1>8. /\ Moves(c, y) /\ Stays(db, db')
      /\ Typed' /\ FailuresBounded' /\ WindowsBounded' /\ TokensOnce' /\ CodesOnce' /\ SecretsStay'
  BY <1>4, <1>5, <1>6, <1>7, KeptStep
<1>9. NothingOutlivesUser'
  BY <1>1, <1>6, <1>8, RowsStep DEF AuthInv
<1>10. ~Writing(task[c])
  BY DEF At, Writing
<1>11. AdminFollows'
  BY <1>5, <1>6, <1>8, <1>10, AdminStep DEF AuthInv
<1>12. ChangesEnd'
  <2>1. SessionsKept(db, db')
    BY <1>7 DEF Kept
  <2>2. \A s \in DOMAIN db'.sessions : db'.sessions[s].user = u => s = sid
    BY <1>1, <1>4, OthersDeleted
  <2>3. ASSUME NEW w \in Users, Ended(w) PROVE Ended(w)'
    BY <1>6, <2>1, <2>3 DEF Ended, SessionsKept, Same
  <2>4. ASSUME NEW w \in Users, NEW d \in Clients, d # c, At(d, "ChangePassword", "revoke"), task[d].user = w,
               task[d].sid = kept[w]
        PROVE  Revoking(task'[d]) /\ task'[d].user = w /\ task'[d].sid = kept'[w]
    BY <1>6, <1>8, <2>4 DEF Moves, Revoking, At
  <2>5. u \in Users /\ sid = kept[u] => Ended(u)'
    BY <1>6, <2>2 DEF Ended
  <2>6. ASSUME NEW w \in Users
        PROVE  \/ Ended(w)' \/ w \in lost'
               \/ \E d \in Clients : Revoking(task'[d]) /\ task'[d].user = w /\ task'[d].sid = kept'[w]
    <3>1. CASE w = u /\ sid = kept[u]
      BY <2>5, <3>1
    <3>2. CASE ~(w = u /\ sid = kept[u])
      BY <1>2, <1>6, <2>3, <2>4, <3>2 DEF AuthInv, ChangesEnd
    <3> QED BY <3>1, <3>2
  <2> QED BY <2>6 DEF ChangesEnd, At, Revoking
<1> QED BY <1>8, <1>9, <1>11, <1>12 DEF AuthInv

\* ChangePassword.
LEMMA ChangePasswordStep ==
    ASSUME AuthInv, Grows, NEW c \in Clients, ChangePassword(c), now' = now
    PROVE  AuthInv'
<1>1. Kept(db, db) /\ IsDatabase(db) /\ Typed /\ TaskTyped(task[c], db) /\ HistoryTyped
  BY Known DEF Typed
<1>2. CASE change_password(c) /\ UNCHANGED <<memory, history>>
  <2>1. PICK old \in Passwords, new \in Passwords :
            require_auth(c, "change", [op |-> "ChangePassword", at |-> "read", pw |-> old, new |-> new])
    BY <1>2 DEF change_password
  <2>2. PICK t : t = [op |-> "ChangePassword", at |-> "read", pw |-> old, new |-> new]
    OBVIOUS
  <2>3. Resumes(t)
    BY <2>2 DEF Resumes, Carries, Has, Behind
  <2>4. Still
    BY <1>2 DEF Still
  <2> QED BY <2>1, <2>2, <2>3, <2>4, RequireStep
<1>3. CASE task[c].op = "ChangePassword" /\ ~change_password(c)
  <2>1. task[c].op \in Behind
    BY <1>3 DEF Behind
  <2>2. PICK u, sid, new : u = task[c].user /\ sid = task[c].sid /\ new = task[c].new
    OBVIOUS
  <2>3. u \in Users /\ sid \in Nat /\ new \in Passwords
    BY <1>3, <2>1, <2>2, BehindTyped
  <2>4. CASE At(c, "ChangePassword", "read")
    <3>1. /\ Replies(c, db) \/ Goes(c, [at |-> IF u = Admin THEN "config" ELSE "write"], db)
          /\ UNCHANGED <<memory, history>>
      BY <1>3, <2>2, <2>4 DEF ChangePassword, At
    <3>2. ~Writing(task[c]) /\ ~Revoking(task[c]) /\ Still
      BY <2>4, <3>1 DEF At, Writing, Revoking, Still
    <3>3. CASE Replies(c, db)
      BY <1>1, <3>2, <3>3, RepliesStep
    <3>4. CASE Goes(c, [at |-> IF u = Admin THEN "config" ELSE "write"], db)
      <4>1. PICK v : v = IF u = Admin THEN "config" ELSE "write"
        OBVIOUS
      <4>2. /\ v \notin {"provider", "verify", "create"} /\ (v = "config" => task[c].user = Admin)
            /\ Goes(c, [at |-> v], db)
        BY <2>2, <3>4, <4>1
      <4> QED BY <1>1, <1>3, <3>2, <4>2, AwaitStep
    <3> QED BY <3>1, <3>3, <3>4
  <2>5. CASE At(c, "ChangePassword", "config")
    <3>1. update_toml_admin_password(c, new) /\ UNCHANGED <<provider, life, ver, kept, muddled, lost>>
      BY <1>3, <2>2, <2>5 DEF ChangePassword, At
    <3>2. task[c].op \in {"ChangePassword", "SetupPassword"} /\ task[c].at = "config"
      BY <2>5 DEF At
    <3> QED BY <3>1, <3>2, ConfigStep
  <2>6. CASE At(c, "ChangePassword", "provider") \/ At(c, "ChangePassword", "write")
    <3>1. CASE Replies(c, db) /\ UNCHANGED <<memory, history>> /\ At(c, "ChangePassword", "write")
      <4>1. ~Writing(task[c]) /\ ~Revoking(task[c]) /\ Still
        BY <3>1 DEF At, Writing, Revoking, Still
      <4> QED BY <1>1, <3>1, <4>1, RepliesStep
    <3>2. ASSUME NEW e, Kept(db, e), Goes(c, [at |-> "revoke"], e), config' = config, life' = life,
                 muddled' = muddled, crossed' = crossed, lost' = lost,
                 ver' = [ver EXCEPT ![u] = @ + 1], kept' = [kept EXCEPT ![u] = sid],
                 \/ Writing(task[c]) /\ provider' = task[c].adopts
                 \/ ~Writing(task[c]) /\ provider' = provider
          PROVE  AuthInv'
      <4>1. PICK x, t : x = Over([at |-> "revoke"], task[c]) /\ t = [at |-> "revoke"]
        OBVIOUS
      <4>2. /\ TaskTyped(x, db) /\ Revoking(x) /\ ~Writing(x)
            /\ ~TakesToken(x) /\ ~Proves(x) /\ ~Checking(x) /\ ~MayFail(x) /\ x.user = u /\ x.sid = sid
        BY <1>3, <2>2, <4>1, RevokesNext
      <4>3. x = Over(t, task[c]) /\ Goes(c, t, e)
        BY <3>2, <4>1
      <4>4. task' = [task EXCEPT ![c] = x] /\ db' = e /\ windows' = windows /\ spent' = spent
        BY <4>3, GoesTo
      <4>5. ver[u] + 1 \in Nat
        BY <1>1, <2>3, SumNat DEF HistoryTyped
      <4>6. HistoryTyped'
        BY <1>1, <2>3, <3>2, <4>5 DEF HistoryTyped
      <4>7. Kept(db, db')
        BY <3>2, <4>4
      <4>8. /\ Moves(c, x) /\ Stays(db, db')
            /\ Typed' /\ FailuresBounded' /\ WindowsBounded' /\ TokensOnce' /\ CodesOnce' /\ SecretsStay'
        BY <3>2, <4>2, <4>4, <4>6, <4>7, KeptStep
      <4>9. NothingOutlivesUser'
        BY <1>1, <3>2, <4>8, RowsStep DEF AuthInv, Grows
      <4>10. ~Revoking(task[c])
        BY <2>6 DEF Revoking, At
      <4>11. kept' = [kept EXCEPT ![u] = x.sid]
        BY <3>2, <4>2
      <4>12. ChangesEnd'
        BY <1>1, <2>3, <3>2, <4>2, <4>8, <4>10, <4>11, ChangedStep DEF AuthInv
      <4>13. AdminFollows'
        <5>1. CASE Writing(task[c]) /\ provider' = task[c].adopts
          BY <3>2, <4>2, <4>8, <5>1, AdoptStep DEF AuthInv
        <5>2. CASE ~Writing(task[c]) /\ provider' = provider
          BY <3>2, <4>2, <4>8, <5>2, AdminStep DEF AuthInv
        <5> QED BY <3>2, <5>1, <5>2
      <4> QED BY <4>8, <4>9, <4>12, <4>13 DEF AuthInv
    <3>3. CASE At(c, "ChangePassword", "provider")
      <4>1. Writing(task[c]) /\ u = Admin
        BY <1>1, <2>2, <3>3 DEF At, Writing, TaskTyped, UserTyped
      <4>2. /\ provider' = task[c].adopts /\ Goes(c, [at |-> "revoke"], db)
            /\ ver' = [ver EXCEPT ![u] = @ + 1] /\ kept' = [kept EXCEPT ![u] = sid]
            /\ UNCHANGED <<config, life, muddled, crossed, lost>>
        BY <1>3, <2>2, <3>3, <4>1 DEF ChangePassword, At
      <4> QED BY <1>1, <3>2, <4>1, <4>2
    <3>4. CASE At(c, "ChangePassword", "write")
      <4>1. ~Writing(task[c])
        BY <3>4 DEF At, Writing
      <4>2. /\ \/ \E id \in find_user(db, u) :
                     /\ Goes(c, [at |-> "revoke"], update_user_password(db, id, new).db)
                     /\ ver' = [ver EXCEPT ![u] = @ + 1] /\ kept' = [kept EXCEPT ![u] = sid]
               \/ Replies(c, db) /\ UNCHANGED <<ver, kept>>
            /\ UNCHANGED <<memory, life, muddled, crossed, lost>>
        BY <1>3, <2>2, <3>4 DEF ChangePassword, At
      <4>3. CASE Replies(c, db) /\ UNCHANGED <<ver, kept>>
        BY <3>1, <3>4, <4>2, <4>3 DEF memory, history
      <4>4. ASSUME NEW id, Goes(c, [at |-> "revoke"], update_user_password(db, id, new).db),
                   ver' = [ver EXCEPT ![u] = @ + 1], kept' = [kept EXCEPT ![u] = sid]
            PROVE  AuthInv'
        <5>1. PICK e : e = update_user_password(db, id, new).db
          OBVIOUS
        <5>2. Kept(db, e)
          BY <1>1, <2>3, <5>1, UserStatements
        <5> QED BY <3>2, <4>1, <4>2, <4>4, <5>1, <5>2 DEF memory
      <4> QED BY <4>2, <4>3, <4>4
    <3> QED BY <2>6, <3>3, <3>4
  <2>7. CASE At(c, "ChangePassword", "revoke")
    <3>1. /\ Replies(c, delete_other_sessions(db, task[c].user, task[c].sid))
          /\ UNCHANGED <<memory, history>>
      BY <1>3, <2>7 DEF ChangePassword, At
    <3>2. Still
      BY <3>1 DEF Still
    <3> QED BY <2>7, <3>1, <3>2, RevokeStep
  <2>8. task[c].at \in {"read", "config", "provider", "write", "revoke"}
    BY <1>3 DEF ChangePassword, At
  <2> QED BY <1>3, <2>4, <2>5, <2>6, <2>7, <2>8 DEF At
<1>4. task[c].op = "ChangePassword" => ~change_password(c)
  <2>1. CASE task[c] = Idle
    BY <2>1, IdleTask
  <2>2. CASE task[c] # Idle
    BY <2>2 DEF change_password, require_auth, MayAsk
  <2> QED BY <2>1, <2>2
<1> QED BY <1>2, <1>3, <1>4 DEF ChangePassword, At

\* CreateUser.
LEMMA CreateUserStep ==
    ASSUME AuthInv, Grows, NEW c \in Clients, CreateUser(c), now' = now
    PROVE  AuthInv'
<1>1. Kept(db, db) /\ IsDatabase(db) /\ TaskTyped(task[c], db) /\ Still
  BY Known DEF CreateUser, Still
<1>2. CASE MayAsk(c, "create_user")
  <2>1. task[c] = Idle
    BY <1>2 DEF MayAsk
  <2>2. CASE Replies(c, db)
    BY <1>1, <2>1, <2>2, AnswerStep
  <2>3. CASE ~Replies(c, db)
    <3>1. ~At(c, "CreateUser", "insert")
      BY <2>1, IdleTask DEF At
    <3>2. PICK u \in Users, pw \in Passwords :
              Goes(c, [op |-> "CreateUser", at |-> "insert", user |-> u, pw |-> pw], db)
      BY <2>3, <3>1 DEF CreateUser
    <3>3. PICK t : t = [op |-> "CreateUser", at |-> "insert", user |-> u, pw |-> pw]
      OBVIOUS
    <3>4. "op" \in DOMAIN t /\ t = [f \in DOMAIN t |-> t[f]] /\ Goes(c, t, db)
      BY <3>2, <3>3
    <3>5. TaskTyped(t, db) /\ Quiet(t) /\ ~MayFail(t)
      BY <3>3 DEF Idle, TaskTyped, LoginTyped, VerifyTyped, PasskeyTyped, SessionTyped,
          UserTyped, Has, Behind,
         Quiet, TakesToken, Proves, Checking, Writing, MayFail
    <3> QED BY <1>1, <2>1, <3>4, <3>5, AskStep
  <2> QED BY <2>2, <2>3
<1>3. CASE At(c, "CreateUser", "insert") /\ Replies(c, create_user_row(db, task[c].user, task[c].pw).db)
  <2>1. PICK u, pw : u = task[c].user /\ pw = task[c].pw
    OBVIOUS
  <2>2. u \in Users /\ pw \in Passwords
    BY <1>1, <1>3, <2>1 DEF At, TaskTyped, UserTyped
  <2>3. PICK e : e = create_user_row(db, u, pw).db
    OBVIOUS
  <2>4. Kept(db, e) /\ Replies(c, e)
    BY <1>1, <1>3, <2>1, <2>2, <2>3, UserStatements
  <2>5. ~Writing(task[c]) /\ ~Revoking(task[c])
    BY <1>3 DEF At, Writing, Revoking
  <2> QED BY <1>1, <2>4, <2>5, RepliesStep
<1> QED BY <1>2, <1>3 DEF CreateUser

\* DeleteUser: nothing that names the user is left, so none of it is there when the name is given again.
LEMMA DeleteUserStep ==
    ASSUME AuthInv, Grows, NEW c \in Clients, DeleteUser(c), now' = now
    PROVE  AuthInv'
<1>1. Kept(db, db) /\ IsDatabase(db) /\ Typed /\ TaskTyped(task[c], db) /\ HistoryTyped
  BY Known DEF Typed
<1>2. CASE /\ MayAsk(c, "delete_user") /\ UNCHANGED <<memory, history>>
           /\ \E id \in DOMAIN db.users :
                 Goes(c, [op |-> "DeleteUser", at |-> "delete", id |-> id, user |-> db.users[id].user], db)
  <2>1. Still /\ task[c] = Idle
    BY <1>2 DEF Still, MayAsk
  <2>2. PICK id \in DOMAIN db.users :
            Goes(c, [op |-> "DeleteUser", at |-> "delete", id |-> id, user |-> db.users[id].user], db)
    BY <1>2
  <2>3. PICK u : u = db.users[id].user
    OBVIOUS
  <2>4. u \in Users /\ id \in Given(db)
    <3>1. IsTable(db.users, Given(db), UserRows)
      BY <1>1, DatabaseFacts
    <3> QED BY <2>3, <3>1 DEF IsTable, UserRows
  <2>5. PICK t : t = [op |-> "DeleteUser", at |-> "delete", id |-> id, user |-> u]
    OBVIOUS
  <2>6. "op" \in DOMAIN t /\ t = [f \in DOMAIN t |-> t[f]] /\ Goes(c, t, db)
    BY <2>2, <2>3, <2>5
  <2>7. UserTyped(t, db)
    BY <2>3, <2>4, <2>5 DEF UserTyped, Has
  <2>8. TaskTyped(t, db) /\ Quiet(t) /\ ~MayFail(t)
    BY <2>5, <2>7 DEF Idle, TaskTyped, LoginTyped, VerifyTyped, PasskeyTyped, SessionTyped,
        Has, Behind,
       Quiet, TakesToken, Proves, Checking, Writing, MayFail
  <2> QED BY <1>1, <2>1, <2>6, <2>8, AskStep
<1>3. CASE /\ At(c, "DeleteUser", "delete") /\ Replies(c, delete_user_row(db, task[c].id).db)
           /\ life' = IF task[c].id \in DOMAIN db.users THEN [life EXCEPT ![task[c].user] = @ + 1] ELSE life
           /\ UNCHANGED <<memory, ver, kept, muddled, crossed, lost>>
  <2>1. PICK u, id : u = task[c].user /\ id = task[c].id
    OBVIOUS
  <2>2. u \in Users /\ (id \in DOMAIN db.users => db.users[id].user = u)
    BY <1>1, <1>3, <2>1 DEF At, TaskTyped, UserTyped
  <2>3. PICK e : e = delete_user_row(db, id).db
    OBVIOUS
  <2>4. PICK y : y = Idle
    OBVIOUS
  <2>5. /\ TaskTyped(y, db) /\ ~TakesToken(y) /\ ~Proves(y) /\ ~Checking(y) /\ ~MayFail(y) /\ ~Writing(y)
    BY <2>4, IdleTask DEF Quiet
  <2>6. task' = [task EXCEPT ![c] = y] /\ db' = e /\ windows' = windows /\ spent' = spent
    BY <1>3, <2>1, <2>3, <2>4 DEF Replies
  <2>7. /\ config' = config /\ provider' = provider /\ ver' = ver
        /\ kept' = kept /\ muddled' = muddled /\ crossed' = crossed /\ lost' = lost
        /\ life' = IF id \in DOMAIN db.users THEN [life EXCEPT ![u] = @ + 1] ELSE life
    BY <1>3, <2>1 DEF memory
  <2>8. life[u] + 1 \in Nat
    BY <1>1, <2>2, SumNat DEF HistoryTyped
  <2>9. HistoryTyped'
    BY <1>1, <2>2, <2>7, <2>8 DEF HistoryTyped
  <2>10. Kept(db, db')
    BY <1>1, <2>3, <2>6, UserDeleted
  <2>11. /\ Moves(c, y) /\ Stays(db, db')
         /\ Typed' /\ FailuresBounded' /\ WindowsBounded' /\ TokensOnce' /\ CodesOnce' /\ SecretsStay'
    BY <2>5, <2>6, <2>7, <2>9, <2>10, KeptStep
  <2>12. \A row \in Owned(db') : row.user \in Users => life'[row.user] = life[row.user]
    <3>1. CASE id \in DOMAIN db.users
      <4>1. \A row \in Owned(db') : row.user # u
        BY <1>1, <2>2, <2>3, <2>6, <3>1, UserDeleted
      <4> QED BY <1>1, <2>7, <3>1, <4>1 DEF HistoryTyped
    <3>2. CASE id \notin DOMAIN db.users
      BY <2>7, <3>2
    <3> QED BY <3>1, <3>2
  <2>13. NothingOutlivesUser'
    BY <1>1, <2>11, <2>12, RowsStep DEF AuthInv, Grows
  <2>14. ~Writing(task[c]) /\ ~Revoking(task[c])
    BY <1>3 DEF At, Writing, Revoking
  <2>15. ChangesEnd'
    BY <1>1, <2>7, <2>11, <2>14, EndsStep DEF AuthInv
  <2>16. AdminFollows'
    BY <2>5, <2>7, <2>11, <2>14, AdminStep DEF AuthInv
  <2> QED BY <2>11, <2>13, <2>15, <2>16 DEF AuthInv
<1> QED BY <1>2, <1>3 DEF DeleteUser

\* A request that is cut short: a change of password that had not ended the sessions is noted.
LEMMA CutShortStep ==
    ASSUME AuthInv, NEW c \in Clients, CutShort(c)
    PROVE  AuthInv'
<1>1. Kept(db, db) /\ Typed /\ HistoryTyped
  BY Known DEF Typed
<1>2. PICK y : y = Idle
  OBVIOUS
<1>3. /\ TaskTyped(y, db) /\ ~TakesToken(y) /\ ~Proves(y) /\ ~Checking(y) /\ ~MayFail(y) /\ ~Writing(y)
  BY <1>2, IdleTask DEF Quiet
<1>4. task' = [task EXCEPT ![c] = y] /\ db' = db /\ windows' = windows /\ spent' = spent
  BY <1>2 DEF CutShort, Replies
<1>5. /\ now' = now /\ config' = config /\ provider' = provider /\ life' = life /\ ver' = ver
      /\ kept' = kept /\ muddled' = muddled
      /\ crossed' = (crossed \/ c \in AdminWriters)
      /\ lost' = IF At(c, "ChangePassword", "revoke") THEN lost \cup {task[c].user} ELSE lost
      /\ leaked' = leaked
  BY DEF CutShort, memory
<1>6. HistoryTyped' /\ Kept(db, db')
  BY <1>1, <1>4, <1>5 DEF HistoryTyped
<1>7. /\ Moves(c, y) /\ Stays(db, db')
      /\ Typed' /\ FailuresBounded' /\ WindowsBounded' /\ TokensOnce' /\ CodesOnce' /\ SecretsStay'
  BY <1>3, <1>4, <1>5, <1>6, KeptStep
<1>8. NothingOutlivesUser'
  BY <1>1, <1>5, <1>7, RowsStep DEF AuthInv
<1>9. ChangesEnd'
  <2>1. CASE ~Revoking(task[c])
    BY <1>1, <1>5, <1>7, <2>1, EndsStep DEF AuthInv
  <2>2. CASE Revoking(task[c])
    <3>1. task[c].user \in lost' /\ lost \subseteq lost'
      BY <1>5, <2>2 DEF Revoking, At
    <3>2. ASSUME NEW w \in Users, Ended(w) PROVE Ended(w)'
      BY <1>4, <1>5, <3>2 DEF Ended
    <3>3. ASSUME NEW w \in Users, w # task[c].user, NEW d \in Clients, Revoking(task[d]), task[d].user = w,
                 task[d].sid = kept[w]
          PROVE  Revoking(task'[d]) /\ task'[d].user = w /\ task'[d].sid = kept'[w]
      BY <1>5, <1>7, <3>3 DEF Moves
    <3> QED BY <3>1, <3>2, <3>3 DEF AuthInv, ChangesEnd, At, Revoking
  <2> QED BY <2>1, <2>2
<1>10. AdminFollows'
  <2>1. CASE Writing(task[c])
    <3>1. c \in AdminWriters
      BY <2>1 DEF AdminWriters, Writing
    <3> QED BY <1>5, <3>1 DEF AdminFollows
  <2>2. CASE ~Writing(task[c])
    BY <1>3, <1>5, <1>7, <2>2, AdminStep DEF AuthInv
  <2> QED BY <2>1, <2>2
<1> QED BY <1>7, <1>8, <1>9, <1>10 DEF AuthInv

\* The clock: a window that is open has been open.
LEMMA ClockStep ==
    ASSUME AuthInv, now' = now \/ now' = now + 1, 
           UNCHANGED <<db, memory, windows, task, history, leaked, spent>>
    PROVE  AuthInv'
<1>1. /\ db' = db /\ config' = config /\ provider' = provider /\ windows' = windows /\ task' = task
      /\ spent' = spent /\ life' = life /\ ver' = ver /\ kept' = kept /\ muddled' = muddled
      /\ crossed' = crossed /\ lost' = lost /\ leaked' = leaked
  BY DEF memory, history
<1>2. Typed /\ now \in Nat \ {0}
  BY DEF AuthInv, Typed
<1>3. now' \in Nat \ {0} /\ now <= now'
  BY <1>2
<1>4. \A p \in DOMAIN windows : windows[p].opened \in Nat /\ windows[p].opened <= now
  BY <1>2 DEF Typed, WindowsTyped, Windows
<1>5. Typed'
  <2>1. WindowsTyped'
    BY <1>1, <1>2, <1>3, <1>4 DEF Typed, WindowsTyped
  <2> QED BY <1>1, <1>2, <1>3, <2>1 DEF Typed, HistoryTyped
<1>6. FailuresBounded'
  BY <1>1 DEF AuthInv, FailuresBounded
<1>7. WindowsBounded'
  <2>1. ASSUME NEW p, Open(p)' PROVE Open(p)
    <3>1. WindowTicks \in Nat
      BY AuthAssumption
    <3> QED BY <1>1, <1>2, <1>3, <1>4, <2>1, <3>1 DEF Open
  <2>2. \A p : InFlight(p)' = InFlight(p)
    BY <1>1 DEF InFlight
  <2> QED BY <1>1, <2>1, <2>2 DEF AuthInv, WindowsBounded
<1>8. NothingOutlivesUser'
  BY <1>1 DEF AuthInv, NothingOutlivesUser
<1>9. TokensOnce'
  BY <1>1, SMTT(30) DEF AuthInv, TokensOnce, ChallengeSpent
<1>10. CodesOnce'
  BY <1>1 DEF AuthInv, CodesOnce, Accepted
<1>11. SecretsStay'
  BY <1>1 DEF AuthInv, SecretsStay, At
<1>12. ChangesEnd'
  BY <1>1 DEF AuthInv, ChangesEnd, Ended, At
<1>13. AdminFollows'
  BY <1>1 DEF AuthInv, AdminFollows, AdminWriters
<1> QED BY <1>5, <1>6, <1>7, <1>8, <1>9, <1>10, <1>11, <1>12, <1>13 DEF AuthInv

(***************************************************************************)
(* The theorems                                                            *)
(***************************************************************************)

\* The invariant holds where a run starts.
LEMMA AuthInit == Init => AuthInv
<1> SUFFICES ASSUME Init PROVE AuthInv
  OBVIOUS
<1>1. PICK i \in DOMAIN Mixes : i = mix
  BY DEF Init
<1>2. /\ IsDatabase(db) /\ \A row \in Owned(db) : row.stamp = [life |-> 0, ver |-> 0]
  BY <1>1, AuthAssumption DEF Init
<1>3. /\ now = 2 /\ DOMAIN windows = {} /\ windows \in [DOMAIN windows -> Windows] /\ spent = {}
      /\ task = [c \in Clients |-> Idle] /\ provider = config
      /\ life = [u \in Users |-> 0] /\ ver = [u \in Users |-> 0] /\ kept = [u \in Users |-> 0]
  BY DEF Init
<1>4. \A c \in Clients : task[c] = Idle
  BY <1>3
<1>5. \A c \in Clients : /\ ~TakesToken(task[c]) /\ ~Proves(task[c]) /\ ~Checking(task[c]) /\ ~Writing(task[c])
                         /\ TaskTyped(task[c], db)
  BY <1>4, IdleTask DEF Quiet
<1>6. Typed
  BY <1>2, <1>3, <1>5 DEF Typed, WindowsTyped, HistoryTyped
<1>7. NothingOutlivesUser
  BY <1>2, <1>3 DEF NothingOutlivesUser
<1>8. FailuresBounded /\ WindowsBounded
  BY <1>3 DEF FailuresBounded, WindowsBounded
<1>9. TokensOnce
  BY <1>3, <1>5 DEF TokensOnce, Holds
<1>10. CodesOnce
  BY <1>3, <1>5 DEF CodesOnce
<1>11. SecretsStay
  BY <1>5 DEF SecretsStay, Checking, At
<1>12. ChangesEnd
  <2>1. \A s \in DOMAIN db.sessions : db.sessions[s] \in Owned(db)
    BY DEF Owned, Range
  <2>2. \A u \in Users : Ended(u)
    BY <1>2, <1>3, <2>1 DEF Ended
  <2> QED BY <2>2 DEF ChangesEnd
<1>13. AdminFollows
  <2>1. AdminWriters = {}
    BY <1>5 DEF AdminWriters, Writing
  <2> QED BY <1>3, <2>1 DEF AdminFollows
<1> QED BY <1>6, <1>7, <1>8, <1>9, <1>10, <1>11, <1>12, <1>13 DEF AuthInv

\* Whom a request speaks for is a number: of a user as it is, or of a row.
LEMMA BearersStep == AuthInv /\ AuthInv' /\ Bearers /\ [Next]_vars => Bearers'
<1> SUFFICES ASSUME AuthInv, AuthInv', Bearers, [Next]_vars PROVE Bearers'
  OBVIOUS
<1>1. HistoryTyped /\ IsDatabase(db)
  BY DEF AuthInv, Typed
<1>2. \A row \in Owned(db) : row.stamp.life \in Nat
  <2>1. /\ IsTable(db.sessions, Given(db), SessionRows) /\ IsTable(db.mfa, Users, MfaRows)
        /\ IsTable(db.codes, Given(db), CodeRows) /\ IsTable(db.challenges, Given(db), ChallengeRows)
        /\ IsTable(db.creds, Given(db), CredRows)
    BY <1>1, DatabaseFacts
  <2>2. /\ \A x \in DOMAIN db.sessions : db.sessions[x].stamp \in Stamps
        /\ \A x \in DOMAIN db.mfa : db.mfa[x].stamp \in Stamps
    BY <2>1 DEF IsTable, SessionRows, MfaRows
  <2>3. /\ \A x \in DOMAIN db.codes : db.codes[x].stamp \in Stamps
        /\ \A x \in DOMAIN db.creds : db.creds[x].stamp \in Stamps
    BY <2>1 DEF IsTable, CodeRows, CredRows
  <2>4. \A x \in DOMAIN db.challenges : db.challenges[x].stamp \in Stamps
    <3>1. \A row \in ChallengeRows : row.stamp \in Stamps
      BY DEF ChallengeRows
    <3> QED BY <2>1, <3>1 DEF IsTable
  <2>5. \A row \in Owned(db) : row.stamp \in Stamps
    BY <2>2, <2>3, <2>4 DEF Owned, Range
  <2> QED BY <2>5 DEF Stamps
<1>3. \A t : Presents(t) \subseteq Owned(db)
  BY DEF Presents, Find, Owned, Range
<1>4. CASE UNCHANGED lineage
  BY <1>4 DEF lineage, Bearers
<1>5. ASSUME NEW c \in Clients, CutShort(c) PROVE Bearers'
  BY <1>5 DEF CutShort, Bearers
<1>6. ASSUME NEW c \in Clients, Serve(c) PROVE Bearers'
  <2>1. PICK t : t = task'[c]
    OBVIOUS
  <2>2. bearer' = [bearer EXCEPT ![c] = Bears(c, t)]
    BY <1>6, <2>1 DEF Serve, Descends
  <2>3. Bears(c, t) \in Nat
    <3>1. CASE LooksUp(t) /\ t # Idle
      <4>1. TaskTyped(t, db')
        BY <2>1 DEF AuthInv, Typed
      <4>2. t.user \in Users
        BY <3>1, <4>1 DEF TaskTyped, LoginTyped, LooksUp
      <4>3. life[t.user] \in Nat
        BY <1>1, <4>2 DEF HistoryTyped
      <4> QED BY <3>1, <4>3 DEF Bears
    <3>2. CASE ~LooksUp(t) /\ Presents(t) # {} /\ t # Idle
      <4>1. PICK row : row = CHOOSE r \in Presents(t) : TRUE
        OBVIOUS
      <4>2. row \in Presents(t)
        BY <3>2, <4>1
      <4> QED BY <1>2, <1>3, <3>2, <4>1, <4>2 DEF Bears
    <3>3. CASE t = Idle \/ (~LooksUp(t) /\ Presents(t) = {})
      BY <3>3 DEF Bears, Bearers
    <3> QED BY <3>1, <3>2, <3>3
  <2> QED BY <2>2, <2>3 DEF Bearers
<1> QED BY <1>4, <1>5, <1>6 DEF Next, Tick, vars, lineage

\* And every step keeps it.
LEMMA AuthNext == AuthInv /\ Bearers /\ [Next]_vars => AuthInv'
<1> SUFFICES ASSUME AuthInv, Bearers, [Next]_vars PROVE AuthInv'
  OBVIOUS
<1>1. CASE UNCHANGED vars
  BY <1>1, ClockStep DEF vars, memory, history, lineage
<1>2. CASE Tick
  BY <1>2, ClockStep DEF Tick, lineage
<1>3. ASSUME NEW c \in Clients, CutShort(c) PROVE AuthInv'
  BY <1>3, CutShortStep
<1>4. ASSUME NEW c \in Clients, Serve(c) PROVE AuthInv'
  <2>1. now' = now /\ Descends(c) /\ Grows
    BY <1>4 DEF Serve, Descends, Grows
  <2>2. CASE Request(c)
    BY <2>1, <2>2, RequestStep
  <2>3. CASE Enrol(c)
    BY <2>1, <2>3, EnrolStep
  <2>4. CASE SetupPassword(c)
    BY <2>1, <2>4, SetupPasswordStep
  <2>5. CASE ChangePassword(c)
    BY <2>1, <2>5, ChangePasswordStep
  <2>6. CASE CreateUser(c)
    BY <2>1, <2>6, CreateUserStep
  <2>7. CASE DeleteUser(c)
    BY <2>1, <2>7, DeleteUserStep
  <2> QED BY <1>4, <2>2, <2>3, <2>4, <2>5, <2>6, <2>7 DEF Serve
<1> QED BY <1>1, <1>2, <1>3, <1>4 DEF Next

\* AuthInv is inductive, with the numbers that requests speak for.
THEOREM AuthInvariant == Spec => []AuthInv
<1>1. Init => Bearers
  BY DEF Init, Bearers
<1> QED BY <1>1, AuthInit, AuthNext, BearersStep, PTL DEF Spec

\* A challenge, a TOTP step or a recovery code opens one session, however many requests
\* race with it: VerifyMfa and the passkeys' logins, DisableMfa and a second enrolment
\* in between included.
THEOREM FactorsUsedOnce == Spec => []FactorUsedOnce
<1>1. AuthInv => FactorUsedOnce
  <2> SUFFICES ASSUME AuthInv, NEW a \in spent, NEW b \in spent, a.proof = b.proof, a.proof[2] \notin muddled
               PROVE  a.session = b.session
    BY DEF FactorUsedOnce
  <2>1. CASE a.proof[1] = "challenge"
    BY <2>1 DEF AuthInv, TokensOnce
  <2>2. CASE a.proof[1] # "challenge"
    BY <2>2 DEF AuthInv, CodesOnce
  <2> QED BY <2>1, <2>2
<1> QED BY <1>1, AuthInvariant, PTL

\* A window never counts as many failures as its limit and the clients of its address together.
THEOREM FailuresAreBounded == Spec => []FailuresBounded
<1>1. AuthInv => FailuresBounded
  BY DEF AuthInv
<1> QED BY <1>1, AuthInvariant, PTL

\* Whoever deletes and creates users beside whatever requests: unless a request wrote for a
\* user after its deletion, no row of a name is a former user's, nor of a request that speaks
\* for one.
THEOREM NothingIsInherited == Spec => []NothingOutlivesUser
<1>1. AuthInv => NothingOutlivesUser
  BY DEF AuthInv
<1> QED BY <1>1, AuthInvariant, PTL

\* A change of password leaves the user no session from before but its own, and the
\* provider the hash that the configuration has.
THEOREM PasswordChangesHold == Spec => []PasswordChangeHolds
<1>1. AuthInv => PasswordChangeHolds
  <2> SUFFICES ASSUME AuthInv PROVE SessionsRevoked /\ AdminInStep
    BY DEF PasswordChangeHolds
  <2>1. SessionsRevoked
    <3>1. ASSUME NEW s \in DOMAIN db.sessions PROVE db.sessions[s].user \in Users
      <4>1. IsTable(db.sessions, Given(db), SessionRows)
        BY Known, DatabaseFacts
      <4> QED BY <3>1, <4>1 DEF IsTable, SessionRows
    <3> QED BY <3>1 DEF SessionsRevoked, AuthInv, ChangesEnd, Ended
  <2>2. AdminInStep
    BY DEF AdminInStep, AuthInv, AdminFollows
  <2> QED BY <2>1, <2>2
<1> QED BY <1>1, AuthInvariant, PTL

=============================================================================
