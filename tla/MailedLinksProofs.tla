------------------------- MODULE MailedLinksProofs -------------------------
(* What holds of accounts and mailed links for any number of accounts,      *)
(* addresses, links and requests in flight.  Which requests of one account  *)
(* may overlap is a parameter: each theorem names the overlaps it excludes. *)
EXTENDS MailedLinks, TLAPS

----------------------------------------------------------------------------
(* Types                                                                   *)

Mails == {"signUp", "change", "resend", "requestReset"}

\* Requests by the step they take next.
Creating == [op : {"signUp"}, at : {"create"}, user : Accounts,
             email : Addresses \cup {NoAddress}]
Writing == [op : {"signUp", "change"}, at : {"address", "write"}, user : Accounts,
            email : Addresses \cup {NoAddress}, seen : UserRow]
Mailing == [op : Mails, at : {"cooldown", "replace"}, user : Accounts, email : Addresses,
            purpose : Purposes]
Issuing == [op : Mails, at : {"issue"}, user : Accounts, email : Addresses,
            purpose : Purposes, found : SUBSET Nat]
Confirming == [op : {"confirm"}, at : {"available", "verify"}, user : Accounts, link : Nat,
               email : Addresses, seen : UserRow]
Resetting == [op : {"reset"}, at : {"password", "revoke"}, user : Accounts, link : Nat,
              email : Addresses]
LoggingIn == [op : {"login"}, at : {"session"}, user : Accounts, password : 0..MaxLinks]

Request == Creating \cup Writing \cup Mailing \cup Issuing \cup Confirming
             \cup Resetting \cup LoggingIn

\* A request is about an account that exists and a link that was stored.
Sound(r) ==
  \/ r = Idle
  \/ /\ r \in Request
     /\ r.at # "create" => r.user \in DOMAIN users
     /\ r.op \in {"confirm", "reset"} => r.link \in 1..issued

\* Requests of one account overlap only as they may.
RequestsSound ==
  /\ DOMAIN requests = Slots
  /\ \A s \in Slots : Sound(requests[s])
  /\ \A s, t \in Slots :
       (s # t /\ requests[s] # Idle /\ requests[t] # Idle
          /\ requests[s].user = requests[t].user) =>
         {requests[s].op, requests[t].op} \in Overlap

TablesOK ==
  /\ DOMAIN users \subseteq Accounts
  /\ users \in [DOMAIN users -> UserRow]
  /\ issued \in 0..MaxLinks
  /\ DOMAIN links \subseteq 1..issued
  /\ links \in [DOMAIN links -> LinkRow]
  /\ \A l \in DOMAIN links : links[l].owner \in DOMAIN users
  /\ sessions \subseteq Session
  /\ \A x \in sessions : x.owner \in DOMAIN users
  /\ proved \subseteq Accounts \X Addresses

LinksTypes == TablesOK /\ RequestsSound

LEMMA RequestIsBusy ==
  ASSUME NEW r \in Request
  PROVE  /\ r # Idle /\ r.op # "idle" /\ r.at # "idle"
         /\ r.op \in Operations /\ r.user \in Accounts
<1>1. CASE r \in Creating
  BY <1>1 DEF Creating, Idle, Operations
<1>2. CASE r \in Writing
  BY <1>2 DEF Writing, Idle, Operations
<1>3. CASE r \in Mailing
  BY <1>3 DEF Mailing, Idle, Operations, Mails
<1>4. CASE r \in Issuing
  BY <1>4 DEF Issuing, Idle, Operations, Mails
<1>5. CASE r \in Confirming
  BY <1>5 DEF Confirming, Idle, Operations
<1>6. CASE r \in Resetting
  BY <1>6 DEF Resetting, Idle, Operations
<1>7. CASE r \in LoggingIn
  BY <1>7 DEF LoggingIn, Idle, Operations
<1>. QED
  BY <1>1, <1>2, <1>3, <1>4, <1>5, <1>6, <1>7 DEF Request

\* The step a request takes next tells its kind.
LEMMA PendingKind ==
  ASSUME NEW r, r \in Request \cup {Idle}
  PROVE  /\ r.at = "create" => r \in Creating
         /\ r.at \in {"address", "write"} => r \in Writing
         /\ r.at \in {"cooldown", "replace"} => r \in Mailing
         /\ r.at = "issue" => r \in Issuing
         /\ r.at \in {"available", "verify"} => r \in Confirming
         /\ r.at \in {"password", "revoke"} => r \in Resetting
         /\ r.at = "session" => r \in LoggingIn
<1>1. CASE r \in Creating
  BY <1>1 DEF Creating
<1>2. CASE r \in Writing
  BY <1>2 DEF Writing
<1>3. CASE r \in Mailing
  BY <1>3 DEF Mailing
<1>4. CASE r \in Issuing
  BY <1>4 DEF Issuing
<1>5. CASE r \in Confirming
  BY <1>5 DEF Confirming
<1>6. CASE r \in Resetting
  BY <1>6 DEF Resetting
<1>7. CASE r \in LoggingIn
  BY <1>7 DEF LoggingIn
<1>8. CASE r = Idle
  BY <1>8 DEF Idle
<1>. QED
  BY <1>1, <1>2, <1>3, <1>4, <1>5, <1>6, <1>7, <1>8 DEF Request

\* The kind of the request a slot serves, and what it is about.
LEMMA ServedKind ==
  ASSUME RequestsSound, NEW s \in Slots, NEW r, r = requests[s]
  PROVE  /\ Pending(s, "create") => r \in Creating
         /\ (Pending(s, "address") \/ Pending(s, "write")) => r \in Writing
         /\ (Pending(s, "cooldown") \/ Pending(s, "replace")) => r \in Mailing
         /\ Pending(s, "issue") => r \in Issuing
         /\ (Pending(s, "available") \/ Pending(s, "verify")) => r \in Confirming
         /\ (Pending(s, "password") \/ Pending(s, "revoke")) => r \in Resetting
         /\ Pending(s, "session") => r \in LoggingIn
         /\ (r.at # "idle" /\ r.at # "create") => r.user \in DOMAIN users
         /\ r.op \in {"confirm", "reset"} => r.link \in 1..issued
<1>1. r \in Request \cup {Idle}
  BY DEF RequestsSound, Sound
<1>2. r = Idle => r.at = "idle" /\ r.op = "idle"
  BY DEF Idle
<1>. QED
  BY <1>1, <1>2, PendingKind DEF Pending, RequestsSound, Sound

\* A slot starts a request that may be admitted, takes one further, or ends it.
LEMMA ServeSound ==
  ASSUME RequestsSound, NEW s \in Slots, NEW new, Serve(s, new), Sound(new)',
         \/ new = Idle
         \/ requests[s] # Idle /\ new.user = requests[s].user /\ new.op = requests[s].op
         \/ Admit(s, new.user, new.op),
         DOMAIN users \subseteq DOMAIN users',
         issued \in Nat, issued' \in Nat, issued <= issued'
  PROVE  RequestsSound'
<1>1. /\ DOMAIN requests' = Slots /\ requests'[s] = new
      /\ \A t \in Slots \ {s} : requests'[t] = requests[t]
  BY DEF Serve, RequestsSound
<1>2. \A t \in Slots : Sound(requests[t])'
  <2>1. ASSUME NEW t \in Slots \ {s} PROVE Sound(requests[t])'
    <3>1. Sound(requests[t]) /\ requests'[t] = requests[t]
      BY <1>1 DEF RequestsSound
    <3>. QED
      BY <3>1 DEF Sound
  <2>2. Sound(requests[s])'
    BY <1>1 DEF Sound
  <2>. QED
    BY <2>1, <2>2
<1>3. ASSUME NEW t \in Slots \ {s}, new # Idle, requests[t] # Idle, requests[t].user = new.user
      PROVE  {new.op, requests[t].op} \in Overlap
  <2>1. CASE requests[s] # Idle /\ new.user = requests[s].user /\ new.op = requests[s].op
    BY <1>3, <2>1 DEF RequestsSound
  <2>2. CASE Admit(s, new.user, new.op)
    BY <1>3, <2>2 DEF Admit
  <2>. QED
    BY <1>3, <2>1, <2>2
<1>4. \A a, b : {a, b} = {b, a}
  OBVIOUS
<1>5. ASSUME NEW t \in Slots, NEW v \in Slots, t # v, requests'[t] # Idle, requests'[v] # Idle,
             requests'[t].user = requests'[v].user
      PROVE  {requests'[t].op, requests'[v].op} \in Overlap
  <2>1. CASE t = s
    BY <1>1, <1>3, <1>5, <2>1
  <2>2. CASE v = s
    <3>1. {requests'[v].op, requests'[t].op} \in Overlap
      BY <1>1, <1>3, <1>5, <2>2
    <3>. QED
      BY <1>4, <3>1
  <2>3. CASE t # s /\ v # s
    BY <1>1, <1>5, <2>3 DEF RequestsSound
  <2>. QED
    BY <2>1, <2>2, <2>3
<1>. QED
  BY <1>1, <1>2, <1>5 DEF RequestsSound

----------------------------------------------------------------------------
(* Types are kept: requests that begin                                     *)

tables == <<users, links, sessions, issued, proved>>

LEMMA TablesUntouched ==
  ASSUME TablesOK, UNCHANGED tables
  PROVE  TablesOK'
  BY DEF TablesOK, tables

\* A request that begins leaves the tables alone.
LEMMA BeginTypes ==
  ASSUME LinksTypes, NEW s \in Slots, Begin(s)
  PROVE  LinksTypes' /\ UNCHANGED tables
<1> USE DEF LinksTypes
<1>0. issued \in Nat
  BY LinksAssumption DEF TablesOK
<1>1. ASSUME NEW new, Serve(s, new), new \in Request,
             new.at # "create" => new.user \in DOMAIN users,
             new.op \in {"confirm", "reset"} => new.link \in 1..issued,
             Admit(s, new.user, new.op), UNCHANGED tables
      PROVE  LinksTypes'
  <2>1. TablesOK'
    BY <1>1, TablesUntouched
  <2>2. Sound(new)'
    BY <1>1 DEF Sound, tables
  <2>3. RequestsSound'
    BY <1>0, <1>1, <2>2, ServeSound DEF tables
  <2>. QED
    BY <2>1, <2>3
<1>2. ASSUME NEW u \in Accounts, NEW addr \in Addresses \cup {NoAddress},
             SignUpBegin(s, u, addr)
      PROVE  LinksTypes' /\ UNCHANGED tables
  <2> DEFINE new == [op |-> "signUp", at |-> "create", user |-> u, email |-> addr]
  <2>1. new \in Request /\ new.at = "create" /\ new.op = "signUp" /\ new.user = u
    BY DEF Request, Creating
  <2>2. Serve(s, new) /\ Admit(s, u, "signUp") /\ UNCHANGED tables
    BY <1>2 DEF SignUpBegin, tables
  <2> HIDE DEF new
  <2>. QED
    BY <1>1, <2>1, <2>2
<1>3. \A u : SignedIn(u) => u \in DOMAIN users
  BY DEF SignedIn, TablesOK
<1>4. ASSUME NEW u \in Accounts, NEW addr \in Addresses \cup {NoAddress},
             ChangeBegin(s, u, addr)
      PROVE  LinksTypes' /\ UNCHANGED tables
  <2> DEFINE new == [op |-> "change", at |-> "address", user |-> u, email |-> addr,
                     seen |-> users[u]]
  <2>1. u \in DOMAIN users
    BY <1>3, <1>4 DEF ChangeBegin
  <2>2. users[u] \in UserRow
    BY <2>1 DEF TablesOK
  <2>3. new \in Request /\ new.op = "change" /\ new.user = u
    BY <2>2 DEF Request, Writing
  <2>4. Serve(s, new) /\ Admit(s, u, "change") /\ UNCHANGED tables
    BY <1>4 DEF ChangeBegin, tables
  <2> HIDE DEF new
  <2>. QED
    BY <1>1, <2>1, <2>3, <2>4
<1>5. ASSUME NEW u \in Accounts, ResendBegin(s, u)
      PROVE  LinksTypes' /\ UNCHANGED tables
  <2> DEFINE new == [op |-> "resend", at |-> "cooldown", user |-> u, email |-> users[u].email,
                     purpose |-> "verification"]
  <2>1. u \in DOMAIN users
    BY <1>3, <1>5 DEF ResendBegin
  <2>2. users[u].email \in Addresses
    BY <1>5, <2>1 DEF TablesOK, UserRow, ResendBegin
  <2>3. new \in Request /\ new.op = "resend" /\ new.user = u
    BY <2>2 DEF Request, Mailing, Mails, Purposes
  <2>4. Serve(s, new) /\ Admit(s, u, "resend") /\ UNCHANGED tables
    BY <1>5 DEF ResendBegin, tables
  <2> HIDE DEF new
  <2>. QED
    BY <1>1, <2>1, <2>3, <2>4
<1>6. ASSUME NEW u \in Accounts, LoginBegin(s, u)
      PROVE  LinksTypes' /\ UNCHANGED tables
  <2> DEFINE new == [op |-> "login", at |-> "session", user |-> u,
                     password |-> users[u].password]
  <2>1. u \in DOMAIN users /\ users[u].password \in 0..MaxLinks
    BY <1>6 DEF TablesOK, UserRow, LoginBegin
  <2>2. new \in Request /\ new.op = "login" /\ new.user = u
    BY <2>1 DEF Request, LoggingIn
  <2>3. Serve(s, new) /\ Admit(s, u, "login") /\ UNCHANGED tables
    BY <1>6 DEF LoginBegin, tables
  <2> HIDE DEF new
  <2>. QED
    BY <1>1, <2>1, <2>2, <2>3
<1>7. ASSUME NEW addr \in Addresses, RequestResetBegin(s, addr)
      PROVE  LinksTypes' /\ UNCHANGED tables
  <2>1. PICK u \in Recipients(addr) :
          /\ Admit(s, u, "requestReset")
          /\ Serve(s, [op |-> "requestReset", at |-> "cooldown", user |-> u, email |-> addr,
                       purpose |-> "reset"])
          /\ UNCHANGED tables
    BY <1>7 DEF RequestResetBegin, tables
  <2> DEFINE new == [op |-> "requestReset", at |-> "cooldown", user |-> u, email |-> addr,
                     purpose |-> "reset"]
  <2>2. u \in DOMAIN users /\ u \in Accounts
    BY DEF Recipients, TablesOK
  <2>3. new \in Request /\ new.op = "requestReset" /\ new.user = u
    BY <2>2 DEF Request, Mailing, Mails, Purposes
  <2>4. Serve(s, new)
    BY <2>1
  <2> HIDE DEF new
  <2>. QED
    BY <1>1, <2>1, <2>2, <2>3, <2>4
<1>8. ASSUME NEW l, ConfirmBegin(s, l)
      PROVE  LinksTypes' /\ UNCHANGED tables
  <2> DEFINE u == links[l].owner
             new == [op |-> "confirm", at |-> "available", user |-> u, link |-> l,
                     email |-> links[l].email, seen |-> users[u]]
  <2>1. /\ l \in 1..issued /\ l \in Nat /\ u \in DOMAIN users /\ u \in Accounts
        /\ links[l].email \in Addresses /\ users[u] \in UserRow
    BY <1>0, <1>8 DEF TablesOK, LinkRow, ConfirmBegin, Opens
  <2>2. Serve(s, new) /\ Admit(s, u, "confirm") /\ UNCHANGED tables
    BY <1>8 DEF ConfirmBegin, tables
  <2> HIDE DEF u
  <2>3. new \in Request /\ new.op = "confirm" /\ new.user = u /\ new.link = l
    BY <2>1 DEF Request, Confirming
  <2> HIDE DEF new
  <2>. QED
    BY <1>1, <2>1, <2>2, <2>3
<1>9. ASSUME NEW l, ResetBegin(s, l)
      PROVE  LinksTypes' /\ UNCHANGED tables
  <2> DEFINE u == links[l].owner
             new == [op |-> "reset", at |-> "password", user |-> u, link |-> l,
                     email |-> links[l].email]
  <2>1. /\ l \in 1..issued /\ l \in Nat /\ u \in DOMAIN users /\ u \in Accounts
        /\ links[l].email \in Addresses
    BY <1>0, <1>9 DEF TablesOK, LinkRow, ResetBegin, Opens
  <2>2. Serve(s, new) /\ Admit(s, u, "reset") /\ UNCHANGED tables
    BY <1>9 DEF ResetBegin, tables
  <2> HIDE DEF u
  <2>3. new \in Request /\ new.op = "reset" /\ new.user = u /\ new.link = l
    BY <2>1 DEF Request, Resetting
  <2> HIDE DEF new
  <2>. QED
    BY <1>1, <2>1, <2>2, <2>3
<1>. QED
  BY <1>2, <1>4, <1>5, <1>6, <1>7, <1>8, <1>9 DEF Begin

----------------------------------------------------------------------------
(* Types are kept: requests that go on                                     *)

\* What a request goes on as, when its step keeps the tables well typed.
LEMMA GoOn ==
  ASSUME LinksTypes, NEW s \in Slots, NEW new, Serve(s, new), TablesOK',
         DOMAIN users \subseteq DOMAIN users', issued <= issued',
         \/ new = Idle
         \/ /\ new \in Request
            /\ requests[s] # Idle
            /\ new.user = requests[s].user /\ new.op = requests[s].op
            /\ new.user \in DOMAIN users'
            /\ new.op \in {"confirm", "reset"} => new.link \in 1..issued'
  PROVE  LinksTypes'
<1>1. issued \in Nat /\ issued' \in Nat
  BY LinksAssumption DEF TablesOK, LinksTypes
<1>2. Sound(new)'
  BY DEF Sound
<1>. QED
  BY <1>1, <1>2, ServeSound DEF LinksTypes

LEMMA CreateTypes ==
  ASSUME LinksTypes, NEW s \in Slots, Create(s)
  PROVE  LinksTypes'
<1> DEFINE r == requests[s]
           row == [email |-> NoAddress, verified |-> FALSE, password |-> 0]
           next == [op |-> "signUp", at |-> "address", user |-> r.user, email |-> r.email,
                    seen |-> row]
<1>1. r \in Creating /\ r # Idle /\ UNCHANGED <<links, sessions, issued, proved>>
  BY ServedKind DEF LinksTypes, Create, Pending, Idle
<1>2. row \in UserRow /\ r.user \in Accounts /\ r.email \in Addresses \cup {NoAddress}
  BY <1>1, LinksAssumption DEF UserRow, Creating
<1>3. issued <= issued'
  BY <1>1, LinksAssumption DEF LinksTypes, TablesOK
<1>4. CASE r.user \in DOMAIN users
  <2>1. users' = users /\ Serve(s, Idle)
    BY <1>4 DEF Create
  <2>2. TablesOK'
    BY <1>1, <2>1, TablesUntouched DEF tables, LinksTypes
  <2>. QED
    BY <1>3, <2>1, <2>2, GoOn
<1>5. CASE r.user \notin DOMAIN users
  <2>1. /\ users' = [v \in DOMAIN users \cup {r.user} |-> IF v = r.user THEN row ELSE users[v]]
        /\ Serve(s, IF r.email = NoAddress THEN Idle ELSE next)
    BY <1>5 DEF Create
  <2>2. DOMAIN users' = DOMAIN users \cup {r.user}
    BY <2>1
  <2>3. TablesOK'
    BY <1>1, <1>2, <2>1, <2>2 DEF LinksTypes, TablesOK
  <2>4. /\ next \in Request /\ next.user = r.user /\ next.op = r.op
        /\ next.op = "signUp"
    BY <1>1, <1>2 DEF Request, Writing, Creating
  <2> HIDE DEF next, row, r
  <2>. QED
    BY <1>1, <1>3, <2>1, <2>2, <2>3, <2>4, GoOn DEF r
<1>. QED
  BY <1>4, <1>5

LEMMA CheckAddressTypes ==
  ASSUME LinksTypes, NEW s \in Slots, CheckAddress(s)
  PROVE  LinksTypes' /\ UNCHANGED tables
<1> DEFINE r == requests[s]
           next == [r EXCEPT !.at = "write"]
<1>1. r \in Writing /\ r.user \in DOMAIN users /\ r # Idle /\ UNCHANGED tables
  BY ServedKind DEF LinksTypes, CheckAddress, Pending, Idle, tables
<1>2. /\ next \in Request /\ next.user = r.user /\ next.op = r.op
      /\ next.op \in {"signUp", "change"}
  BY <1>1 DEF Request, Writing
<1>3. TablesOK' /\ issued <= issued' /\ users' = users
  BY <1>1, TablesUntouched, LinksAssumption DEF LinksTypes, TablesOK, tables
<1>4. Serve(s, IF r.email = NoAddress \/ Available(r.email, r.user) THEN next ELSE Idle)
  BY DEF CheckAddress
<1> HIDE DEF next
<1>. QED
  BY <1>1, <1>2, <1>3, <1>4, GoOn

LEMMA WriteAddressTypes ==
  ASSUME LinksTypes, NEW s \in Slots, WriteAddress(s)
  PROVE  LinksTypes'
<1> DEFINE r == requests[s]
           row == [users[r.user] EXCEPT !.email = r.email,
                                        !.verified = Column(r.seen.verified, FALSE, @)]
           table == [users EXCEPT ![r.user].email = r.email,
                                  ![r.user].verified = Column(r.seen.verified, FALSE, @)]
           next == [op |-> r.op, at |-> "cooldown", user |-> r.user, email |-> r.email,
                    purpose |-> "verification"]
<1>1. /\ r \in Writing /\ r.user \in DOMAIN users /\ r # Idle
      /\ UNCHANGED <<links, sessions, issued, proved>>
  BY ServedKind DEF LinksTypes, WriteAddress, Pending, Idle
<1>2. users[r.user] \in UserRow /\ r.email \in Addresses \cup {NoAddress}
  BY <1>1 DEF LinksTypes, TablesOK, Writing
<1>3. issued <= issued'
  BY <1>1, LinksAssumption DEF LinksTypes, TablesOK
<1>4. CASE users' = users /\ Serve(s, Idle)
  <2>1. TablesOK'
    BY <1>1, <1>4, TablesUntouched DEF tables, LinksTypes
  <2>. QED
    BY <1>3, <1>4, <2>1, GoOn
<1>5. CASE users' = table /\ Serve(s, IF r.email = NoAddress THEN Idle ELSE next)
  <2>1. Column(r.seen.verified, FALSE, users[r.user].verified) \in BOOLEAN
    BY <1>2 DEF Column, UserRow
  <2>2. row \in UserRow
    BY <1>2, <2>1 DEF UserRow
  <2>3. users' = [users EXCEPT ![r.user] = row]
    BY <1>5
  <2>4. users' \in [DOMAIN users -> UserRow] /\ DOMAIN users' = DOMAIN users
    BY <2>2, <2>3 DEF LinksTypes, TablesOK
  <2>5. TablesOK'
    BY <1>1, <2>4 DEF LinksTypes, TablesOK
  <2>6. r.email # NoAddress =>
          /\ next \in Request /\ next.user = r.user /\ next.op = r.op
          /\ next.op \in {"signUp", "change"}
    BY <1>1, <1>2 DEF Request, Mailing, Mails, Purposes, Writing
  <2> HIDE DEF next, table, row
  <2>. QED
    BY <1>1, <1>3, <1>5, <2>4, <2>5, <2>6, GoOn
<1>. QED
  BY <1>4, <1>5 DEF WriteAddress

LEMMA CooldownTypes ==
  ASSUME LinksTypes, NEW s \in Slots, Cooldown(s)
  PROVE  LinksTypes' /\ UNCHANGED tables
<1> DEFINE r == requests[s]
           next == [r EXCEPT !.at = "replace"]
<1>1. r \in Mailing /\ r.user \in DOMAIN users /\ r # Idle /\ UNCHANGED tables
  BY ServedKind DEF LinksTypes, Cooldown, Pending, Idle, tables
<1>2. next \in Request /\ next.user = r.user /\ next.op = r.op /\ next.op \in Mails
  BY <1>1 DEF Request, Mailing
<1>3. TablesOK' /\ issued <= issued' /\ users' = users
  BY <1>1, TablesUntouched, LinksAssumption DEF LinksTypes, TablesOK, tables
<1>4. Serve(s, next) \/ Serve(s, Idle)
  BY DEF Cooldown
<1> HIDE DEF next
<1>. QED
  BY <1>1, <1>2, <1>3, <1>4, GoOn DEF Mails

LEMMA ReplaceTypes ==
  ASSUME LinksTypes, NEW s \in Slots, Replace(s)
  PROVE  LinksTypes' /\ UNCHANGED tables
<1> DEFINE r == requests[s]
           next == [op |-> r.op, at |-> "issue", user |-> r.user, email |-> r.email,
                    purpose |-> r.purpose, found |-> Replaced(r.user, r.purpose)]
<1>1. r \in Mailing /\ r.user \in DOMAIN users /\ r # Idle /\ UNCHANGED tables
  BY ServedKind DEF LinksTypes, Replace, Pending, Idle, tables
<1>2. Replaced(r.user, r.purpose) \in SUBSET Nat
  BY LinksAssumption DEF Replaced, LinksOf, LinksTypes, TablesOK
<1>3. next \in Request /\ next.user = r.user /\ next.op = r.op /\ next.op \in Mails
  BY <1>1, <1>2 DEF Request, Mailing, Issuing
<1>4. TablesOK' /\ issued <= issued' /\ users' = users
  BY <1>1, TablesUntouched, LinksAssumption DEF LinksTypes, TablesOK, tables
<1>5. Serve(s, next)
  BY DEF Replace
<1> HIDE DEF next
<1>. QED
  BY <1>1, <1>3, <1>4, <1>5, GoOn DEF Mails

\* A new link is stored in place of the ones found.
LEMMA IssueEffect ==
  ASSUME LinksTypes, NEW s \in Slots, Issue(s), NEW r, r = requests[s]
  PROVE  /\ r \in Issuing /\ r.user \in DOMAIN users
         /\ issued \in Nat /\ issued' = issued + 1 /\ issued' \in 0..MaxLinks
         /\ DOMAIN links' = (DOMAIN links \ r.found) \cup {issued'}
         /\ links' \in [DOMAIN links' -> LinkRow]
         /\ links'[issued'] = [owner |-> r.user, purpose |-> r.purpose, email |-> r.email,
                               used |-> FALSE, age |-> "new"]
         /\ \A l \in DOMAIN links' : l # issued' => l \in DOMAIN links /\ links'[l] = links[l]
         /\ Serve(s, Idle)
         /\ UNCHANGED <<users, sessions, proved>>
<1> DEFINE row == [owner |-> r.user, purpose |-> r.purpose, email |-> r.email,
                   used |-> FALSE, age |-> "new"]
<1>1. r \in Issuing /\ r.user \in DOMAIN users
  BY ServedKind DEF LinksTypes, Issue, Pending
<1>2. issued \in Nat /\ issued' = issued + 1 /\ issued' \in 0..MaxLinks
  BY LinksAssumption DEF Issue, LinksTypes, TablesOK
<1>3. row \in LinkRow
  BY <1>1 DEF LinkRow, Issuing
<1>4. links' = [l \in (DOMAIN links \ r.found) \cup {issued'} |->
                  IF l = issued' THEN row ELSE links[l]]
  BY <1>2 DEF Issue
<1> HIDE DEF row
<1>5. DOMAIN links' = (DOMAIN links \ r.found) \cup {issued'}
  BY <1>4
<1>6. links' \in [DOMAIN links' -> LinkRow]
  BY <1>3, <1>4, <1>5 DEF LinksTypes, TablesOK
<1>7. /\ links'[issued'] = row
      /\ \A l \in DOMAIN links' : l # issued' => l \in DOMAIN links /\ links'[l] = links[l]
  BY <1>4, <1>5
<1>. QED
  BY <1>1, <1>2, <1>5, <1>6, <1>7 DEF Issue, row

LEMMA IssueTypes ==
  ASSUME LinksTypes, NEW s \in Slots, Issue(s)
  PROVE  LinksTypes'
<1> DEFINE r == requests[s]
<1>1. /\ r \in Issuing /\ r.user \in DOMAIN users
      /\ issued \in Nat /\ issued' = issued + 1 /\ issued' \in 0..MaxLinks
      /\ DOMAIN links' = (DOMAIN links \ r.found) \cup {issued'}
      /\ links' \in [DOMAIN links' -> LinkRow]
      /\ links'[issued'] = [owner |-> r.user, purpose |-> r.purpose, email |-> r.email,
                            used |-> FALSE, age |-> "new"]
      /\ \A l \in DOMAIN links' : l # issued' => l \in DOMAIN links /\ links'[l] = links[l]
      /\ Serve(s, Idle)
      /\ UNCHANGED <<users, sessions, proved>>
  BY IssueEffect
<1>2. \A l \in DOMAIN links' : links'[l].owner \in DOMAIN users'
  BY <1>1 DEF LinksTypes, TablesOK
<1>3. DOMAIN links' \subseteq 1..issued'
  BY <1>1 DEF LinksTypes, TablesOK
<1>4. TablesOK'
  BY <1>1, <1>2, <1>3 DEF LinksTypes, TablesOK
<1>. QED
  BY <1>1, <1>4, GoOn

LEMMA ConfirmCheckTypes ==
  ASSUME LinksTypes, NEW s \in Slots, ConfirmCheck(s)
  PROVE  LinksTypes' /\ UNCHANGED tables
<1> DEFINE r == requests[s]
           next == [r EXCEPT !.at = "verify"]
<1>1. /\ r \in Confirming /\ r.user \in DOMAIN users /\ r # Idle /\ UNCHANGED tables
      /\ r.op = "confirm" /\ r.link \in 1..issued
  BY ServedKind DEF LinksTypes, ConfirmCheck, Pending, Idle, tables, Confirming
<1>2. next \in Request /\ next.user = r.user /\ next.op = r.op /\ next.link = r.link
  BY <1>1 DEF Request, Confirming
<1>3. TablesOK' /\ issued <= issued' /\ users' = users /\ issued' = issued
  BY <1>1, TablesUntouched, LinksAssumption DEF LinksTypes, TablesOK, tables
<1>4. Serve(s, next) \/ Serve(s, Idle)
  BY DEF ConfirmCheck
<1> HIDE DEF next
<1>. QED
  BY <1>1, <1>2, <1>3, <1>4, GoOn

\* A link that counts as used keeps its other columns.
LEMMA UsedLink ==
  ASSUME TablesOK, NEW l \in DOMAIN links, links' = [links EXCEPT ![l].used = TRUE]
  PROVE  /\ DOMAIN links' = DOMAIN links
         /\ links' \in [DOMAIN links -> LinkRow]
         /\ \A k \in DOMAIN links :
              /\ links'[k].owner = links[k].owner /\ links'[k].purpose = links[k].purpose
              /\ links'[k].email = links[k].email /\ links'[k].age = links[k].age
              /\ k # l => links'[k] = links[k]
  BY DEF TablesOK, LinkRow

\* A user's row that changes in one column.
LEMMA VerifiedUser ==
  ASSUME TablesOK, NEW u \in DOMAIN users, NEW v \in BOOLEAN,
         users' = [users EXCEPT ![u].verified = v]
  PROVE  /\ DOMAIN users' = DOMAIN users
         /\ users' \in [DOMAIN users -> UserRow]
         /\ users'[u].verified = v /\ users'[u].email = users[u].email
         /\ users'[u].password = users[u].password
         /\ \A w \in DOMAIN users \ {u} : users'[w] = users[w]
  BY DEF TablesOK, UserRow

LEMMA PasswordOfUser ==
  ASSUME TablesOK, NEW u \in DOMAIN users, NEW n \in 0..MaxLinks,
         users' = [users EXCEPT ![u].password = n]
  PROVE  /\ DOMAIN users' = DOMAIN users
         /\ users' \in [DOMAIN users -> UserRow]
         /\ users'[u].password = n /\ users'[u].email = users[u].email
         /\ users'[u].verified = users[u].verified
         /\ \A w \in DOMAIN users \ {u} : users'[w] = users[w]
  BY DEF TablesOK, UserRow

LEMMA VerifyTypes ==
  ASSUME LinksTypes, NEW s \in Slots, Verify(s)
  PROVE  LinksTypes'
<1> DEFINE r == requests[s]
           v == Column(r.seen.verified, TRUE, users[r.user].verified)
<1>1. /\ r \in Confirming /\ r.user \in DOMAIN users /\ r # Idle
      /\ UNCHANGED <<sessions, issued>> /\ Serve(s, Idle)
  BY ServedKind DEF LinksTypes, Verify, Pending, Idle
<1>2. issued <= issued'
  BY <1>1, LinksAssumption DEF LinksTypes, TablesOK
<1>3. CASE UNCHANGED <<users, links, proved>>
  <2>1. TablesOK'
    BY <1>1, <1>3, TablesUntouched DEF LinksTypes, tables
  <2>. QED
    BY <1>1, <1>2, <1>3, <2>1, GoOn
<1>4. CASE /\ r.link \in DOMAIN links
           /\ users' = [users EXCEPT ![r.user].verified = Column(r.seen.verified, TRUE, @)]
           /\ links' = [links EXCEPT ![r.link].used = TRUE]
           /\ proved' = proved \cup {<<r.user, r.email>>}
  <2>1. v \in BOOLEAN
    BY <1>1 DEF Column, LinksTypes, TablesOK, UserRow
  <2>2. users' = [users EXCEPT ![r.user].verified = v]
    BY <1>4
  <2> HIDE DEF v
  <2>3. DOMAIN users' = DOMAIN users /\ users' \in [DOMAIN users -> UserRow]
    BY <1>1, <2>1, <2>2, VerifiedUser DEF LinksTypes
  <2>4. /\ DOMAIN links' = DOMAIN links /\ links' \in [DOMAIN links -> LinkRow]
        /\ \A k \in DOMAIN links : links'[k].owner = links[k].owner
    BY <1>4, UsedLink DEF LinksTypes
  <2>5. proved' \subseteq Accounts \X Addresses
    BY <1>1, <1>4 DEF Confirming, LinksTypes, TablesOK
  <2>6. TablesOK'
    BY <1>1, <2>3, <2>4, <2>5 DEF LinksTypes, TablesOK
  <2>. QED
    BY <1>1, <1>2, <2>3, <2>6, GoOn
<1>. QED
  BY <1>3, <1>4 DEF Verify

LEMMA SetPasswordTypes ==
  ASSUME LinksTypes, NEW s \in Slots, SetPassword(s)
  PROVE  LinksTypes'
<1> DEFINE r == requests[s]
           next == [r EXCEPT !.at = "revoke"]
<1>1. /\ r \in Resetting /\ r.user \in DOMAIN users /\ r # Idle
      /\ r.op = "reset" /\ r.link \in 1..issued /\ r.link \in 0..MaxLinks
      /\ UNCHANGED <<links, sessions, issued, proved>>
      /\ users' = [users EXCEPT ![r.user].password = r.link]
      /\ Serve(s, next)
  BY ServedKind, LinksAssumption DEF LinksTypes, TablesOK, SetPassword, Pending, Idle, Resetting
<1>2. next \in Request /\ next.user = r.user /\ next.op = r.op /\ next.link = r.link
  BY <1>1 DEF Request, Resetting
<1>3. DOMAIN users' = DOMAIN users /\ users' \in [DOMAIN users -> UserRow]
  BY <1>1, PasswordOfUser DEF LinksTypes
<1>4. TablesOK' /\ issued <= issued'
  BY <1>1, <1>3, LinksAssumption DEF LinksTypes, TablesOK
<1> HIDE DEF next
<1>. QED
  BY <1>1, <1>2, <1>3, <1>4, GoOn

LEMMA RevokeTypes ==
  ASSUME LinksTypes, NEW s \in Slots, Revoke(s)
  PROVE  LinksTypes'
<1> DEFINE r == requests[s]
<1>1. UNCHANGED <<users, issued, proved>> /\ Serve(s, Idle)
  BY DEF Revoke
<1>2. issued <= issued'
  BY <1>1, LinksAssumption DEF LinksTypes, TablesOK
<1>3. CASE UNCHANGED <<links, sessions>>
  <2>1. TablesOK'
    BY <1>1, <1>3, TablesUntouched DEF LinksTypes, tables
  <2>. QED
    BY <1>1, <1>2, <2>1, GoOn
<1>4. CASE /\ r.link \in DOMAIN links
           /\ links' = [links EXCEPT ![r.link].used = TRUE]
           /\ sessions' = sessions \ Revoked(r.user)
  <2>1. /\ DOMAIN links' = DOMAIN links /\ links' \in [DOMAIN links -> LinkRow]
        /\ \A k \in DOMAIN links : links'[k].owner = links[k].owner
    BY <1>4, UsedLink DEF LinksTypes
  <2>2. TablesOK'
    BY <1>1, <1>4, <2>1 DEF LinksTypes, TablesOK
  <2>. QED
    BY <1>1, <1>2, <2>2, GoOn
<1>. QED
  BY <1>3, <1>4 DEF Revoke

LEMMA OpenSessionTypes ==
  ASSUME LinksTypes, NEW s \in Slots, OpenSession(s)
  PROVE  LinksTypes'
<1> DEFINE r == requests[s]
           session == [owner |-> r.user, password |-> r.password]
<1>1. /\ r \in LoggingIn /\ r.user \in DOMAIN users
      /\ UNCHANGED <<users, links, issued, proved>>
      /\ Serve(s, Idle) /\ sessions' = sessions \cup {session}
  BY ServedKind DEF LinksTypes, OpenSession, Pending
<1>2. session \in Session /\ session.owner = r.user
  BY <1>1 DEF LoggingIn, Session
<1> HIDE DEF session
<1>3. TablesOK' /\ issued <= issued'
  BY <1>1, <1>2, LinksAssumption DEF LinksTypes, TablesOK
<1>. QED
  BY <1>1, <1>3, GoOn

----------------------------------------------------------------------------
(* Types are kept: the other steps                                         *)

LEMMA ProceedTypes ==
  ASSUME LinksTypes, NEW s \in Slots, Proceed(s)
  PROVE  LinksTypes'
  BY CreateTypes, CheckAddressTypes, WriteAddressTypes, CooldownTypes, ReplaceTypes,
     IssueTypes, ConfirmCheckTypes, VerifyTypes, SetPasswordTypes, RevokeTypes,
     OpenSessionTypes DEF Proceed

LEMMA LogoutTypes == ASSUME LinksTypes, Logout PROVE LinksTypes'
<1>1. sessions' \subseteq sessions /\ UNCHANGED <<users, links, issued, requests, proved>>
  BY DEF Logout
<1>2. TablesOK'
  BY <1>1 DEF LinksTypes, TablesOK
<1>3. RequestsSound'
  BY <1>1 DEF LinksTypes, RequestsSound, Sound
<1>. QED
  BY <1>2, <1>3 DEF LinksTypes

\* Time changes the age of a link only.
LEMMA GrowOldEffect ==
  ASSUME LinksTypes, NEW l, GrowOld(l)
  PROVE  /\ DOMAIN links' = DOMAIN links /\ links' \in [DOMAIN links -> LinkRow]
         /\ \A k \in DOMAIN links :
              /\ links'[k].owner = links[k].owner /\ links'[k].purpose = links[k].purpose
              /\ links'[k].email = links[k].email /\ links'[k].used = links[k].used
         /\ UNCHANGED <<users, sessions, issued, requests, proved>>
<1> DEFINE age == IF links[l].age = "new" THEN "old" ELSE "expired"
<1>1. l \in DOMAIN links /\ links' = [links EXCEPT ![l].age = age]
  BY DEF GrowOld
<1>2. age \in {"new", "old", "expired"}
  OBVIOUS
<1> HIDE DEF age
<1>. QED
  BY <1>1, <1>2 DEF GrowOld, LinksTypes, TablesOK, LinkRow

LEMMA GrowOldTypes == ASSUME LinksTypes, NEW l, GrowOld(l) PROVE LinksTypes'
<1>1. /\ DOMAIN links' = DOMAIN links /\ links' \in [DOMAIN links -> LinkRow]
      /\ \A k \in DOMAIN links : links'[k].owner = links[k].owner
      /\ UNCHANGED <<users, sessions, issued, requests, proved>>
  BY GrowOldEffect
<1>2. TablesOK'
  BY <1>1 DEF LinksTypes, TablesOK
<1>3. RequestsSound'
  BY <1>1 DEF LinksTypes, RequestsSound, Sound
<1>. QED
  BY <1>2, <1>3 DEF LinksTypes

LEMMA RestartTypes == ASSUME LinksTypes, Restart PROVE LinksTypes'
<1>1. UNCHANGED tables /\ DOMAIN requests' = Slots /\ \A s \in Slots : requests'[s] = Idle
  BY DEF Restart, tables
<1>2. TablesOK'
  BY <1>1, TablesUntouched DEF LinksTypes
<1>3. RequestsSound'
  BY <1>1 DEF RequestsSound, Sound
<1>. QED
  BY <1>2, <1>3 DEF LinksTypes

LEMMA InitLinksTypes == Init => LinksTypes
<1> SUFFICES ASSUME Init PROVE LinksTypes
  OBVIOUS
<1>1. DOMAIN users = {} /\ DOMAIN links = {} /\ sessions = {} /\ issued = 0 /\ proved = {}
  BY DEF Init
<1>2. users \in [{} -> UserRow] /\ links \in [{} -> LinkRow]
  BY DEF Init
<1>3. TablesOK
  BY <1>1, <1>2, LinksAssumption DEF TablesOK
<1>4. RequestsSound
  BY DEF Init, RequestsSound, Sound
<1>. QED
  BY <1>3, <1>4 DEF LinksTypes

LEMMA NextLinksTypes == LinksTypes /\ [Next]_vars => LinksTypes'
<1> SUFFICES ASSUME LinksTypes, [Next]_vars PROVE LinksTypes'
  OBVIOUS
<1>1. ASSUME NEW s \in Slots, Begin(s) PROVE LinksTypes'
  BY <1>1, BeginTypes
<1>2. ASSUME NEW s \in Slots, Proceed(s) PROVE LinksTypes'
  BY <1>2, ProceedTypes
<1>3. CASE Logout
  BY <1>3, LogoutTypes
<1>4. ASSUME NEW l \in 1..MaxLinks, GrowOld(l) PROVE LinksTypes'
  BY <1>4, GrowOldTypes
<1>5. CASE Restart
  BY <1>5, RestartTypes
<1>6. CASE UNCHANGED vars
  BY <1>6 DEF vars, LinksTypes, TablesOK, RequestsSound, Sound
<1>. QED
  BY <1>1, <1>2, <1>3, <1>4, <1>5, <1>6 DEF Next

LEMMA LinksTypesHold == Spec => []LinksTypes
  BY InitLinksTypes, NextLinksTypes, PTL DEF Spec

\* Tables and requests stay well typed, whichever requests may overlap.
THEOREM LinksTypeCorrect == Spec => []TypeOK
<1>1. LinksTypes => TypeOK
  <2> SUFFICES ASSUME LinksTypes PROVE TypeOK
    OBVIOUS
  <2>1. ASSUME NEW s \in Slots, requests[s] # Idle
        PROVE  /\ requests[s].op \in Operations
               /\ requests[s].user \in Accounts
               /\ requests[s].at # "create" => requests[s].user \in DOMAIN users
               /\ requests[s].op \in {"confirm", "reset"} => requests[s].link \in 1..issued
    BY <2>1, RequestIsBusy DEF LinksTypes, RequestsSound, Sound
  <2>. QED
    BY <2>1 DEF LinksTypes, TablesOK, RequestsSound, TypeOK
<1>. QED
  BY <1>1, LinksTypesHold, PTL

----------------------------------------------------------------------------
(* Addresses: who is verified has proved it, and a reset goes to a proved   *)
(* address.  An account must not confirm an address while it changes it.    *)

ConfirmAlone == \A p \in {"signUp", "change"} : {p, "confirm"} \notin Overlap

\* What a request in flight relies on still holds when it gets there.
Honest(r) ==
  /\ r.at \in {"address", "write"} => (users[r.user].verified => r.seen.verified)
  /\ r.at \in {"available", "verify"} => users[r.user].email = r.email
  /\ r.at \in {"cooldown", "replace", "issue"} =>
       (r.purpose = "reset" => <<r.user, r.email>> \in proved)
  /\ r.at \in {"password", "revoke"} => <<r.user, r.email>> \in proved

ResetLinksProved ==
  \A l \in DOMAIN links :
    links[l].purpose = "reset" => <<links[l].owner, links[l].email>> \in proved

AddressInvariant ==
  /\ LinksTypes
  /\ VerifiedMeansProved
  /\ ResetLinksProved
  /\ \A s \in Slots : Honest(requests[s])

\* A step that leaves addresses alone is judged by its own request.
LEMMA AddressFrame ==
  ASSUME AddressInvariant, LinksTypes', ResetLinksProved',
         NEW s \in Slots, NEW new, Serve(s, new), Honest(new)',
         DOMAIN users \subseteq DOMAIN users',
         \A u \in DOMAIN users :
           users'[u].email = users[u].email /\ users'[u].verified = users[u].verified,
         \A u \in DOMAIN users' \ DOMAIN users : ~users'[u].verified,
         proved' = proved
  PROVE  AddressInvariant'
<1>1. /\ requests'[s] = new
      /\ \A t \in Slots \ {s} : requests'[t] = requests[t]
  BY DEF Serve, AddressInvariant, LinksTypes, RequestsSound
<1>2. VerifiedMeansProved'
  BY DEF AddressInvariant, VerifiedMeansProved
<1>3. ASSUME NEW t \in Slots PROVE Honest(requests[t])'
  <2>1. CASE t = s
    BY <1>1, <2>1 DEF Honest
  <2>2. CASE t # s
    <3>1. Honest(requests[t]) /\ requests'[t] = requests[t]
      BY <1>1, <2>2 DEF AddressInvariant
    <3>2. (requests[t].at # "idle" /\ requests[t].at # "create") =>
             requests[t].user \in DOMAIN users
      BY ServedKind DEF AddressInvariant, LinksTypes
    <3>. QED
      BY <3>1, <3>2 DEF Honest
  <2>. QED
    BY <2>1, <2>2
<1>. QED
  BY <1>2, <1>3 DEF AddressInvariant

LEMMA IdleHonest == Honest(Idle)
  BY DEF Honest, Idle

LEMMA BeginAddress ==
  ASSUME AddressInvariant, NEW s \in Slots, Begin(s)
  PROVE  AddressInvariant'
<1>1. LinksTypes' /\ UNCHANGED tables
  BY BeginTypes DEF AddressInvariant
<1>2. ResetLinksProved'
  BY <1>1 DEF tables, AddressInvariant, ResetLinksProved
<1>3. SUFFICES \E new : Serve(s, new) /\ Honest(new)'
  BY <1>1, <1>2, AddressFrame DEF tables
<1>4. ASSUME NEW u, NEW addr, SignUpBegin(s, u, addr) \/ ChangeBegin(s, u, addr)
      PROVE  \E new : Serve(s, new) /\ Honest(new)'
  <2>1. CASE SignUpBegin(s, u, addr)
    <3> DEFINE new == [op |-> "signUp", at |-> "create", user |-> u, email |-> addr]
    <3>1. Serve(s, new) /\ new.at = "create"
      BY <2>1 DEF SignUpBegin
    <3> HIDE DEF new
    <3>. QED
      BY <3>1 DEF Honest
  <2>2. CASE ChangeBegin(s, u, addr)
    <3> DEFINE new == [op |-> "change", at |-> "address", user |-> u, email |-> addr,
                       seen |-> users[u]]
    <3>1. Serve(s, new) /\ new.at = "address" /\ new.user = u /\ new.seen = users[u]
      BY <2>2 DEF ChangeBegin
    <3> HIDE DEF new
    <3>. QED
      BY <1>1, <3>1 DEF Honest, tables
  <2>. QED
    BY <1>4, <2>1, <2>2
<1>5. ASSUME NEW u, ResendBegin(s, u) \/ LoginBegin(s, u)
      PROVE  \E new : Serve(s, new) /\ Honest(new)'
  <2>1. CASE ResendBegin(s, u)
    <3> DEFINE new == [op |-> "resend", at |-> "cooldown", user |-> u,
                       email |-> users[u].email, purpose |-> "verification"]
    <3>1. Serve(s, new) /\ new.at = "cooldown" /\ new.purpose = "verification"
      BY <2>1 DEF ResendBegin
    <3> HIDE DEF new
    <3>. QED
      BY <3>1 DEF Honest
  <2>2. CASE LoginBegin(s, u)
    <3> DEFINE new == [op |-> "login", at |-> "session", user |-> u,
                       password |-> users[u].password]
    <3>1. Serve(s, new) /\ new.at = "session"
      BY <2>2 DEF LoginBegin
    <3> HIDE DEF new
    <3>. QED
      BY <3>1 DEF Honest
  <2>. QED
    BY <1>5, <2>1, <2>2
<1>6. ASSUME NEW addr, RequestResetBegin(s, addr)
      PROVE  \E new : Serve(s, new) /\ Honest(new)'
  <2>1. PICK u \in Recipients(addr) :
          Serve(s, [op |-> "requestReset", at |-> "cooldown", user |-> u, email |-> addr,
                    purpose |-> "reset"])
    BY <1>6 DEF RequestResetBegin
  <2> DEFINE new == [op |-> "requestReset", at |-> "cooldown", user |-> u, email |-> addr,
                     purpose |-> "reset"]
  <2>2. <<u, addr>> \in proved
    BY DEF Recipients, AddressInvariant, VerifiedMeansProved
  <2>3. Serve(s, new) /\ new.at = "cooldown" /\ new.user = u /\ new.email = addr
    BY <2>1
  <2> HIDE DEF new
  <2>. QED
    BY <1>1, <2>2, <2>3 DEF Honest, tables
<1>7. ASSUME NEW l, ConfirmBegin(s, l) \/ ResetBegin(s, l)
      PROVE  \E new : Serve(s, new) /\ Honest(new)'
  <2>1. CASE ConfirmBegin(s, l)
    <3> DEFINE new == [op |-> "confirm", at |-> "available", user |-> links[l].owner,
                       link |-> l, email |-> links[l].email, seen |-> users[links[l].owner]]
    <3>1. /\ Serve(s, new) /\ new.at = "available" /\ new.user = links[l].owner
          /\ new.email = links[l].email /\ users[links[l].owner].email = links[l].email
      BY <2>1 DEF ConfirmBegin, Opens
    <3> HIDE DEF new
    <3>. QED
      BY <1>1, <3>1 DEF Honest, tables
  <2>2. CASE ResetBegin(s, l)
    <3> DEFINE new == [op |-> "reset", at |-> "password", user |-> links[l].owner,
                       link |-> l, email |-> links[l].email]
    <3>1. /\ Serve(s, new) /\ new.at = "password" /\ new.user = links[l].owner
          /\ new.email = links[l].email
          /\ l \in DOMAIN links /\ links[l].purpose = "reset"
      BY <2>2 DEF ResetBegin, Opens
    <3> HIDE DEF new
    <3>. QED
      BY <1>1, <3>1 DEF Honest, tables, AddressInvariant, ResetLinksProved
  <2>. QED
    BY <1>7, <2>1, <2>2
<1>. QED
  BY <1>4, <1>5, <1>6, <1>7 DEF Begin

LEMMA CreateAddress ==
  ASSUME AddressInvariant, NEW s \in Slots, Create(s)
  PROVE  AddressInvariant'
<1> DEFINE r == requests[s]
           row == [email |-> NoAddress, verified |-> FALSE, password |-> 0]
           next == [op |-> "signUp", at |-> "address", user |-> r.user, email |-> r.email,
                    seen |-> row]
<1>1. LinksTypes' /\ UNCHANGED <<links, sessions, issued, proved>>
  BY CreateTypes DEF AddressInvariant, Create
<1>2. ResetLinksProved'
  BY <1>1 DEF AddressInvariant, ResetLinksProved
<1>3. CASE users' = users /\ Serve(s, Idle)
  <2>1. Honest(Idle)'
    BY DEF Honest, Idle
  <2>. QED
    BY <1>1, <1>2, <1>3, <2>1, AddressFrame
<1>4. CASE /\ r.user \notin DOMAIN users
           /\ users' = [v \in DOMAIN users \cup {r.user} |->
                          IF v = r.user THEN row ELSE users[v]]
           /\ Serve(s, IF r.email = NoAddress THEN Idle ELSE next)
  <2>1. /\ DOMAIN users' = DOMAIN users \cup {r.user}
        /\ \A u \in DOMAIN users : users'[u] = users[u]
        /\ ~users'[r.user].verified
    BY <1>4
  <2>2. next.at = "address" /\ next.user = r.user
    OBVIOUS
  <2>3. Honest(Idle)'
    BY DEF Honest, Idle
  <2> DEFINE new == IF r.email = NoAddress THEN Idle ELSE next
  <2>4. Serve(s, new) /\ (new = Idle \/ (new.at = "address" /\ new.user = r.user))
    BY <1>4, <2>2
  <2> HIDE DEF next, new, row
  <2>5. \E x : Serve(s, x) /\ Honest(x)'
    BY <2>1, <2>3, <2>4 DEF Honest, Idle
  <2>. QED
    BY <1>1, <1>2, <2>1, <2>5, AddressFrame
<1>. QED
  BY <1>3, <1>4 DEF Create

\* Looking something up moves a request on, or ends it.
LEMMA LookupAddress ==
  ASSUME AddressInvariant, NEW s \in Slots,
         CheckAddress(s) \/ Cooldown(s) \/ Replace(s) \/ ConfirmCheck(s)
  PROVE  AddressInvariant'
<1> DEFINE r == requests[s]
<1>1. LinksTypes' /\ UNCHANGED tables
  BY CheckAddressTypes, CooldownTypes, ReplaceTypes, ConfirmCheckTypes DEF AddressInvariant
<1>2. ResetLinksProved'
  BY <1>1 DEF tables, AddressInvariant, ResetLinksProved
<1>3. SUFFICES \E new : Serve(s, new) /\ Honest(new)'
  BY <1>1, <1>2, AddressFrame DEF tables
<1>4. Honest(r) /\ RequestsSound
  BY DEF AddressInvariant, LinksTypes
<1>5. Honest(Idle)'
  BY DEF Honest, Idle
<1>6. CASE CheckAddress(s)
  <2> DEFINE next == [r EXCEPT !.at = "write"]
  <2>1. r \in Writing /\ r.at = "address"
    BY <1>4, <1>6, ServedKind DEF CheckAddress, Pending
  <2>2. next.at = "write" /\ next.user = r.user /\ next.seen = r.seen
    BY <2>1 DEF Writing
  <2>3. Serve(s, next) \/ Serve(s, Idle)
    BY <1>6 DEF CheckAddress
  <2> HIDE DEF next
  <2>. QED
    BY <1>1, <1>4, <1>5, <2>1, <2>2, <2>3 DEF Honest, tables
<1>7. CASE Cooldown(s)
  <2> DEFINE next == [r EXCEPT !.at = "replace"]
  <2>1. r \in Mailing /\ r.at = "cooldown"
    BY <1>4, <1>7, ServedKind DEF Cooldown, Pending
  <2>2. /\ next.at = "replace" /\ next.user = r.user /\ next.email = r.email
        /\ next.purpose = r.purpose
    BY <2>1 DEF Mailing
  <2>3. Serve(s, next) \/ Serve(s, Idle)
    BY <1>7 DEF Cooldown
  <2> HIDE DEF next
  <2>. QED
    BY <1>1, <1>4, <1>5, <2>1, <2>2, <2>3 DEF Honest, tables
<1>8. CASE Replace(s)
  <2> DEFINE next == [op |-> r.op, at |-> "issue", user |-> r.user, email |-> r.email,
                      purpose |-> r.purpose, found |-> Replaced(r.user, r.purpose)]
  <2>1. r.at = "replace" /\ Serve(s, next)
    BY <1>8 DEF Replace, Pending
  <2>2. /\ next.at = "issue" /\ next.user = r.user /\ next.email = r.email
        /\ next.purpose = r.purpose
    OBVIOUS
  <2> HIDE DEF next
  <2>. QED
    BY <1>1, <1>4, <2>1, <2>2 DEF Honest, tables
<1>9. CASE ConfirmCheck(s)
  <2> DEFINE next == [r EXCEPT !.at = "verify"]
  <2>1. r \in Confirming /\ r.at = "available"
    BY <1>4, <1>9, ServedKind DEF ConfirmCheck, Pending
  <2>2. next.at = "verify" /\ next.user = r.user /\ next.email = r.email
    BY <2>1 DEF Confirming
  <2>3. Serve(s, next) \/ Serve(s, Idle)
    BY <1>9 DEF ConfirmCheck
  <2> HIDE DEF next
  <2>. QED
    BY <1>1, <1>4, <1>5, <2>1, <2>2, <2>3 DEF Honest, tables
<1>. QED
  BY <1>6, <1>7, <1>8, <1>9

LEMMA IssueAddress ==
  ASSUME AddressInvariant, NEW s \in Slots, Issue(s)
  PROVE  AddressInvariant'
<1> DEFINE r == requests[s]
<1>1. LinksTypes /\ LinksTypes'
  BY IssueTypes DEF AddressInvariant
<1>2. /\ r \in Issuing
      /\ links'[issued'] = [owner |-> r.user, purpose |-> r.purpose, email |-> r.email,
                            used |-> FALSE, age |-> "new"]
      /\ \A l \in DOMAIN links' : l # issued' => l \in DOMAIN links /\ links'[l] = links[l]
      /\ Serve(s, Idle)
      /\ UNCHANGED <<users, sessions, proved>>
  BY <1>1, IssueEffect
<1>3. r.purpose = "reset" => <<r.user, r.email>> \in proved
  BY <1>2 DEF AddressInvariant, Honest, Issuing
<1>4. /\ links'[issued'].owner = r.user /\ links'[issued'].purpose = r.purpose
      /\ links'[issued'].email = r.email
  BY <1>2
<1>5. ResetLinksProved'
  BY <1>2, <1>3, <1>4 DEF AddressInvariant, ResetLinksProved
<1>6. Honest(Idle)'
  BY DEF Honest, Idle
<1>. QED
  BY <1>1, <1>2, <1>5, <1>6, AddressFrame

LEMMA PasswordAddress ==
  ASSUME AddressInvariant, NEW s \in Slots,
         SetPassword(s) \/ Revoke(s) \/ OpenSession(s)
  PROVE  AddressInvariant'
<1> DEFINE r == requests[s]
<1>1. LinksTypes /\ LinksTypes' /\ proved' = proved
  BY SetPasswordTypes, RevokeTypes, OpenSessionTypes
     DEF AddressInvariant, SetPassword, Revoke, OpenSession
<1>2. Honest(Idle)'
  BY DEF Honest, Idle
<1>3. CASE SetPassword(s)
  <2> DEFINE next == [r EXCEPT !.at = "revoke"]
  <2>1. /\ r \in Resetting /\ r.user \in DOMAIN users /\ r.at = "password"
        /\ r.link \in 0..MaxLinks
        /\ links' = links /\ Serve(s, next)
        /\ users' = [users EXCEPT ![r.user].password = r.link]
    BY <1>1, <1>3, ServedKind, LinksAssumption
       DEF LinksTypes, TablesOK, SetPassword, Pending, Resetting
  <2>2. next.at = "revoke" /\ next.user = r.user /\ next.email = r.email
    BY <2>1 DEF Resetting
  <2>3. /\ DOMAIN users' = DOMAIN users
        /\ \A u \in DOMAIN users :
             users'[u].email = users[u].email /\ users'[u].verified = users[u].verified
    BY <1>1, <2>1, PasswordOfUser DEF LinksTypes
  <2>4. Honest(r) /\ ResetLinksProved'
    BY <1>1, <2>1 DEF AddressInvariant, ResetLinksProved
  <2> HIDE DEF next
  <2>5. Serve(s, next) /\ \E x : Serve(s, x) /\ Honest(x)'
    BY <1>1, <2>1, <2>2, <2>4 DEF Honest
  <2>. QED
    BY <1>1, <2>3, <2>4, <2>5, AddressFrame
<1>4. CASE Revoke(s)
  <2>1. users' = users /\ Serve(s, Idle)
    BY <1>4 DEF Revoke
  <2>2. ResetLinksProved'
    <3>1. CASE links' = links
      BY <1>1, <3>1 DEF AddressInvariant, ResetLinksProved
    <3>2. CASE r.link \in DOMAIN links /\ links' = [links EXCEPT ![r.link].used = TRUE]
      <4>1. /\ DOMAIN links' = DOMAIN links
            /\ \A k \in DOMAIN links :
                 /\ links'[k].owner = links[k].owner /\ links'[k].purpose = links[k].purpose
                 /\ links'[k].email = links[k].email
        BY <1>1, <3>2, UsedLink DEF LinksTypes
      <4>. QED
        BY <1>1, <4>1 DEF AddressInvariant, ResetLinksProved
    <3>. QED
      BY <1>4, <3>1, <3>2 DEF Revoke
  <2>. QED
    BY <1>1, <1>2, <2>1, <2>2, AddressFrame
<1>5. CASE OpenSession(s)
  <2>1. users' = users /\ links' = links /\ Serve(s, Idle)
    BY <1>5 DEF OpenSession
  <2>2. ResetLinksProved'
    BY <1>1, <2>1 DEF AddressInvariant, ResetLinksProved
  <2>. QED
    BY <1>1, <1>2, <2>1, <2>2, AddressFrame
<1>. QED
  BY <1>3, <1>4, <1>5

\* Once the address changes the account is not verified, whatever was in flight.
LEMMA WriteAddressAddress ==
  ASSUME ConfirmAlone, AddressInvariant, NEW s \in Slots, WriteAddress(s)
  PROVE  AddressInvariant'
<1> DEFINE r == requests[s]
           u == r.user
           row == [users[u] EXCEPT !.email = r.email,
                                   !.verified = Column(r.seen.verified, FALSE, @)]
           next == [op |-> r.op, at |-> "cooldown", user |-> r.user, email |-> r.email,
                    purpose |-> "verification"]
<1>1. /\ LinksTypes /\ LinksTypes' /\ UNCHANGED <<links, sessions, issued, proved>>
      /\ ResetLinksProved'
  BY WriteAddressTypes DEF AddressInvariant, WriteAddress, ResetLinksProved
<1>2. /\ r \in Writing /\ u \in DOMAIN users /\ r.at = "write" /\ r # Idle
      /\ users[u] \in UserRow /\ Honest(r)
  BY <1>1, ServedKind DEF LinksTypes, TablesOK, WriteAddress, Pending, AddressInvariant, Idle
<1>3. CASE users' = users /\ Serve(s, Idle)
  <2>1. Honest(Idle)'
    BY DEF Honest, Idle
  <2>. QED
    BY <1>1, <1>3, <2>1, AddressFrame
<1>4. CASE /\ users' = [users EXCEPT ![u].email = r.email,
                                     ![u].verified = Column(r.seen.verified, FALSE, @)]
           /\ Serve(s, IF r.email = NoAddress THEN Idle ELSE next)
  <2>1. users' = [users EXCEPT ![u] = row]
    BY <1>4
  <2>2. row.verified = Column(r.seen.verified, FALSE, users[u].verified)
    BY <1>2 DEF UserRow
  <2>3. r.seen.verified \in BOOLEAN /\ users[u].verified \in BOOLEAN
    BY <1>2 DEF Writing, UserRow
  <2>4. ~row.verified
    BY <1>2, <2>2, <2>3 DEF Honest, Column
  <2> HIDE DEF row
  <2>5. /\ DOMAIN users' = DOMAIN users /\ ~users'[u].verified
        /\ \A v \in DOMAIN users \ {u} : users'[v] = users[v]
    BY <1>2, <2>1, <2>4
  <2>6. VerifiedMeansProved'
    BY <1>1, <2>5 DEF AddressInvariant, VerifiedMeansProved
  <2>7. next.at = "cooldown" /\ next.purpose = "verification"
    OBVIOUS
  <2> HIDE DEF next
  <2>8. /\ requests'[s] = Idle \/ requests'[s] = next
        /\ \A t \in Slots \ {s} : requests'[t] = requests[t]
    BY <1>1, <1>4 DEF Serve, LinksTypes, RequestsSound
  <2>9. ASSUME NEW t \in Slots PROVE Honest(requests[t])'
    <3>1. CASE t = s
      BY <2>7, <2>8, <3>1 DEF Honest, Idle
    <3>2. CASE t # s
      <4>1. Honest(requests[t]) /\ requests'[t] = requests[t]
        BY <2>8, <3>2 DEF AddressInvariant
      <4>2. /\ (requests[t].at # "idle" /\ requests[t].at # "create") =>
                  requests[t].user \in DOMAIN users
            /\ requests[t].at \in {"available", "verify"} => requests[t].op = "confirm"
        BY <1>1, ServedKind DEF LinksTypes, Pending, Confirming
      <4>3. requests[t].at \in {"available", "verify"} => requests[t].user # u
        <5> SUFFICES ASSUME requests[t].at \in {"available", "verify"}, requests[t].user = u
                     PROVE  FALSE
          OBVIOUS
        <5>1. requests[t] # Idle
          BY DEF Idle
        <5>2. {r.op, requests[t].op} \in Overlap
          BY <1>1, <1>2, <3>2, <5>1 DEF LinksTypes, RequestsSound
        <5>3. r.op \in {"signUp", "change"} /\ requests[t].op = "confirm"
          BY <1>2, <4>2 DEF Writing
        <5>. QED
          BY <5>2, <5>3 DEF ConfirmAlone
      <4>. QED
        BY <1>1, <2>5, <4>1, <4>2, <4>3 DEF Honest
    <3>. QED
      BY <3>1, <3>2
  <2>. QED
    BY <1>1, <2>6, <2>9 DEF AddressInvariant
<1>. QED
  BY <1>3, <1>4 DEF WriteAddress

\* The address confirmed is the one the account still has.
LEMMA VerifyAddress ==
  ASSUME ConfirmAlone, AddressInvariant, NEW s \in Slots, Verify(s)
  PROVE  AddressInvariant'
<1> DEFINE r == requests[s]
           u == r.user
           v == Column(r.seen.verified, TRUE, users[u].verified)
<1>1. LinksTypes /\ LinksTypes' /\ Serve(s, Idle)
  BY VerifyTypes DEF AddressInvariant, Verify
<1>2. /\ r \in Confirming /\ u \in DOMAIN users /\ r.at = "verify" /\ r # Idle
      /\ users[u].email = r.email
  <2>1. r.at = "verify" /\ Honest(r)
    BY DEF Verify, Pending, AddressInvariant
  <2>2. r \in Confirming /\ u \in DOMAIN users /\ r # Idle
    BY <1>1, <2>1, ServedKind DEF LinksTypes, Pending, Idle
  <2>. QED
    BY <2>1, <2>2 DEF Honest
<1>3. Honest(Idle)'
  BY DEF Honest, Idle
<1>4. CASE UNCHANGED <<users, links, proved>>
  <2>1. ResetLinksProved'
    BY <1>4 DEF AddressInvariant, ResetLinksProved
  <2>. QED
    BY <1>1, <1>3, <1>4, <2>1, AddressFrame
<1>5. CASE /\ r.link \in DOMAIN links
           /\ users' = [users EXCEPT ![u].verified = Column(r.seen.verified, TRUE, @)]
           /\ links' = [links EXCEPT ![r.link].used = TRUE]
           /\ proved' = proved \cup {<<u, r.email>>}
  <2>1. v \in BOOLEAN
    BY <1>1, <1>2 DEF Column, LinksTypes, TablesOK, UserRow
  <2>2. users' = [users EXCEPT ![u].verified = v]
    BY <1>5
  <2> HIDE DEF v
  <2>3. /\ DOMAIN users' = DOMAIN users /\ users'[u].email = users[u].email
        /\ \A w \in DOMAIN users \ {u} : users'[w] = users[w]
    BY <1>1, <1>2, <2>1, <2>2, VerifiedUser DEF LinksTypes
  <2>4. VerifiedMeansProved'
    <3> SUFFICES ASSUME NEW w \in DOMAIN users, users'[w].verified
                 PROVE  <<w, users'[w].email>> \in proved'
      BY <2>3 DEF VerifiedMeansProved
    <3>1. CASE w = u
      BY <1>2, <1>5, <2>3, <3>1
    <3>2. CASE w # u
      BY <1>5, <2>3, <3>2 DEF AddressInvariant, VerifiedMeansProved
    <3>. QED
      BY <3>1, <3>2
  <2>5. /\ DOMAIN links' = DOMAIN links
        /\ \A k \in DOMAIN links :
             /\ links'[k].owner = links[k].owner /\ links'[k].purpose = links[k].purpose
             /\ links'[k].email = links[k].email
    BY <1>1, <1>5, UsedLink DEF LinksTypes
  <2>6. ResetLinksProved'
    BY <1>5, <2>5 DEF AddressInvariant, ResetLinksProved
  <2>7. requests'[s] = Idle /\ \A t \in Slots \ {s} : requests'[t] = requests[t]
    BY <1>1 DEF Serve, LinksTypes, RequestsSound
  <2>8. ASSUME NEW t \in Slots PROVE Honest(requests[t])'
    <3>1. CASE t = s
      BY <2>7, <3>1 DEF Honest, Idle
    <3>2. CASE t # s
      <4>1. Honest(requests[t]) /\ requests'[t] = requests[t]
        BY <2>7, <3>2 DEF AddressInvariant
      <4>2. /\ (requests[t].at # "idle" /\ requests[t].at # "create") =>
                  requests[t].user \in DOMAIN users
            /\ requests[t].at \in {"address", "write"} => requests[t].op \in {"signUp", "change"}
        BY <1>1, ServedKind DEF LinksTypes, Pending, Writing
      <4>3. requests[t].at \in {"address", "write"} => requests[t].user # u
        <5> SUFFICES ASSUME requests[t].at \in {"address", "write"}, requests[t].user = u
                     PROVE  FALSE
          OBVIOUS
        <5>1. requests[t] # Idle
          BY DEF Idle
        <5>2. {requests[t].op, r.op} \in Overlap
          BY <1>1, <1>2, <3>2, <5>1 DEF LinksTypes, RequestsSound
        <5>3. requests[t].op \in {"signUp", "change"} /\ r.op = "confirm"
          BY <1>2, <4>2 DEF Confirming
        <5>. QED
          BY <5>2, <5>3 DEF ConfirmAlone
      <4>. QED
        BY <1>5, <2>3, <4>1, <4>2, <4>3 DEF Honest
    <3>. QED
      BY <3>1, <3>2
  <2>. QED
    BY <1>1, <2>4, <2>6, <2>8 DEF AddressInvariant
<1>. QED
  BY <1>4, <1>5 DEF Verify

LEMMA InitAddress == Init => AddressInvariant
<1> SUFFICES ASSUME Init PROVE AddressInvariant
  OBVIOUS
<1>1. LinksTypes
  BY InitLinksTypes
<1>2. DOMAIN users = {} /\ DOMAIN links = {} /\ \A s \in Slots : requests[s] = Idle
  BY DEF Init
<1>. QED
  BY <1>1, <1>2, IdleHonest DEF AddressInvariant, VerifiedMeansProved, ResetLinksProved

LEMMA NextAddress ==
  ASSUME ConfirmAlone, AddressInvariant, [Next]_vars
  PROVE  AddressInvariant'
<1>0. LinksTypes'
  BY NextLinksTypes DEF AddressInvariant
<1>1. ASSUME NEW s \in Slots, Begin(s) PROVE AddressInvariant'
  BY <1>1, BeginAddress
<1>2. ASSUME NEW s \in Slots, Proceed(s) PROVE AddressInvariant'
  BY <1>2, CreateAddress, LookupAddress, IssueAddress, PasswordAddress, WriteAddressAddress,
     VerifyAddress DEF Proceed
<1>3. CASE Logout
  BY <1>0, <1>3 DEF Logout, AddressInvariant, VerifiedMeansProved, ResetLinksProved, Honest
<1>4. ASSUME NEW l \in 1..MaxLinks, GrowOld(l) PROVE AddressInvariant'
  <2>1. /\ DOMAIN links' = DOMAIN links
        /\ \A k \in DOMAIN links :
             /\ links'[k].owner = links[k].owner /\ links'[k].purpose = links[k].purpose
             /\ links'[k].email = links[k].email
        /\ UNCHANGED <<users, sessions, issued, requests, proved>>
    BY <1>4, GrowOldEffect DEF AddressInvariant
  <2>2. ResetLinksProved'
    BY <2>1 DEF AddressInvariant, ResetLinksProved
  <2>. QED
    BY <1>0, <2>1, <2>2 DEF AddressInvariant, VerifiedMeansProved, Honest
<1>5. CASE Restart
  <2>1. UNCHANGED tables /\ \A s \in Slots : requests'[s] = Idle
    BY <1>5 DEF Restart, tables
  <2>2. \A s \in Slots : Honest(requests[s])'
    BY <2>1 DEF Honest, Idle
  <2>. QED
    BY <1>0, <2>1, <2>2 DEF AddressInvariant, VerifiedMeansProved, ResetLinksProved, tables
<1>6. CASE UNCHANGED vars
  BY <1>0, <1>6 DEF vars, AddressInvariant, VerifiedMeansProved, ResetLinksProved, Honest
<1>. QED
  BY <1>1, <1>2, <1>3, <1>4, <1>5, <1>6 DEF Next

LEMMA AddressInvariantHolds == ASSUME ConfirmAlone PROVE Spec => []AddressInvariant
<1>1. AddressInvariant /\ [Next]_vars => AddressInvariant'
  BY NextAddress
<1>. QED
  BY <1>1, InitAddress, PTL DEF Spec

\* If no account confirms an address while it changes it, whoever is verified
\* opened a link mailed to the address they have, for any number of accounts
\* that claim the same addresses and of requests in flight
\* (auth/email_verification.py:39-78).
THEOREM VerifiedIsProved == ASSUME ConfirmAlone PROVE Spec => []VerifiedMeansProved
<1>1. AddressInvariant => VerifiedMeansProved
  BY DEF AddressInvariant
<1>. QED
  BY <1>1, AddressInvariantHolds, PTL

\* A step changes a password only for a link to an address that was proved.
LEMMA PasswordStep ==
  ASSUME AddressInvariant, [Next]_vars, NEW u \in DOMAIN users,
         users'[u].password # users[u].password
  PROVE  \E s \in Slots :
           requests[s].at = "password" /\ requests[s].user = u
             /\ <<u, requests[s].email>> \in proved
<1>0. LinksTypes
  BY DEF AddressInvariant
<1>1. \E s \in Slots : Create(s) \/ WriteAddress(s) \/ Verify(s) \/ SetPassword(s)
  <2>1. users' # users
    OBVIOUS
  <2>. QED
    BY <2>1 DEF Next, vars, Begin, SignUpBegin, ChangeBegin, ResendBegin, LoginBegin,
         RequestResetBegin, ConfirmBegin, ResetBegin, Proceed, CheckAddress, Cooldown, Replace,
         Issue, ConfirmCheck, Revoke, OpenSession, Logout, GrowOld, Restart
<1>2. ASSUME NEW s \in Slots, Create(s) PROVE FALSE
  BY <1>2 DEF Create
<1>3. ASSUME NEW s \in Slots, WriteAddress(s) PROVE FALSE
  <2> DEFINE r == requests[s]
             row == [users[r.user] EXCEPT !.email = r.email,
                                          !.verified = Column(r.seen.verified, FALSE, @)]
  <2>1. users' = users \/ users' = [users EXCEPT ![r.user] = row]
    BY <1>3 DEF WriteAddress
  <2>2. u = r.user => row.password = users[u].password
    BY <1>0 DEF LinksTypes, TablesOK, UserRow
  <2> HIDE DEF row
  <2>. QED
    BY <2>1, <2>2
<1>4. ASSUME NEW s \in Slots, Verify(s) PROVE FALSE
  <2> DEFINE r == requests[s]
             row == [users[r.user] EXCEPT !.verified = Column(r.seen.verified, TRUE, @)]
  <2>1. users' = users \/ users' = [users EXCEPT ![r.user] = row]
    BY <1>4 DEF Verify
  <2>2. u = r.user => row.password = users[u].password
    BY <1>0 DEF LinksTypes, TablesOK, UserRow
  <2> HIDE DEF row
  <2>. QED
    BY <2>1, <2>2
<1>5. ASSUME NEW s \in Slots, SetPassword(s)
      PROVE  requests[s].at = "password" /\ requests[s].user = u
               /\ <<u, requests[s].email>> \in proved
  <2>1. requests[s].at = "password" /\ requests[s].user = u
    BY <1>5 DEF SetPassword, Pending
  <2>2. Honest(requests[s])
    BY DEF AddressInvariant
  <2>. QED
    BY <2>1, <2>2 DEF Honest
<1>. QED
  BY <1>1, <1>2, <1>3, <1>4, <1>5

\* Under the same condition a password is changed only through a link mailed to
\* an address its account has proved (auth/password_reset.py:46-65).
THEOREM ResetIsByHolder == ASSUME ConfirmAlone PROVE Spec => ResetOnlyByHolder
<1>1. AddressInvariant /\ [Next]_vars =>
        [\A u \in DOMAIN users :
           users'[u].password # users[u].password =>
             \E s \in Slots :
               requests[s].at = "password" /\ requests[s].user = u
                 /\ <<u, requests[s].email>> \in proved]_vars
  BY PasswordStep
<1>. QED
  BY <1>1, AddressInvariantHolds, PTL DEF Spec, ResetOnlyByHolder

----------------------------------------------------------------------------
(* One link of each purpose.  Requests that store links of that purpose    *)
(* must not overlap.                                                       *)

StoredBy(purpose) ==
  IF purpose = "reset" THEN {"requestReset"} ELSE {"signUp", "change", "resend"}

StoreAlone(purpose) == \A p, q \in StoredBy(purpose) : {p, q} \notin Overlap

\* A request on its way to a link stores one of its purpose, and deletes only
\* links of the same account and purpose.
Purposeful(r) ==
  /\ r.at \in {"cooldown", "replace", "issue"} => r.op \in StoredBy(r.purpose)
  /\ r.at = "issue" =>
       /\ r.found \subseteq 1..issued
       /\ \A l \in r.found \cap DOMAIN links :
            links[l].owner = r.user /\ links[l].purpose = r.purpose

\* It has found all there is to replace.
FoundAll(r, purpose) ==
  (r.at = "issue" /\ r.purpose = purpose) => LinksOf(r.user, purpose) \subseteq r.found

OneLinkOf(purpose) ==
  \A k, l \in DOMAIN links :
    ( /\ links[k].purpose = purpose /\ links[l].purpose = purpose
      /\ links[k].owner = links[l].owner ) => k = l

OneLinkInvariant(purpose) ==
  /\ LinksTypes
  /\ OneLinkOf(purpose)
  /\ \A s \in Slots : Purposeful(requests[s]) /\ FoundAll(requests[s], purpose)

\* What begins, as far as links and passwords are concerned.
LEMMA BeginForms ==
  ASSUME LinksTypes, NEW s \in Slots, Begin(s)
  PROVE  \E new :
           /\ Serve(s, new)
           /\ \/ new.at \in {"create", "address"}
              \/ new.at = "cooldown" /\ new.op \in StoredBy(new.purpose)
              \/ /\ new.at = "session" /\ new.user \in DOMAIN users
                 /\ new.password = users[new.user].password
              \/ /\ new.at = "available" /\ new.link \in DOMAIN links
                 /\ links[new.link].purpose = "verification"
              \/ /\ new.at = "password" /\ new.link \in DOMAIN links
                 /\ links[new.link].purpose = "reset"
                 /\ links[new.link].owner = new.user
<1>1. ASSUME NEW u, NEW addr, SignUpBegin(s, u, addr)
      PROVE  \E new : Serve(s, new) /\ new.at = "create"
  <2> DEFINE new == [op |-> "signUp", at |-> "create", user |-> u, email |-> addr]
  <2>1. Serve(s, new) /\ new.at = "create"
    BY <1>1 DEF SignUpBegin
  <2> HIDE DEF new
  <2>. QED
    BY <2>1
<1>2. ASSUME NEW u, NEW addr, ChangeBegin(s, u, addr)
      PROVE  \E new : Serve(s, new) /\ new.at = "address"
  <2> DEFINE new == [op |-> "change", at |-> "address", user |-> u, email |-> addr,
                     seen |-> users[u]]
  <2>1. Serve(s, new) /\ new.at = "address"
    BY <1>2 DEF ChangeBegin
  <2> HIDE DEF new
  <2>. QED
    BY <2>1
<1>3. ASSUME NEW u, ResendBegin(s, u)
      PROVE  \E new : Serve(s, new) /\ new.at = "cooldown" /\ new.op \in StoredBy(new.purpose)
  <2> DEFINE new == [op |-> "resend", at |-> "cooldown", user |-> u, email |-> users[u].email,
                     purpose |-> "verification"]
  <2>1. Serve(s, new) /\ new.at = "cooldown" /\ new.op = "resend"
          /\ new.purpose = "verification"
    BY <1>3 DEF ResendBegin
  <2> HIDE DEF new
  <2>. QED
    BY <2>1 DEF StoredBy
<1>4. ASSUME NEW u, LoginBegin(s, u)
      PROVE  \E new : /\ Serve(s, new) /\ new.at = "session" /\ new.user \in DOMAIN users
                      /\ new.password = users[new.user].password
  <2> DEFINE new == [op |-> "login", at |-> "session", user |-> u,
                     password |-> users[u].password]
  <2>1. /\ Serve(s, new) /\ new.at = "session" /\ new.user = u /\ u \in DOMAIN users
        /\ new.password = users[u].password
    BY <1>4 DEF LoginBegin
  <2> HIDE DEF new
  <2>. QED
    BY <2>1
<1>5. ASSUME NEW addr, RequestResetBegin(s, addr)
      PROVE  \E new : Serve(s, new) /\ new.at = "cooldown" /\ new.op \in StoredBy(new.purpose)
  <2>1. PICK u \in Recipients(addr) :
          Serve(s, [op |-> "requestReset", at |-> "cooldown", user |-> u, email |-> addr,
                    purpose |-> "reset"])
    BY <1>5 DEF RequestResetBegin
  <2> DEFINE new == [op |-> "requestReset", at |-> "cooldown", user |-> u, email |-> addr,
                     purpose |-> "reset"]
  <2>2. Serve(s, new) /\ new.at = "cooldown" /\ new.op = "requestReset" /\ new.purpose = "reset"
    BY <2>1
  <2> HIDE DEF new
  <2>. QED
    BY <2>2 DEF StoredBy
<1>6. ASSUME NEW l, ConfirmBegin(s, l)
      PROVE  \E new : /\ Serve(s, new) /\ new.at = "available" /\ new.link \in DOMAIN links
                      /\ links[new.link].purpose = "verification"
  <2> DEFINE new == [op |-> "confirm", at |-> "available", user |-> links[l].owner,
                     link |-> l, email |-> links[l].email, seen |-> users[links[l].owner]]
  <2>1. /\ Serve(s, new) /\ new.at = "available" /\ new.link = l
        /\ l \in DOMAIN links /\ links[l].purpose = "verification"
    BY <1>6 DEF ConfirmBegin, Opens
  <2> HIDE DEF new
  <2>. QED
    BY <2>1
<1>7. ASSUME NEW l, ResetBegin(s, l)
      PROVE  \E new : /\ Serve(s, new) /\ new.at = "password" /\ new.link \in DOMAIN links
                      /\ links[new.link].purpose = "reset"
                      /\ links[new.link].owner = new.user
  <2> DEFINE new == [op |-> "reset", at |-> "password", user |-> links[l].owner,
                     link |-> l, email |-> links[l].email]
  <2>1. /\ Serve(s, new) /\ new.at = "password" /\ new.link = l /\ new.user = links[l].owner
        /\ l \in DOMAIN links /\ links[l].purpose = "reset"
    BY <1>7 DEF ResetBegin, Opens
  <2> HIDE DEF new
  <2>. QED
    BY <2>1
<1>8. CASE \E u \in Accounts, addr \in Addresses \cup {NoAddress} :
             SignUpBegin(s, u, addr) \/ ChangeBegin(s, u, addr)
  BY <1>1, <1>2, <1>8
<1>9. CASE \E u \in Accounts : ResendBegin(s, u) \/ LoginBegin(s, u)
  BY <1>3, <1>4, <1>9
<1>10. CASE \E addr \in Addresses : RequestResetBegin(s, addr)
  BY <1>5, <1>10
<1>11. CASE \E l \in 1..MaxLinks : ConfirmBegin(s, l) \/ ResetBegin(s, l)
  BY <1>6, <1>7, <1>11
<1>. QED
  BY <1>8, <1>9, <1>10, <1>11 DEF Begin

\* What goes on after looking something up.
LEMMA LookupForms ==
  ASSUME LinksTypes, NEW s \in Slots, NEW r, r = requests[s],
         CheckAddress(s) \/ Cooldown(s) \/ Replace(s) \/ ConfirmCheck(s)
  PROVE  \E new :
           /\ Serve(s, new)
           /\ \/ new = Idle
              \/ new.at = "write"
              \/ /\ r.at = "cooldown" /\ new.at = "replace"
                 /\ new.op = r.op /\ new.purpose = r.purpose
              \/ /\ r.at = "replace" /\ new.at = "issue"
                 /\ new.op = r.op /\ new.purpose = r.purpose
                 /\ new.found = LinksOf(new.user, new.purpose)
              \/ r.at = "available" /\ new.at = "verify" /\ new.link = r.link
<1>0. RequestsSound
  BY DEF LinksTypes
<1>1. CASE CheckAddress(s)
  <2> DEFINE next == [r EXCEPT !.at = "write"]
  <2>1. r \in Writing
    BY <1>0, <1>1, ServedKind DEF CheckAddress, Pending
  <2>2. next.at = "write" /\ (Serve(s, next) \/ Serve(s, Idle))
    BY <1>1, <2>1 DEF CheckAddress, Writing
  <2> HIDE DEF next
  <2>. QED
    BY <2>2
<1>2. CASE Cooldown(s)
  <2> DEFINE next == [r EXCEPT !.at = "replace"]
  <2>1. r \in Mailing /\ r.at = "cooldown"
    BY <1>0, <1>2, ServedKind DEF Cooldown, Pending
  <2>2. /\ next.at = "replace" /\ next.op = r.op /\ next.purpose = r.purpose
        /\ Serve(s, next) \/ Serve(s, Idle)
    BY <1>2, <2>1 DEF Cooldown, Mailing
  <2> HIDE DEF next
  <2>. QED
    BY <2>1, <2>2
<1>3. CASE Replace(s)
  <2> DEFINE next == [op |-> r.op, at |-> "issue", user |-> r.user, email |-> r.email,
                      purpose |-> r.purpose, found |-> Replaced(r.user, r.purpose)]
  <2>1. r.at = "replace" /\ Serve(s, next)
    BY <1>3 DEF Replace, Pending
  <2>2. /\ next.at = "issue" /\ next.op = r.op /\ next.purpose = r.purpose
        /\ next.found = LinksOf(next.user, next.purpose)
    BY DEF Replaced
  <2> HIDE DEF next
  <2>. QED
    BY <2>1, <2>2
<1>4. CASE ConfirmCheck(s)
  <2> DEFINE next == [r EXCEPT !.at = "verify"]
  <2>1. r \in Confirming /\ r.at = "available"
    BY <1>0, <1>4, ServedKind DEF ConfirmCheck, Pending
  <2>2. /\ next.at = "verify" /\ next.link = r.link
        /\ Serve(s, next) \/ Serve(s, Idle)
    BY <1>4, <2>1 DEF ConfirmCheck, Confirming
  <2> HIDE DEF next
  <2>. QED
    BY <2>1, <2>2
<1>. QED
  BY <1>1, <1>2, <1>3, <1>4

\* What goes on after writing to the user table; no password changes.
LEMMA WriteForms ==
  ASSUME LinksTypes, NEW s \in Slots, Create(s) \/ WriteAddress(s)
  PROVE  /\ UNCHANGED <<links, sessions, issued, proved>>
         /\ DOMAIN users \subseteq DOMAIN users'
         /\ \A u \in DOMAIN users : users'[u].password = users[u].password
         /\ \E new :
              /\ Serve(s, new)
              /\ \/ new = Idle
                 \/ new.at = "address"
                 \/ new.at = "cooldown" /\ new.op \in StoredBy(new.purpose)
<1> DEFINE r == requests[s]
<1>1. CASE Create(s)
  <2> DEFINE row == [email |-> NoAddress, verified |-> FALSE, password |-> 0]
             next == [op |-> "signUp", at |-> "address", user |-> r.user, email |-> r.email,
                      seen |-> row]
  <2>1. /\ UNCHANGED <<links, sessions, issued, proved>>
        /\ DOMAIN users \subseteq DOMAIN users'
        /\ \A u \in DOMAIN users : users'[u] = users[u]
        /\ Serve(s, next) \/ Serve(s, Idle)
    BY <1>1 DEF Create
  <2>2. next.at = "address"
    OBVIOUS
  <2> HIDE DEF next
  <2>. QED
    BY <2>1, <2>2
<1>2. CASE WriteAddress(s)
  <2> DEFINE row == [users[r.user] EXCEPT !.email = r.email,
                                          !.verified = Column(r.seen.verified, FALSE, @)]
             next == [op |-> r.op, at |-> "cooldown", user |-> r.user, email |-> r.email,
                      purpose |-> "verification"]
  <2>1. r \in Writing /\ r.user \in DOMAIN users /\ users[r.user] \in UserRow
    BY <1>2, ServedKind DEF LinksTypes, TablesOK, WriteAddress, Pending
  <2>2. users' = users \/ users' = [users EXCEPT ![r.user] = row]
    BY <1>2 DEF WriteAddress
  <2>3. row.password = users[r.user].password
    BY <2>1 DEF UserRow
  <2>4. Serve(s, next) \/ Serve(s, Idle)
    BY <1>2 DEF WriteAddress
  <2>5. next.at = "cooldown" /\ next.op \in StoredBy(next.purpose)
    BY <2>1 DEF Writing, StoredBy
  <2>6. UNCHANGED <<links, sessions, issued, proved>>
    BY <1>2 DEF WriteAddress
  <2> HIDE DEF row, next
  <2>7. DOMAIN users' = DOMAIN users
    BY <2>2
  <2>8. \A u \in DOMAIN users : users'[u].password = users[u].password
    BY <2>1, <2>2, <2>3
  <2>. QED
    BY <2>4, <2>5, <2>6, <2>7, <2>8
<1>. QED
  BY <1>1, <1>2

\* A step that stores no link is judged by its own request.
LEMMA OneLinkFrame ==
  ASSUME NEW purpose, OneLinkInvariant(purpose), LinksTypes', NEW s \in Slots, NEW new,
         Serve(s, new), Purposeful(new)', FoundAll(new, purpose)',
         DOMAIN links' = DOMAIN links,
         \A l \in DOMAIN links :
           links'[l].owner = links[l].owner /\ links'[l].purpose = links[l].purpose,
         issued' = issued
  PROVE  OneLinkInvariant(purpose)'
<1>1. requests'[s] = new /\ \A t \in Slots \ {s} : requests'[t] = requests[t]
  BY DEF Serve, OneLinkInvariant, LinksTypes, RequestsSound
<1>2. OneLinkOf(purpose)'
  BY DEF OneLinkInvariant, OneLinkOf
<1>3. ASSUME NEW t \in Slots
      PROVE  Purposeful(requests[t])' /\ FoundAll(requests[t], purpose)'
  <2>1. CASE t = s
    BY <1>1, <2>1 DEF Purposeful, FoundAll, LinksOf
  <2>2. CASE t # s
    <3>1. /\ Purposeful(requests[t]) /\ FoundAll(requests[t], purpose)
          /\ requests'[t] = requests[t]
      BY <1>1, <2>2 DEF OneLinkInvariant
    <3>. QED
      BY <3>1 DEF Purposeful, FoundAll, LinksOf
  <2>. QED
    BY <2>1, <2>2
<1>. QED
  BY <1>2, <1>3 DEF OneLinkInvariant

LEMMA IssueOneLink ==
  ASSUME NEW purpose, StoreAlone(purpose), OneLinkInvariant(purpose), NEW s \in Slots, Issue(s)
  PROVE  OneLinkInvariant(purpose)'
<1> DEFINE r == requests[s]
<1>1. LinksTypes /\ LinksTypes'
  BY IssueTypes DEF OneLinkInvariant
<1>2. /\ r \in Issuing /\ r.user \in DOMAIN users /\ issued \in Nat /\ issued' = issued + 1
      /\ DOMAIN links' = (DOMAIN links \ r.found) \cup {issued'}
      /\ links'[issued'] = [owner |-> r.user, purpose |-> r.purpose, email |-> r.email,
                            used |-> FALSE, age |-> "new"]
      /\ \A l \in DOMAIN links' : l # issued' => l \in DOMAIN links /\ links'[l] = links[l]
      /\ Serve(s, Idle)
  BY <1>1, IssueEffect
<1>3. links'[issued'].owner = r.user /\ links'[issued'].purpose = r.purpose
  BY <1>2
<1>4. /\ r.at = "issue" /\ r # Idle /\ Purposeful(r) /\ FoundAll(r, purpose)
  BY <1>2 DEF Issuing, Idle, OneLinkInvariant
<1>5. DOMAIN links \subseteq 1..issued /\ issued' \notin DOMAIN links
  BY <1>1, <1>2 DEF LinksTypes, TablesOK
<1>6. OneLinkOf(purpose)'
  <2> SUFFICES ASSUME NEW k \in DOMAIN links', NEW l \in DOMAIN links',
                      links'[k].purpose = purpose, links'[l].purpose = purpose,
                      links'[k].owner = links'[l].owner, k # l
               PROVE  FALSE
    BY DEF OneLinkOf
  <2>1. ASSUME NEW m \in DOMAIN links', m # issued', links'[m].purpose = purpose,
               r.purpose = purpose, links'[m].owner = r.user
        PROVE  FALSE
    <3>1. m \in DOMAIN links /\ m \notin r.found
      BY <1>2, <2>1
    <3>2. m \in LinksOf(r.user, purpose)
      BY <1>2, <2>1, <3>1 DEF LinksOf
    <3>. QED
      BY <1>4, <2>1, <3>1, <3>2 DEF FoundAll
  <2>2. CASE k = issued'
    BY <1>3, <2>1, <2>2
  <2>3. CASE l = issued'
    BY <1>3, <2>1, <2>3
  <2>4. CASE k # issued' /\ l # issued'
    BY <1>2, <2>4 DEF OneLinkInvariant, OneLinkOf
  <2>. QED
    BY <2>2, <2>3, <2>4
<1>7. requests'[s] = Idle /\ \A t \in Slots \ {s} : requests'[t] = requests[t]
  BY <1>1, <1>2 DEF Serve, LinksTypes, RequestsSound
<1>8. ASSUME NEW t \in Slots
      PROVE  Purposeful(requests[t])' /\ FoundAll(requests[t], purpose)'
  <2>1. CASE t = s
    BY <1>7, <2>1 DEF Purposeful, FoundAll, Idle
  <2>2. CASE t # s
    <3> DEFINE q == requests[t]
    <3>1. Purposeful(q) /\ FoundAll(q, purpose) /\ requests'[t] = q
      BY <1>7, <2>2 DEF OneLinkInvariant
    <3>2. Purposeful(requests[t])'
      <4>1. q.at = "issue" => /\ q.found \subseteq 1..issued'
                              /\ issued' \notin q.found
        BY <1>2, <3>1 DEF Purposeful
      <4>. QED
        BY <1>2, <3>1, <4>1 DEF Purposeful
    <3>3. FoundAll(requests[t], purpose)'
      <4> SUFFICES ASSUME q.at = "issue", q.purpose = purpose
                   PROVE  LinksOf(q.user, purpose)' \subseteq q.found
        BY <3>1 DEF FoundAll, LinksOf
      <4>1. ~(r.purpose = purpose /\ r.user = q.user)
        <5> SUFFICES ASSUME r.purpose = purpose, r.user = q.user PROVE FALSE
          OBVIOUS
        <5>1. q # Idle
          BY DEF Idle
        <5>2. {r.op, q.op} \in Overlap
          BY <1>1, <1>4, <2>2, <5>1 DEF LinksTypes, RequestsSound
        <5>3. r.op \in StoredBy(purpose) /\ q.op \in StoredBy(purpose)
          BY <1>4, <3>1 DEF Purposeful
        <5>. QED
          BY <5>2, <5>3 DEF StoreAlone
      <4>2. ASSUME NEW l \in DOMAIN links', links'[l].owner = q.user,
                   links'[l].purpose = purpose
            PROVE  l \in q.found
        <5>1. l # issued'
          BY <1>3, <4>1, <4>2
        <5>2. l \in LinksOf(q.user, purpose)
          BY <1>2, <4>2, <5>1 DEF LinksOf
        <5>. QED
          BY <3>1, <5>2 DEF FoundAll
      <4>. QED
        BY <3>1, <4>2 DEF LinksOf
    <3>. QED
      BY <3>2, <3>3
  <2>. QED
    BY <2>1, <2>2
<1>. QED
  BY <1>1, <1>6, <1>8 DEF OneLinkInvariant

LEMMA ServedOneLink ==
  ASSUME NEW purpose, StoreAlone(purpose), OneLinkInvariant(purpose), NEW s \in Slots,
         Begin(s) \/ Proceed(s)
  PROVE  OneLinkInvariant(purpose)'
<1>0. LinksTypes /\ LinksTypes'
  BY BeginTypes, ProceedTypes DEF OneLinkInvariant
<1>1. Purposeful(Idle)' /\ FoundAll(Idle, purpose)'
  BY DEF Purposeful, FoundAll, Idle
<1>2. ASSUME UNCHANGED <<links, issued>>, NEW new, Serve(s, new),
             Purposeful(new)', FoundAll(new, purpose)'
      PROVE  OneLinkInvariant(purpose)'
  BY <1>0, <1>2, OneLinkFrame
<1>3. CASE Begin(s)
  <2>1. UNCHANGED <<links, issued>>
    BY <1>0, <1>3, BeginTypes DEF tables
  <2>2. PICK new : /\ Serve(s, new)
                   /\ \/ new.at \in {"create", "address", "session", "available", "password"}
                      \/ new.at = "cooldown" /\ new.op \in StoredBy(new.purpose)
    BY <1>0, <1>3, BeginForms
  <2>3. Purposeful(new)' /\ FoundAll(new, purpose)'
    BY <2>2 DEF Purposeful, FoundAll
  <2>. QED
    BY <1>2, <2>1, <2>2, <2>3
<1>4. CASE CheckAddress(s) \/ Cooldown(s) \/ Replace(s) \/ ConfirmCheck(s)
  <2> DEFINE r == requests[s]
  <2>1. UNCHANGED <<links, issued>>
    BY <1>4 DEF CheckAddress, Cooldown, Replace, ConfirmCheck
  <2>2. PICK new :
          /\ Serve(s, new)
          /\ \/ new = Idle
             \/ new.at = "write"
             \/ /\ r.at = "cooldown" /\ new.at = "replace"
                /\ new.op = r.op /\ new.purpose = r.purpose
             \/ /\ r.at = "replace" /\ new.at = "issue"
                /\ new.op = r.op /\ new.purpose = r.purpose
                /\ new.found = LinksOf(new.user, new.purpose)
             \/ r.at = "available" /\ new.at = "verify" /\ new.link = r.link
    BY <1>0, <1>4, LookupForms
  <2>3. Purposeful(r)
    BY DEF OneLinkInvariant
  <2>4. LinksOf(new.user, new.purpose) \subseteq 1..issued
    BY <1>0 DEF LinksOf, LinksTypes, TablesOK
  <2>5. Purposeful(new)'
    BY <2>1, <2>2, <2>3, <2>4 DEF Purposeful, LinksOf, Idle
  <2>6. FoundAll(new, purpose)'
    BY <2>1, <2>2 DEF FoundAll, LinksOf, Idle
  <2>. QED
    BY <1>2, <2>1, <2>2, <2>5, <2>6
<1>5. CASE Create(s) \/ WriteAddress(s)
  <2>1. UNCHANGED <<links, issued>>
    BY <1>0, <1>5, WriteForms
  <2>2. PICK new : /\ Serve(s, new)
                   /\ \/ new = Idle
                      \/ new.at = "address"
                      \/ new.at = "cooldown" /\ new.op \in StoredBy(new.purpose)
    BY <1>0, <1>5, WriteForms
  <2>3. Purposeful(new)' /\ FoundAll(new, purpose)'
    BY <2>2 DEF Purposeful, FoundAll, Idle
  <2>. QED
    BY <1>2, <2>1, <2>2, <2>3
<1>6. CASE Issue(s)
  BY <1>6, IssueOneLink
<1>7. CASE Verify(s) \/ Revoke(s)
  <2>1. Serve(s, Idle) /\ issued' = issued
    BY <1>7 DEF Verify, Revoke
  <2>2. \/ links' = links
        \/ /\ requests[s].link \in DOMAIN links
           /\ links' = [links EXCEPT ![requests[s].link].used = TRUE]
    BY <1>7 DEF Verify, Revoke
  <2>3. /\ DOMAIN links' = DOMAIN links
        /\ \A l \in DOMAIN links :
             links'[l].owner = links[l].owner /\ links'[l].purpose = links[l].purpose
    BY <1>0, <2>2, UsedLink DEF LinksTypes
  <2>. QED
    BY <1>0, <1>1, <2>1, <2>3, OneLinkFrame
<1>8. CASE SetPassword(s)
  <2> DEFINE next == [requests[s] EXCEPT !.at = "revoke"]
  <2>1. requests[s] \in Resetting
    BY <1>0, <1>8, ServedKind DEF SetPassword, Pending, LinksTypes
  <2>2. next.at = "revoke" /\ Serve(s, next) /\ UNCHANGED <<links, issued>>
    BY <1>8, <2>1 DEF SetPassword, Resetting
  <2> HIDE DEF next
  <2>3. PICK new : Serve(s, new) /\ new.at = "revoke"
    BY <2>2
  <2>4. Purposeful(new)' /\ FoundAll(new, purpose)'
    BY <2>3 DEF Purposeful, FoundAll
  <2>. QED
    BY <1>2, <2>2, <2>3, <2>4
<1>9. CASE OpenSession(s)
  <2>1. Serve(s, Idle) /\ UNCHANGED <<links, issued>>
    BY <1>9 DEF OpenSession
  <2>. QED
    BY <1>1, <1>2, <2>1
<1>. QED
  BY <1>3, <1>4, <1>5, <1>6, <1>7, <1>8, <1>9 DEF Proceed

LEMMA InitOneLink == ASSUME NEW purpose, Init PROVE OneLinkInvariant(purpose)
<1>1. LinksTypes
  BY InitLinksTypes
<1>2. DOMAIN links = {} /\ \A s \in Slots : requests[s] = Idle
  BY DEF Init
<1>. QED
  BY <1>1, <1>2 DEF OneLinkInvariant, OneLinkOf, Purposeful, FoundAll, Idle

LEMMA NextOneLink ==
  ASSUME NEW purpose, StoreAlone(purpose), OneLinkInvariant(purpose), [Next]_vars
  PROVE  OneLinkInvariant(purpose)'
<1>0. LinksTypes /\ LinksTypes'
  BY NextLinksTypes DEF OneLinkInvariant
<1>1. CASE \E s \in Slots : Begin(s) \/ Proceed(s)
  BY <1>1, ServedOneLink
<1>2. ASSUME UNCHANGED <<requests, issued>>, DOMAIN links' = DOMAIN links,
             \A l \in DOMAIN links :
               links'[l].owner = links[l].owner /\ links'[l].purpose = links[l].purpose
      PROVE  OneLinkInvariant(purpose)'
  BY <1>0, <1>2 DEF OneLinkInvariant, OneLinkOf, Purposeful, FoundAll, LinksOf
<1>3. CASE Logout \/ UNCHANGED vars
  BY <1>2, <1>3 DEF Logout, vars
<1>4. ASSUME NEW l \in 1..MaxLinks, GrowOld(l) PROVE OneLinkInvariant(purpose)'
  BY <1>0, <1>2, <1>4, GrowOldEffect
<1>5. CASE Restart
  <2>1. links' = links /\ \A s \in Slots : requests'[s] = Idle
    BY <1>5 DEF Restart
  <2>2. \A s \in Slots : Purposeful(requests[s])' /\ FoundAll(requests[s], purpose)'
    BY <2>1 DEF Purposeful, FoundAll, Idle
  <2>. QED
    BY <1>0, <2>1, <2>2 DEF OneLinkInvariant, OneLinkOf
<1>. QED
  BY <1>1, <1>3, <1>4, <1>5 DEF Next

\* If requests that store links of one purpose do not overlap for an account, it
\* never has two that would open (auth/email_tokens.py:46-63).
THEOREM NewestLinkOnly ==
  ASSUME StoreAlone("verification"), StoreAlone("reset")
  PROVE  Spec => []OneWorkingLink
<1>1. OneLinkInvariant("verification") /\ OneLinkInvariant("reset") => OneWorkingLink
  <2> SUFFICES ASSUME OneLinkInvariant("verification"), OneLinkInvariant("reset"),
                      NEW k \in DOMAIN links, NEW l \in DOMAIN links,
                      links[k].owner = links[l].owner, links[k].purpose = links[l].purpose
               PROVE  k = l
    BY DEF OneWorkingLink
  <2>1. links[k].purpose \in {"verification", "reset"}
    BY DEF OneLinkInvariant, LinksTypes, TablesOK, LinkRow, Purposes
  <2>. QED
    BY <2>1 DEF OneLinkInvariant, OneLinkOf
<1>2. Init => OneLinkInvariant("verification") /\ OneLinkInvariant("reset")
  BY InitOneLink
<1>3. /\ OneLinkInvariant("verification") /\ [Next]_vars => OneLinkInvariant("verification")'
      /\ OneLinkInvariant("reset") /\ [Next]_vars => OneLinkInvariant("reset")'
  BY NextOneLink
<1>. QED
  BY <1>1, <1>2, <1>3, PTL DEF Spec

----------------------------------------------------------------------------
(* Sessions and resets.  A reset must not overlap a login of its account,  *)
(* nor a request for another reset link, nor two of those one another.     *)

ResetAlone ==
  /\ {"reset", "login"} \notin Overlap
  /\ {"reset", "requestReset"} \notin Overlap
  /\ StoreAlone("reset")

UsedReset(l) == l \in DOMAIN links /\ links[l].purpose = "reset" /\ links[l].used

\* What a request in flight will do cannot bring an older password back.
InTime(r) ==
  /\ r.at = "session" =>
       \A l \in DOMAIN links :
         UsedReset(l) /\ links[l].owner = r.user => r.password >= l
  /\ r.at \in {"available", "verify"} =>
       (r.link \in DOMAIN links => links[r.link].purpose = "verification")
  /\ r.at \in {"password", "revoke"} =>
       /\ r.link \in DOMAIN links
       /\ links[r.link].purpose = "reset" /\ links[r.link].owner = r.user
  /\ r.at = "revoke" => users[r.user].password = r.link

\* The password is at least as new as the last link used to set it.
PasswordsCurrent ==
  \A l \in DOMAIN links : UsedReset(l) => users[links[l].owner].password >= l

SessionInvariant ==
  /\ OneLinkInvariant("reset")
  /\ NoSessionOutlivesReset
  /\ PasswordsCurrent
  /\ \A s \in Slots : InTime(requests[s])

\* A step that sets no password, opens no session and spends no reset link is
\* judged by its own request.
LEMMA SessionFrame ==
  ASSUME SessionInvariant, OneLinkInvariant("reset")', NEW s \in Slots, NEW new,
         Serve(s, new), InTime(new)',
         DOMAIN links' = DOMAIN links,
         \A l \in DOMAIN links :
           /\ links'[l].owner = links[l].owner /\ links'[l].purpose = links[l].purpose
           /\ links[l].purpose = "reset" => links'[l].used = links[l].used,
         \A u \in DOMAIN users : users'[u].password = users[u].password,
         sessions' \subseteq sessions
  PROVE  SessionInvariant'
<1>1. LinksTypes
  BY DEF SessionInvariant, OneLinkInvariant
<1>2. requests'[s] = new /\ \A t \in Slots \ {s} : requests'[t] = requests[t]
  BY <1>1 DEF Serve, LinksTypes, RequestsSound
<1>3. \A l : UsedReset(l)' <=> UsedReset(l)
  BY DEF UsedReset
<1>4. \A l \in DOMAIN links : links[l].owner \in DOMAIN users
  BY <1>1 DEF LinksTypes, TablesOK
<1>5. NoSessionOutlivesReset' /\ PasswordsCurrent'
  <2>1. PasswordsCurrent'
    BY <1>3, <1>4 DEF SessionInvariant, PasswordsCurrent
  <2>2. NoSessionOutlivesReset'
    BY DEF SessionInvariant, NoSessionOutlivesReset
  <2>. QED
    BY <2>1, <2>2
<1>6. ASSUME NEW t \in Slots PROVE InTime(requests[t])'
  <2>1. CASE t = s
    BY <1>2, <2>1 DEF InTime, UsedReset
  <2>2. CASE t # s
    <3>1. InTime(requests[t]) /\ requests'[t] = requests[t]
      BY <1>2, <2>2 DEF SessionInvariant
    <3>2. requests[t].at = "revoke" => requests[t].user \in DOMAIN users
      BY <1>1, ServedKind DEF LinksTypes
    <3>. QED
      BY <1>3, <3>1, <3>2 DEF InTime, UsedReset
  <2>. QED
    BY <2>1, <2>2
<1>. QED
  BY <1>5, <1>6 DEF SessionInvariant

LEMMA IdleInTime == InTime(Idle) /\ InTime(Idle)'
  BY DEF InTime, Idle

LEMMA BeginSession ==
  ASSUME ResetAlone, SessionInvariant, NEW s \in Slots, Begin(s)
  PROVE  SessionInvariant'
<1>1. LinksTypes /\ UNCHANGED tables /\ OneLinkInvariant("reset")'
  BY BeginTypes, ServedOneLink DEF SessionInvariant, OneLinkInvariant, ResetAlone
<1>2. PICK new :
        /\ Serve(s, new)
        /\ \/ new.at \in {"create", "address", "cooldown"}
           \/ /\ new.at = "session" /\ new.user \in DOMAIN users
              /\ new.password = users[new.user].password
           \/ /\ new.at = "available" /\ new.link \in DOMAIN links
              /\ links[new.link].purpose = "verification"
           \/ /\ new.at = "password" /\ new.link \in DOMAIN links
              /\ links[new.link].purpose = "reset"
              /\ links[new.link].owner = new.user
  BY <1>1, BeginForms
<1>3. InTime(new)'
  BY <1>1, <1>2 DEF InTime, tables, SessionInvariant, PasswordsCurrent, UsedReset
<1>. QED
  BY <1>1, <1>2, <1>3, SessionFrame DEF tables

LEMMA LookupSession ==
  ASSUME ResetAlone, SessionInvariant, NEW s \in Slots,
         \/ CheckAddress(s) \/ Cooldown(s) \/ Replace(s) \/ ConfirmCheck(s)
         \/ Create(s) \/ WriteAddress(s)
  PROVE  SessionInvariant'
<1> DEFINE r == requests[s]
<1>1. LinksTypes /\ OneLinkInvariant("reset")'
  BY ServedOneLink DEF SessionInvariant, OneLinkInvariant, ResetAlone, Proceed
<1>2. CASE CheckAddress(s) \/ Cooldown(s) \/ Replace(s) \/ ConfirmCheck(s)
  <2>1. UNCHANGED tables
    BY <1>2 DEF CheckAddress, Cooldown, Replace, ConfirmCheck, tables
  <2>2. PICK new : /\ Serve(s, new)
                   /\ \/ new = Idle
                      \/ new.at \in {"write", "replace", "issue"}
                      \/ r.at = "available" /\ new.at = "verify" /\ new.link = r.link
    BY <1>1, <1>2, LookupForms
  <2>3. InTime(r)
    BY DEF SessionInvariant
  <2>4. InTime(new)'
    BY <2>1, <2>2, <2>3 DEF InTime, tables, Idle
  <2>. QED
    BY <1>1, <2>1, <2>2, <2>4, SessionFrame DEF tables
<1>3. CASE Create(s) \/ WriteAddress(s)
  <2>1. /\ UNCHANGED <<links, sessions, issued, proved>>
        /\ \A u \in DOMAIN users : users'[u].password = users[u].password
    BY <1>1, <1>3, WriteForms
  <2>2. PICK new : Serve(s, new) /\ (new = Idle \/ new.at \in {"address", "cooldown"})
    BY <1>1, <1>3, WriteForms
  <2>3. InTime(new)'
    BY <2>2 DEF InTime, Idle
  <2>. QED
    BY <1>1, <2>1, <2>2, <2>3, SessionFrame
<1>. QED
  BY <1>2, <1>3

LEMMA VerifySession ==
  ASSUME ResetAlone, SessionInvariant, NEW s \in Slots, Verify(s)
  PROVE  SessionInvariant'
<1> DEFINE r == requests[s]
           v == Column(r.seen.verified, TRUE, users[r.user].verified)
<1>1. LinksTypes /\ OneLinkInvariant("reset")'
  BY ServedOneLink DEF SessionInvariant, OneLinkInvariant, ResetAlone, Proceed
<1>2. Serve(s, Idle) /\ sessions' = sessions
  BY DEF Verify
<1>3. r.at = "verify" /\ InTime(r) /\ r \in Confirming /\ r.user \in DOMAIN users
  BY <1>1, ServedKind DEF Verify, Pending, SessionInvariant, LinksTypes
<1>4. CASE UNCHANGED <<users, links, proved>>
  BY <1>1, <1>2, <1>4, IdleInTime, SessionFrame
<1>5. CASE /\ r.link \in DOMAIN links
           /\ users' = [users EXCEPT ![r.user].verified = Column(r.seen.verified, TRUE, @)]
           /\ links' = [links EXCEPT ![r.link].used = TRUE]
  <2>1. v \in BOOLEAN
    BY <1>1, <1>3 DEF Column, LinksTypes, TablesOK, UserRow
  <2>2. users' = [users EXCEPT ![r.user].verified = v]
    BY <1>5
  <2> HIDE DEF v
  <2>3. \A u \in DOMAIN users : users'[u].password = users[u].password
    BY <1>1, <1>3, <2>1, <2>2, VerifiedUser DEF LinksTypes
  <2>4. links[r.link].purpose = "verification"
    BY <1>3, <1>5 DEF InTime
  <2>5. /\ DOMAIN links' = DOMAIN links
        /\ \A k \in DOMAIN links :
             /\ links'[k].owner = links[k].owner /\ links'[k].purpose = links[k].purpose
             /\ k # r.link => links'[k] = links[k]
    BY <1>1, <1>5, UsedLink DEF LinksTypes
  <2>. QED
    BY <1>1, <1>2, <2>3, <2>4, <2>5, IdleInTime, SessionFrame
<1>. QED
  BY <1>4, <1>5 DEF Verify

\* No reset is in flight whose link could be deleted.
LEMMA IssueSession ==
  ASSUME ResetAlone, SessionInvariant, NEW s \in Slots, Issue(s)
  PROVE  SessionInvariant'
<1> DEFINE r == requests[s]
<1>1. LinksTypes /\ OneLinkInvariant("reset")'
  BY ServedOneLink DEF SessionInvariant, OneLinkInvariant, ResetAlone, Proceed
<1>2. /\ r \in Issuing /\ issued \in Nat /\ issued' = issued + 1
      /\ DOMAIN links' = (DOMAIN links \ r.found) \cup {issued'}
      /\ links'[issued'] = [owner |-> r.user, purpose |-> r.purpose, email |-> r.email,
                            used |-> FALSE, age |-> "new"]
      /\ \A l \in DOMAIN links' : l # issued' => l \in DOMAIN links /\ links'[l] = links[l]
      /\ Serve(s, Idle)
      /\ UNCHANGED <<users, sessions, proved>>
  BY <1>1, IssueEffect
<1>3. ~links'[issued'].used
  BY <1>2
<1>4. /\ r.at = "issue" /\ r # Idle /\ Purposeful(r)
  BY <1>2 DEF Issuing, Idle, SessionInvariant, OneLinkInvariant
<1>5. \A l : UsedReset(l)' => UsedReset(l) /\ links'[l] = links[l]
  BY <1>2, <1>3 DEF UsedReset
<1>6. PasswordsCurrent'
  BY <1>2, <1>5 DEF SessionInvariant, PasswordsCurrent, UsedReset
<1>7. NoSessionOutlivesReset'
  BY <1>2, <1>3 DEF SessionInvariant, NoSessionOutlivesReset
<1>8. requests'[s] = Idle /\ \A t \in Slots \ {s} : requests'[t] = requests[t]
  BY <1>1, <1>2 DEF Serve, LinksTypes, RequestsSound
<1>9. ASSUME NEW t \in Slots PROVE InTime(requests[t])'
  <2>1. CASE t = s
    BY <1>8, <2>1 DEF InTime, Idle
  <2>2. CASE t # s
    <3> DEFINE q == requests[t]
    <3>1. InTime(q) /\ requests'[t] = q
      BY <1>8, <2>2 DEF SessionInvariant
    <3>2. q.at = "session" => \A l \in DOMAIN links' :
            UsedReset(l)' /\ links'[l].owner = q.user => q.password >= l
      BY <1>5, <3>1 DEF InTime, UsedReset
    <3>3. q.at \in {"available", "verify"} =>
            (q.link \in DOMAIN links' => links'[q.link].purpose = "verification")
      <4> SUFFICES ASSUME q.at \in {"available", "verify"}, q.link \in DOMAIN links'
                   PROVE  links'[q.link].purpose = "verification"
        OBVIOUS
      <4>1. q \in Confirming
        BY <1>1, ServedKind DEF LinksTypes, Pending
      <4>2. q.link \in 1..issued
        BY <1>1, <4>1, ServedKind DEF LinksTypes, Confirming
      <4>3. q.link # issued'
        BY <1>2, <4>2
      <4>. QED
        BY <1>2, <3>1, <4>3 DEF InTime
    <3>4. q.at \in {"password", "revoke"} =>
            /\ q.link \in DOMAIN links' /\ links'[q.link] = links[q.link]
      <4> SUFFICES ASSUME q.at \in {"password", "revoke"}
                   PROVE  q.link \in DOMAIN links' /\ links'[q.link] = links[q.link]
        OBVIOUS
      <4>1. q \in Resetting /\ q # Idle
        BY <1>1, ServedKind DEF LinksTypes, Pending, Idle
      <4>2. q.op = "reset" /\ q.link \in 1..issued
        BY <1>1, <4>1, ServedKind DEF LinksTypes, Resetting
      <4>3. /\ q.link \in DOMAIN links
            /\ links[q.link].purpose = "reset" /\ links[q.link].owner = q.user
        BY <3>1 DEF InTime
      <4>4. q.link \notin r.found
        <5> SUFFICES ASSUME q.link \in r.found PROVE FALSE
          OBVIOUS
        <5>1. r.user = q.user /\ r.purpose = "reset"
          BY <1>4, <4>3 DEF Purposeful
        <5>2. r.op = "requestReset"
          BY <1>4, <5>1 DEF Purposeful, StoredBy
        <5>3. {q.op, r.op} \in Overlap
          BY <1>1, <1>4, <2>2, <4>1, <5>1 DEF LinksTypes, RequestsSound
        <5>. QED
          BY <4>2, <5>2, <5>3 DEF ResetAlone
      <4>5. q.link # issued'
        BY <1>2, <4>2
      <4>6. q.link \in DOMAIN links'
        BY <1>2, <4>3, <4>4
      <4>. QED
        BY <1>2, <4>5, <4>6
    <3>. QED
      BY <1>2, <3>1, <3>2, <3>3, <3>4 DEF InTime
  <2>. QED
    BY <2>1, <2>2
<1>. QED
  BY <1>1, <1>6, <1>7, <1>9 DEF SessionInvariant

\* The link of every other reset of this account is the same one.
LEMMA SameLink ==
  ASSUME SessionInvariant, NEW s \in Slots, NEW l \in DOMAIN links,
         requests[s].at \in {"password", "revoke"},
         links[l].purpose = "reset", links[l].owner = requests[s].user
  PROVE  requests[s].link = l
<1>1. InTime(requests[s])
  BY DEF SessionInvariant
<1>. QED
  BY <1>1 DEF InTime, SessionInvariant, OneLinkInvariant, OneLinkOf

LEMMA SetPasswordSession ==
  ASSUME ResetAlone, SessionInvariant, NEW s \in Slots, SetPassword(s)
  PROVE  SessionInvariant'
<1> DEFINE r == requests[s]
           next == [r EXCEPT !.at = "revoke"]
<1>1. LinksTypes /\ OneLinkInvariant("reset")'
  BY ServedOneLink DEF SessionInvariant, OneLinkInvariant, ResetAlone, Proceed
<1>2. r.at = "password" /\ InTime(r)
  BY DEF SetPassword, Pending, SessionInvariant
<1>3. /\ r \in Resetting /\ r.user \in DOMAIN users /\ r.link \in 0..MaxLinks
      /\ UNCHANGED <<links, sessions>> /\ Serve(s, next)
      /\ users' = [users EXCEPT ![r.user].password = r.link]
  BY <1>1, ServedKind, LinksAssumption DEF LinksTypes, TablesOK, SetPassword, Resetting
<1>4. next.at = "revoke" /\ next.user = r.user /\ next.link = r.link
  BY <1>3 DEF Resetting
<1>5. /\ users'[r.user].password = r.link
      /\ \A w \in DOMAIN users \ {r.user} : users'[w] = users[w]
  BY <1>1, <1>3, PasswordOfUser DEF LinksTypes
<1>6. \A l \in DOMAIN links :
        (links[l].purpose = "reset" /\ links[l].owner = r.user) => l = r.link
  BY <1>2, SameLink
<1>7. PasswordsCurrent'
  <2> SUFFICES ASSUME NEW l \in DOMAIN links, UsedReset(l)
               PROVE  users'[links[l].owner].password >= l
    BY <1>3 DEF PasswordsCurrent, UsedReset
  <2>1. CASE links[l].owner = r.user
    BY <1>3, <1>5, <1>6, <2>1 DEF UsedReset
  <2>2. CASE links[l].owner # r.user
    BY <1>1, <1>5, <2>2 DEF SessionInvariant, PasswordsCurrent, LinksTypes, TablesOK
  <2>. QED
    BY <2>1, <2>2
<1>8. NoSessionOutlivesReset'
  BY <1>3 DEF SessionInvariant, NoSessionOutlivesReset
<1> HIDE DEF next
<1>9. requests'[s] = next /\ \A t \in Slots \ {s} : requests'[t] = requests[t]
  BY <1>1, <1>3 DEF Serve, LinksTypes, RequestsSound
<1>10. ASSUME NEW t \in Slots PROVE InTime(requests[t])'
  <2>1. CASE t = s
    BY <1>2, <1>3, <1>4, <1>5, <1>9, <2>1 DEF InTime
  <2>2. CASE t # s
    <3> DEFINE q == requests[t]
    <3>1. InTime(q) /\ requests'[t] = q
      BY <1>9, <2>2 DEF SessionInvariant
    <3>2. q.at = "revoke" => users'[q.user].password = q.link
      <4>1. q.at = "revoke" => q.user \in DOMAIN users
        BY <1>1, ServedKind DEF LinksTypes
      <4>. QED
        BY <1>5, <1>6, <3>1, <4>1 DEF InTime
    <3>. QED
      BY <1>3, <3>1, <3>2 DEF InTime, UsedReset
  <2>. QED
    BY <2>1, <2>2
<1>. QED
  BY <1>1, <1>7, <1>8, <1>10 DEF SessionInvariant

\* The link counts as used and the sessions go in one commit.
LEMMA RevokeSession ==
  ASSUME ResetAlone, SessionInvariant, NEW s \in Slots, Revoke(s)
  PROVE  SessionInvariant'
<1> DEFINE r == requests[s]
<1>1. LinksTypes /\ OneLinkInvariant("reset")'
  BY ServedOneLink DEF SessionInvariant, OneLinkInvariant, ResetAlone, Proceed
<1>2. /\ r.at = "revoke" /\ InTime(r) /\ UNCHANGED <<users, issued, proved>> /\ Serve(s, Idle)
  BY DEF Revoke, Pending, SessionInvariant
<1>3. r \in Resetting /\ r # Idle /\ r.op = "reset" /\ r.user \in DOMAIN users
  BY <1>1, <1>2, ServedKind DEF LinksTypes, Pending, Resetting, Idle
<1>4. /\ r.link \in DOMAIN links
      /\ links[r.link].purpose = "reset" /\ links[r.link].owner = r.user
      /\ users[r.user].password = r.link
  BY <1>2 DEF InTime
<1>5. /\ links' = [links EXCEPT ![r.link].used = TRUE]
      /\ sessions' = sessions \ Revoked(r.user)
  BY <1>4 DEF Revoke
<1>6. /\ DOMAIN links' = DOMAIN links
      /\ \A k \in DOMAIN links :
           /\ links'[k].owner = links[k].owner /\ links'[k].purpose = links[k].purpose
           /\ k # r.link => links'[k] = links[k]
  BY <1>1, <1>4, <1>5, UsedLink DEF LinksTypes
<1>7. r.link \in Nat
  BY <1>1, <1>4, LinksAssumption DEF LinksTypes, TablesOK
<1>8. \A l : UsedReset(l)' => l = r.link \/ UsedReset(l)
  BY <1>6 DEF UsedReset
<1>9. PasswordsCurrent'
  <2> SUFFICES ASSUME NEW l \in DOMAIN links', UsedReset(l)'
               PROVE  users'[links'[l].owner].password >= l
    BY DEF PasswordsCurrent
  <2>1. CASE l = r.link
    BY <1>2, <1>4, <1>6, <1>7, <2>1
  <2>2. CASE l # r.link
    BY <1>2, <1>6, <1>8, <2>2 DEF SessionInvariant, PasswordsCurrent
  <2>. QED
    BY <2>1, <2>2
<1>10. NoSessionOutlivesReset'
  <2> SUFFICES ASSUME NEW l \in DOMAIN links', links'[l].purpose = "reset", links'[l].used,
                      NEW x \in sessions', x.owner = links'[l].owner
               PROVE  x.password >= l
    BY DEF NoSessionOutlivesReset
  <2>1. x \in sessions /\ x.owner # r.user
    BY <1>5 DEF Revoked
  <2>2. l # r.link
    BY <1>4, <1>6, <2>1
  <2>. QED
    BY <1>6, <2>1, <2>2 DEF SessionInvariant, NoSessionOutlivesReset
<1>11. requests'[s] = Idle /\ \A t \in Slots \ {s} : requests'[t] = requests[t]
  BY <1>1, <1>2 DEF Serve, LinksTypes, RequestsSound
<1>12. ASSUME NEW t \in Slots PROVE InTime(requests[t])'
  <2>1. CASE t = s
    BY <1>11, <2>1 DEF InTime, Idle
  <2>2. CASE t # s
    <3> DEFINE q == requests[t]
    <3>1. InTime(q) /\ requests'[t] = q
      BY <1>11, <2>2 DEF SessionInvariant
    <3>2. q.at = "session" => q.user # r.user
      <4> SUFFICES ASSUME q.at = "session", q.user = r.user PROVE FALSE
        OBVIOUS
      <4>1. q \in LoggingIn /\ q # Idle /\ q.op = "login"
        BY <1>1, ServedKind DEF LinksTypes, Pending, LoggingIn, Idle
      <4>2. {r.op, q.op} \in Overlap
        BY <1>1, <1>3, <2>2, <4>1 DEF LinksTypes, RequestsSound
      <4>. QED
        BY <1>3, <4>1, <4>2 DEF ResetAlone
    <3>3. q.at = "session" => \A l \in DOMAIN links' :
            UsedReset(l)' /\ links'[l].owner = q.user => q.password >= l
      BY <1>4, <1>6, <1>8, <3>1, <3>2 DEF InTime, UsedReset
    <3>. QED
      BY <1>2, <1>6, <3>1, <3>3 DEF InTime
  <2>. QED
    BY <2>1, <2>2
<1>. QED
  BY <1>1, <1>9, <1>10, <1>12 DEF SessionInvariant

LEMMA OpenSessionSession ==
  ASSUME ResetAlone, SessionInvariant, NEW s \in Slots, OpenSession(s)
  PROVE  SessionInvariant'
<1> DEFINE r == requests[s]
           session == [owner |-> r.user, password |-> r.password]
<1>1. LinksTypes /\ OneLinkInvariant("reset")'
  BY ServedOneLink DEF SessionInvariant, OneLinkInvariant, ResetAlone, Proceed
<1>2. /\ r.at = "session" /\ InTime(r) /\ UNCHANGED <<users, links, issued, proved>>
      /\ Serve(s, Idle) /\ sessions' = sessions \cup {session}
  BY DEF OpenSession, Pending, SessionInvariant
<1>3. session.owner = r.user /\ session.password = r.password
  OBVIOUS
<1> HIDE DEF session
<1>4. NoSessionOutlivesReset'
  BY <1>2, <1>3 DEF SessionInvariant, NoSessionOutlivesReset, InTime, UsedReset
<1>5. requests'[s] = Idle /\ \A t \in Slots \ {s} : requests'[t] = requests[t]
  BY <1>1, <1>2 DEF Serve, LinksTypes, RequestsSound
<1>6. \A t \in Slots : InTime(requests[t])'
  BY <1>2, <1>5 DEF InTime, Idle, UsedReset, SessionInvariant
<1>7. PasswordsCurrent'
  BY <1>2 DEF SessionInvariant, PasswordsCurrent, UsedReset
<1>. QED
  BY <1>1, <1>4, <1>6, <1>7 DEF SessionInvariant

LEMMA InitSession == Init => SessionInvariant
<1> SUFFICES ASSUME Init PROVE SessionInvariant
  OBVIOUS
<1>1. OneLinkInvariant("reset")
  BY InitOneLink
<1>2. DOMAIN links = {} /\ \A s \in Slots : requests[s] = Idle
  BY DEF Init
<1>. QED
  BY <1>1, <1>2, IdleInTime DEF SessionInvariant, NoSessionOutlivesReset, PasswordsCurrent

LEMMA NextSession ==
  ASSUME ResetAlone, SessionInvariant, [Next]_vars
  PROVE  SessionInvariant'
<1>0. OneLinkInvariant("reset")' /\ LinksTypes
  BY NextOneLink DEF SessionInvariant, ResetAlone, OneLinkInvariant
<1>1. ASSUME NEW s \in Slots, Begin(s) PROVE SessionInvariant'
  BY <1>1, BeginSession
<1>2. ASSUME NEW s \in Slots, Proceed(s) PROVE SessionInvariant'
  BY <1>2, LookupSession, VerifySession, IssueSession, SetPasswordSession, RevokeSession,
     OpenSessionSession DEF Proceed
<1>3. ASSUME UNCHANGED <<users, requests>>, sessions' \subseteq sessions,
             DOMAIN links' = DOMAIN links,
             \A l \in DOMAIN links :
               /\ links'[l].owner = links[l].owner /\ links'[l].purpose = links[l].purpose
               /\ links'[l].used = links[l].used
      PROVE  SessionInvariant'
  <2>1. \A l : UsedReset(l)' <=> UsedReset(l)
    BY <1>3 DEF UsedReset
  <2>2. \A s \in Slots : InTime(requests[s])'
    BY <1>3, <2>1 DEF SessionInvariant, InTime
  <2>3. NoSessionOutlivesReset' /\ PasswordsCurrent'
    BY <1>3, <2>1 DEF SessionInvariant, NoSessionOutlivesReset, PasswordsCurrent
  <2>. QED
    BY <1>0, <2>2, <2>3 DEF SessionInvariant
<1>4. CASE Logout \/ UNCHANGED vars
  BY <1>3, <1>4 DEF Logout, vars
<1>5. ASSUME NEW l \in 1..MaxLinks, GrowOld(l) PROVE SessionInvariant'
  BY <1>0, <1>3, <1>5, GrowOldEffect
<1>6. CASE Restart
  <2>1. UNCHANGED tables /\ \A s \in Slots : requests'[s] = Idle
    BY <1>6 DEF Restart, tables
  <2>2. \A s \in Slots : InTime(requests[s])'
    BY <2>1 DEF InTime, Idle
  <2>. QED
    BY <1>0, <2>1, <2>2 DEF SessionInvariant, NoSessionOutlivesReset, PasswordsCurrent,
                            UsedReset, tables
<1>. QED
  BY <1>1, <1>2, <1>4, <1>5, <1>6 DEF Next

\* If no reset overlaps a login or a new reset link of its account, a used
\* reset link leaves no session opened with an earlier password, even if the
\* process stops between the two commits of a reset
\* (auth/password_reset.py:60-65).
THEOREM ResetSignsOut == ASSUME ResetAlone PROVE Spec => []NoSessionOutlivesReset
<1>1. SessionInvariant /\ [Next]_vars => SessionInvariant'
  BY NextSession
<1>2. SessionInvariant => NoSessionOutlivesReset
  BY DEF SessionInvariant
<1>. QED
  BY <1>1, <1>2, InitSession, PTL DEF Spec

=============================================================================
