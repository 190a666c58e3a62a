---------------------------- MODULE MailedLinks ----------------------------
(***************************************************************************)
(* Accounts, sessions and the links mailed to their addresses: one link    *)
(* verifies an address, another resets the password.  Every request is     *)
(* taken apart where it awaits the database, as in LaneRequests, and the   *)
(* process may stop between any two steps.                                 *)
(*                                                                         *)
(* A password is named by the link that set it, 0 being the one of the     *)
(* sign-up.  A link works from the moment it is stored: a mail that is     *)
(* late or lost is a link nobody opens.  Usernames, tokens and hashes are  *)
(* left out, and so are refusals that read nothing.                        *)
(***************************************************************************)
EXTENDS Naturals

CONSTANTS
  Accounts,
  Addresses,
  NoAddress,    \* email IS NULL
  MaxLinks,     \* bounds the links ever issued
  Slots,        \* bounds the requests in flight
  Overlap       \* the sets of operations one account may have in flight together

Operations ==
  {"signUp", "change", "resend", "confirm", "requestReset", "reset", "login"}

ASSUME LinksAssumption ==
  /\ NoAddress \notin Addresses
  /\ MaxLinks \in Nat
  /\ \A pair \in Overlap : pair \subseteq Operations

VARIABLES
  users,        \* the user table: account -> row
  links,        \* the email_token table: link -> row
  sessions,     \* the accesstoken table, with the password each was opened with
  issued,       \* how many links were ever stored
  requests,     \* Slot -> the request it serves
  proved        \* who opened a verification link sent to which address

vars == <<users, links, sessions, issued, requests, proved>>

Purposes == {"verification", "reset"}

\* A link is new for the cooldown, then old, and at last expired.
LinkRow ==
  [owner : Accounts, purpose : Purposes, email : Addresses, used : BOOLEAN,
   age : {"new", "old", "expired"}]

UserRow ==
  [email : Addresses \cup {NoAddress}, verified : BOOLEAN, password : 0..MaxLinks]

Session == [owner : Accounts, password : 0..MaxLinks]

Idle == [op |-> "idle", at |-> "idle"]

SignedIn(u) == \E s \in sessions : s.owner = u

LinksOf(u, purpose) ==
  {l \in DOMAIN links : links[l].owner = u /\ links[l].purpose = purpose}

\* Neither used nor expired.
Active(l) == ~links[l].used /\ links[l].age # "expired"

\* Only a verified address is taken.
Available(addr, u) ==
  \A v \in DOMAIN users \ {u} : ~(users[v].verified /\ users[v].email = addr)

\* The partial unique index on verified addresses.
Indexed(table) ==
  \A u, v \in DOMAIN table :
    table[u].verified /\ table[v].verified /\ table[u].email = table[v].email => u = v

----------------------------------------------------------------------------
\* Requests of different accounts always overlap.
Admit(s, u, op) ==
  /\ requests[s] = Idle
  /\ \A t \in Slots :
       requests[t] # Idle /\ requests[t].user = u => {op, requests[t].op} \in Overlap

Serve(s, request) == requests' = [requests EXCEPT ![s] = request]

Pending(s, at) == requests[s].at = at

\* The committed value of a column read as `seen` and set to `value`.
Column(seen, value, stored) == IF value = seen THEN stored ELSE value

----------------------------------------------------------------------------
(* Signing up and changing the address.                                    *)

SignUpBegin(s, u, addr) ==
  /\ Admit(s, u, "signUp")
  /\ u \notin DOMAIN users
  /\ addr # NoAddress => Available(addr, u)
  /\ Serve(s, [op |-> "signUp", at |-> "create", user |-> u, email |-> addr])
  /\ UNCHANGED <<users, links, sessions, issued, proved>>

\* Fault: the account is not committed before its address is stored.
Create_Uncommitted(s) ==
  /\ Pending(s, "create")
  /\ Serve(s, [op |-> "signUp", at |-> "address", user |-> requests[s].user,
               email |-> requests[s].email,
               seen |-> [email |-> NoAddress, verified |-> FALSE, password |-> 0]])
  /\ UNCHANGED <<users, links, sessions, issued, proved>>

\* The account is committed before its address is looked at again.
Create(s) ==
  LET r == requests[s]
      row == [email |-> NoAddress, verified |-> FALSE, password |-> 0]
  IN
  /\ Pending(s, "create")
  /\ IF r.user \in DOMAIN users
     THEN Serve(s, Idle) /\ UNCHANGED users
     ELSE /\ users' = [v \in DOMAIN users \cup {r.user} |->
                         IF v = r.user THEN row ELSE users[v]]
          /\ Serve(s, IF r.email = NoAddress THEN Idle
                      ELSE [op |-> "signUp", at |-> "address", user |-> r.user,
                            email |-> r.email, seen |-> row])
  /\ UNCHANGED <<links, sessions, issued, proved>>

ChangeBegin(s, u, addr) ==
  /\ Admit(s, u, "change")
  /\ SignedIn(u)
  /\ users[u].email # addr
  /\ Serve(s, [op |-> "change", at |-> "address", user |-> u, email |-> addr,
               seen |-> users[u]])
  /\ UNCHANGED <<users, links, sessions, issued, proved>>

CheckAddress(s) ==
  LET r == requests[s] IN
  /\ Pending(s, "address")
  /\ Serve(s, IF r.email = NoAddress \/ Available(r.email, r.user)
              THEN [r EXCEPT !.at = "write"] ELSE Idle)
  /\ UNCHANGED <<users, links, sessions, issued, proved>>

WriteAddress(s) ==
  LET r == requests[s]
      table == [users EXCEPT
                  ![r.user].email = r.email,
                  ![r.user].verified = Column(r.seen.verified, FALSE, @)]
  IN
  /\ Pending(s, "write")
  /\ IF Indexed(table)
     THEN /\ users' = table
          /\ Serve(s, IF r.email = NoAddress THEN Idle
                      ELSE [op |-> r.op, at |-> "cooldown", user |-> r.user,
                            email |-> r.email, purpose |-> "verification"])
     ELSE Serve(s, Idle) /\ UNCHANGED users
  /\ UNCHANGED <<links, sessions, issued, proved>>

----------------------------------------------------------------------------
(* Mailing a link.                                                         *)

ResendBegin(s, u) ==
  /\ Admit(s, u, "resend")
  /\ SignedIn(u)
  /\ users[u].email # NoAddress
  /\ ~users[u].verified
  /\ Serve(s, [op |-> "resend", at |-> "cooldown", user |-> u, email |-> users[u].email,
               purpose |-> "verification"])
  /\ UNCHANGED <<users, links, sessions, issued, proved>>

\* Fault: any account that gives this address may reset by it.
Recipients_Unverified(addr) == {u \in DOMAIN users : users[u].email = addr}

\* Whose password a link to this address may reset.
Recipients(addr) == {u \in DOMAIN users : users[u].email = addr /\ users[u].verified}

RequestResetBegin(s, addr) ==
  \E u \in Recipients(addr) :
    /\ Admit(s, u, "requestReset")
    /\ Serve(s, [op |-> "requestReset", at |-> "cooldown", user |-> u, email |-> addr,
                 purpose |-> "reset"])
    /\ UNCHANGED <<users, links, sessions, issued, proved>>

\* At most one link for each account and purpose within the cooldown.
Cooldown(s) ==
  LET r == requests[s] IN
  /\ Pending(s, "cooldown")
  /\ Serve(s, IF \E l \in LinksOf(r.user, r.purpose) : links[l].age = "new"
              THEN Idle ELSE [r EXCEPT !.at = "replace"])
  /\ UNCHANGED <<users, links, sessions, issued, proved>>

\* Fault: the links mailed before are left alone.
Replaced_None(u, purpose) == {}

\* The rows the DELETE finds.
Replaced(u, purpose) == LinksOf(u, purpose)

Replace(s) ==
  LET r == requests[s] IN
  /\ Pending(s, "replace")
  /\ Serve(s, [op |-> r.op, at |-> "issue", user |-> r.user, email |-> r.email,
               purpose |-> r.purpose, found |-> Replaced(r.user, r.purpose)])
  /\ UNCHANGED <<users, links, sessions, issued, proved>>

Issue(s) ==
  LET r == requests[s]
      new == issued + 1
  IN
  /\ Pending(s, "issue")
  /\ issued < MaxLinks
  /\ issued' = new
  /\ links' = [l \in (DOMAIN links \ r.found) \cup {new} |->
                 IF l = new
                 THEN [owner |-> r.user, purpose |-> r.purpose, email |-> r.email,
                       used |-> FALSE, age |-> "new"]
                 ELSE links[l]]
  /\ Serve(s, Idle)
  /\ UNCHANGED <<users, sessions, proved>>

----------------------------------------------------------------------------
(* Opening a link.                                                         *)

\* Fault: a link for a replaced address still counts.
Opens_AnyAddress(l, purpose) ==
  l \in DOMAIN links /\ links[l].purpose = purpose /\ Active(l)

\* The link is active and still goes to the address of its account.
Opens(l, purpose) ==
  /\ l \in DOMAIN links
  /\ links[l].purpose = purpose
  /\ Active(l)
  /\ users[links[l].owner].email = links[l].email

ConfirmBegin(s, l) ==
  /\ Opens(l, "verification")
  /\ Admit(s, links[l].owner, "confirm")
  /\ Serve(s, [op |-> "confirm", at |-> "available", user |-> links[l].owner, link |-> l,
               email |-> links[l].email, seen |-> users[links[l].owner]])
  /\ UNCHANGED <<users, links, sessions, issued, proved>>

ConfirmCheck(s) ==
  LET r == requests[s] IN
  /\ Pending(s, "available")
  /\ Serve(s, IF Available(r.email, r.user) THEN [r EXCEPT !.at = "verify"] ELSE Idle)
  /\ UNCHANGED <<users, links, sessions, issued, proved>>

\* Nothing is written if the index refuses, or if the link was deleted since.
Verify(s) ==
  LET r == requests[s]
      table == [users EXCEPT ![r.user].verified = Column(r.seen.verified, TRUE, @)]
  IN
  /\ Pending(s, "verify")
  /\ IF r.link \in DOMAIN links /\ Indexed(table)
     THEN /\ users' = table
          /\ links' = [links EXCEPT ![r.link].used = TRUE]
          /\ proved' = proved \cup {<<r.user, r.email>>}
     ELSE UNCHANGED <<users, links, proved>>
  /\ Serve(s, Idle)
  /\ UNCHANGED <<sessions, issued>>

ResetBegin(s, l) ==
  /\ Opens(l, "reset")
  /\ Admit(s, links[l].owner, "reset")
  /\ Serve(s, [op |-> "reset", at |-> "password", user |-> links[l].owner, link |-> l,
               email |-> links[l].email])
  /\ UNCHANGED <<users, links, sessions, issued, proved>>

\* set_password commits on its own.
SetPassword(s) ==
  LET r == requests[s] IN
  /\ Pending(s, "password")
  /\ users' = [users EXCEPT ![r.user].password = r.link]
  /\ Serve(s, [r EXCEPT !.at = "revoke"])
  /\ UNCHANGED <<links, sessions, issued, proved>>

\* Fault: the sessions are left alone.
Revoked_None(u) == {}

Revoked(u) == {x \in sessions : x.owner = u}

\* A link deleted meanwhile cannot be marked: the transaction fails.
Revoke(s) ==
  LET r == requests[s] IN
  /\ Pending(s, "revoke")
  /\ IF r.link \in DOMAIN links
     THEN /\ links' = [links EXCEPT ![r.link].used = TRUE]
          /\ sessions' = sessions \ Revoked(r.user)
     ELSE UNCHANGED <<links, sessions>>
  /\ Serve(s, Idle)
  /\ UNCHANGED <<users, issued, proved>>

----------------------------------------------------------------------------
(* Sessions.                                                               *)

\* The client gives the current password; hashing it takes its time.
LoginBegin(s, u) ==
  /\ Admit(s, u, "login")
  /\ u \in DOMAIN users
  /\ Serve(s, [op |-> "login", at |-> "session", user |-> u,
               password |-> users[u].password])
  /\ UNCHANGED <<users, links, sessions, issued, proved>>

OpenSession(s) ==
  LET r == requests[s] IN
  /\ Pending(s, "session")
  /\ sessions' = sessions \cup {[owner |-> r.user, password |-> r.password]}
  /\ Serve(s, Idle)
  /\ UNCHANGED <<users, links, issued, proved>>

Logout ==
  /\ \E x \in sessions : sessions' = sessions \ {x}
  /\ UNCHANGED <<users, links, issued, requests, proved>>

----------------------------------------------------------------------------
(* What the code does not control.                                         *)

\* Time passes for a link.
GrowOld(l) ==
  /\ l \in DOMAIN links
  /\ links[l].age # "expired"
  /\ links' = [links EXCEPT ![l].age = IF @ = "new" THEN "old" ELSE "expired"]
  /\ UNCHANGED <<users, sessions, issued, requests, proved>>

Restart ==
  /\ requests' = [s \in Slots |-> Idle]
  /\ UNCHANGED <<users, links, sessions, issued, proved>>

Init ==
  /\ users = [u \in {} |-> NoAddress]
  /\ links = [l \in {} |-> NoAddress]
  /\ sessions = {}
  /\ issued = 0
  /\ requests = [s \in Slots |-> Idle]
  /\ proved = {}

Begin(s) ==
  \/ \E u \in Accounts, addr \in Addresses \cup {NoAddress} :
       SignUpBegin(s, u, addr) \/ ChangeBegin(s, u, addr)
  \/ \E u \in Accounts : ResendBegin(s, u) \/ LoginBegin(s, u)
  \/ \E addr \in Addresses : RequestResetBegin(s, addr)
  \/ \E l \in 1..MaxLinks : ConfirmBegin(s, l) \/ ResetBegin(s, l)

Proceed(s) ==
  \/ Create(s) \/ CheckAddress(s) \/ WriteAddress(s)
  \/ Cooldown(s) \/ Replace(s) \/ Issue(s)
  \/ ConfirmCheck(s) \/ Verify(s)
  \/ SetPassword(s) \/ Revoke(s)
  \/ OpenSession(s)

Next ==
  \/ \E s \in Slots : Begin(s) \/ Proceed(s)
  \/ Logout
  \/ \E l \in 1..MaxLinks : GrowOld(l)
  \/ Restart

Spec == Init /\ [][Next]_vars

----------------------------------------------------------------------------
(* Correctness.                                                            *)

\* The tables hold rows of their type, a link belongs to an account, and a
\* request in flight remembers an account, and a link that was stored.
TypeOK ==
  /\ DOMAIN users \subseteq Accounts
  /\ users \in [DOMAIN users -> UserRow]
  /\ DOMAIN links \subseteq 1..issued
  /\ links \in [DOMAIN links -> LinkRow]
  /\ \A l \in DOMAIN links : links[l].owner \in DOMAIN users
  /\ sessions \subseteq Session
  /\ issued \in 0..MaxLinks
  /\ proved \subseteq Accounts \X Addresses
  /\ DOMAIN requests = Slots
  /\ \A s \in Slots :
       LET r == requests[s] IN
       r # Idle => /\ r.op \in Operations
                   /\ r.user \in Accounts
                   /\ r.at # "create" => r.user \in DOMAIN users
                   /\ r.op \in {"confirm", "reset"} => r.link \in 1..issued

\* An address is verified only by its holder: whoever is verified has opened a
\* link that was mailed to the very address the account now has.  "Setting or
\* changing the address leaves it unverified" (README.md:861).
VerifiedMeansProved ==
  \A u \in DOMAIN users : users[u].verified => <<u, users[u].email>> \in proved

\* "Only the newest link per purpose works" (README.md:869): an account never
\* has two links of one purpose that would open.
OneWorkingLink ==
  \A k, l \in DOMAIN links :
    ( /\ links[k].owner = links[l].owner
      /\ links[k].purpose = links[l].purpose
      /\ Active(k) /\ Active(l) ) => k = l

\* "Using it signs the account out everywhere" (README.md:868): once a reset link
\* counts as used, no session opened with an earlier password is left, whatever
\* stopped or was repeated on the way (auth/password_reset.py:60-65).
NoSessionOutlivesReset ==
  \A l \in DOMAIN links :
    links[l].purpose = "reset" /\ links[l].used =>
      \A x \in sessions : x.owner = links[l].owner => x.password >= l

\* No request changes a password but by a link that was mailed to an address its
\* account has proved to hold (auth/password_reset.py:31-43).  The operator's
\* command, which sets one without a link (cli.py:63), is not modelled.
ResetOnlyByHolder ==
  [][\A u \in DOMAIN users :
       users'[u].password # users[u].password =>
         \E s \in Slots :
           requests[s].at = "password" /\ requests[s].user = u
             /\ <<u, requests[s].email>> \in proved]_vars
=============================================================================
