--------------------------- MODULE MCMailedLinks ---------------------------
(* MailedLinks for two accounts that may claim the same addresses.          *)
EXTENDS MailedLinks, TLC

CONSTANTS u1, u2, a1, a2, s1, s2

Symmetry ==
  Permutations(Accounts) \cup Permutations(Addresses) \cup Permutations(Slots)

AnyOverlap == {{p, q} : p, q \in Operations}

\* Requests that write the address, and those that store a verification link.
Addressing == {"signUp", "change"}
Verifying == Addressing \cup {"resend"}

\* The overlaps that do harm: storing two links of one purpose, confirming an
\* address while it changes, and a reset next to a login or to a request
\* for another link, which deletes the one in use.
Harmful ==
  {{p, q} : p, q \in Verifying} \cup {{"requestReset"}}
    \cup {{p, "confirm"} : p \in Addressing}
    \cup {{"reset", "login"}, {"reset", "requestReset"}}

SafeOverlap == AnyOverlap \ Harmful
=============================================================================
