----------------------------- MODULE MCAccounts -----------------------------
(***************************************************************************)
(* Instances of Accounts for TLC.                                          *)
(***************************************************************************)
EXTENDS Accounts, TLC

CONSTANTS lower, upper, other, mailbox, otherbox

\* Two spellings of one mailbox and one of another.
Spellings == {lower, upper, other}
Mailboxes == {mailbox, otherbox}
Spelled   == (lower :> mailbox) @@ (upper :> mailbox) @@ (other :> otherbox)

\* A single mailbox, in two spellings or in one.
TwoSpellings == {lower, upper}
TwoSpelled   == (lower :> mailbox) @@ (upper :> mailbox)
OneSpelling  == {lower}
OneSpelled   == lower :> mailbox

\* Requests of one kind are interchangeable.
RequestSymmetry ==
    Permutations(Registrations) \cup Permutations(Logins) \cup Permutations(Profiles)

=============================================================================
