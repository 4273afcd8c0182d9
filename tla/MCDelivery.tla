---------------------------- MODULE MCDelivery ----------------------------
(* Small instances of Delivery for TLC. *)
EXTENDS Delivery, TLC

CONSTANTS p1, p2, p3, q1, q2, alice, bob

\* Two versions of the proposal for one prospect.
OneProspect == [p \in Proposals |-> q1]
\* Limits of one: the second delivery of a day is refused.
LimitOne == [q \in Prospects |-> 1]

\* The bodies update_prospect receives: one column, or two in one request.
ContactUpdates ==
  { [email |-> bob], [email |-> bob, verified |-> TRUE], [email |-> None],
    [verified |-> FALSE], [do_not_contact |-> TRUE], [do_not_contact |-> FALSE] }
EmailUpdate == {[email |-> bob]}
NoUpdates == {}

\* The bodies deliver_proposal receives.
Send(provider) == [provider |-> provider, test |-> FALSE]
Test(provider) == [provider |-> provider, test |-> TRUE]
ResendBodies   == {Send("resend"), Send("mock"), Send("smtp_generic"), Test("resend"), Test("mock")}
ResendOnly     == {Send("resend")}
SmtpOnly       == {Send("smtp_generic")}
QueueOrSmtp    == {Send("queue"), Send("smtp_generic")}
AllBodies      == {Send("queue"), Send("smtp_generic"), Send("resend")}
=============================================================================
