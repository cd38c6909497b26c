-------------------------- MODULE OrganisationAccess --------------------------
(***************************************************************************)
(* Who may enter an organisation (src/backend/apps/tenancy: invitations,   *)
(* sub-accounts, memberships, and partners, the accountants who ask for    *)
(* access or are invited to it).                                           *)
(*                                                                         *)
(* No view opens a transaction, so each save commits by itself: a request  *)
(* is the script of its writes, judged by what it read at the start.  The  *)
(* owner and superusers, who take no seat, are left out, and so are roles  *)
(* and module permissions, which no step here depends on.                  *)
(***************************************************************************)
EXTENDS Integers, Sequences, FiniteSets

CONSTANTS
    Workers,     \* the requests that can be under way
    Partners,    \* people with a partner profile
    Staff,
    Seats,       \* max_users of the plan
    MaxRequests, \* bound: requests in all
    MaxKills     \* bound: workers killed

People == Partners \cup Staff

VARIABLES
    request,    \* PartnerAccessRequest: status and token of each partner
    link,       \* PartnerClientLink of each partner
    member,     \* Membership of each person
    invitation, \* Invitation of each person
    work, requests, kills,
    granted,    \* history: whom the organisation has last let in, not shut out
    unchecked,  \* history: whose seat was taken with no look at the limit
    lapses      \* history: <<what happened, person>>

vars == <<request, link, member, invitation, work, requests, kills, granted, unchecked, lapses>>

None == [none |-> TRUE]
Nothing == [status |-> "none", token |-> "none"]

Init ==
    /\ request = [p \in Partners |-> Nothing] /\ link = [p \in Partners |-> "none"]
    /\ member = [x \in People |-> "none"] /\ invitation = [x \in People |-> "none"]
    /\ work = [w \in Workers |-> None] /\ requests = 0 /\ kills = 0
    /\ granted = {} /\ unchecked = {} /\ lapses = {}

Active == {x \in People : member[x] = "active"}
Lapse(cond, name, x) == IF cond THEN {<<name, x>>} ELSE {}

-----------------------------------------------------------------------------
(* What each request needs to find, and what it then writes.               *)

\* active_non_owner < max_members.
SeatFree == Cardinality(Active) < Seats

Asks == {"ask", "offer", "approve", "reject", "accept", "withdraw", "revoke", "remove", "add"}
Seatings == {"join", "account", "on", "off", "role"}

\* The guard of each view on the rows it reads.
Found(op, x) ==
    CASE op = "ask" -> request[x].status \notin {"pending", "approved"}
      [] op = "offer" -> request[x].status # "approved" \/ link[x] = "none"
      [] op \in {"approve", "reject"} -> request[x].status = "pending"
      [] op = "accept" -> request[x] = [status |-> "pending", token |-> "open"]
      [] op = "withdraw" -> request[x].status \notin {"none", "withdrawn"}
      [] op = "revoke" -> link[x] = "active"
      [] op = "remove" -> link[x] # "none"
      [] op = "add" -> member[x] = "active" /\ link[x] # "active"
      [] op = "join" -> invitation[x] = "sent"
      [] op = "account" -> member[x] = "none" /\ SeatFree
      [] op = "on" -> member[x] = "active" \/ (member[x] = "inactive" /\ SeatFree)
      [] op \in {"off", "role"} -> member[x] # "none"

Revocation_leaves_member == <<"unlink", "close">>
Revocation == <<"unlink", "unseat", "close">>
Script(op) ==
    CASE op \in {"approve", "accept"} -> <<op, "link", "seat">>
      [] op = "withdraw" -> <<op, "unlink", "unseat">>
      [] op = "revoke" -> Revocation
      [] op = "remove" -> <<"unlink", "unseat">>
      [] op = "add" -> <<"link", "seat">>
      [] op = "join" -> <<"join", "consume">>
      [] OTHER -> <<op>>

Begin(w, op, x) ==
    /\ work[w] = None /\ requests < MaxRequests /\ requests' = requests + 1
    /\ op \in Asks => x \in Partners
    /\ op = "account" => x \in Staff      \* it makes a user of its own
    /\ Found(op, x)
    /\ work' = [work EXCEPT ![w] =
          [op |-> op, person |-> x, left |-> Script(op), was |-> member[x],
           saw |-> IF x \in Partners THEN request[x] ELSE Nothing, late |-> FALSE]]
    /\ UNCHANGED <<request, link, member, invitation, kills, granted, unchecked, lapses>>

\* invite: an invitation takes no seat, and expires or is declined.
Invite(x) ==
    /\ requests < MaxRequests /\ requests' = requests + 1
    /\ invitation[x] # "sent" /\ SeatFree
    /\ invitation' = [invitation EXCEPT ![x] = "sent"] /\ granted' = granted \cup {x}
    /\ UNCHANGED <<request, link, member, work, kills, unchecked, lapses>>

Decline(x) ==
    /\ invitation[x] = "sent" /\ invitation' = [invitation EXCEPT ![x] = "closed"]
    /\ UNCHANGED <<request, link, member, work, requests, kills, granted, unchecked, lapses>>

-----------------------------------------------------------------------------
(* The writes.                                                             *)

Does(w, write) == work[w] # None /\ Head(work[w].left) = write
After(w) == [work EXCEPT ![w] = IF Tail(@.left) = <<>> THEN None ELSE [@ EXCEPT !.left = Tail(@)]]
Goes(w) == work' = After(w)

\* A seat is taken: the others that have looked at the seats looked too early.
Looking(v) == work[v] # None /\ work[v].op \in {"account", "on"}
Seated(w) ==
    work' = [v \in Workers |-> IF v # w /\ Looking(v) THEN [work[v] EXCEPT !.late = TRUE] ELSE After(w)[v]]

\* A token or an invitation that is still good when the organisation refuses the person.
Outlives(x) ==
    Lapse(x \in Partners /\ request[x].token = "open", "token outlives refusal", x)
    \cup Lapse(invitation[x] = "sent", "invitation outlives refusal", x)

\* A request for the person that has still to let him in, or to put him out.
Pending(w, x, writes) ==
    \E v \in Workers \ {w} : work[v] # None /\ work[v].person = x /\ Head(work[v].left) \in writes

\* A status saved over a row that is no longer the one read.
Blind(w, x) == Lapse(request[x] # work[w].saw, "overwritten", x)

Ask(w) ==
    /\ Does(w, "ask")
    /\ LET x == work[w].person
       IN request' = [request EXCEPT ![x].status = "pending"] /\ lapses' = lapses \cup Blind(w, x)
    /\ Goes(w)
    /\ UNCHANGED <<link, member, invitation, requests, kills, granted, unchecked>>

\* generate_partner_invite: a new token in place of the last.
Offer(w) ==
    /\ Does(w, "offer")
    /\ LET x == work[w].person
       IN /\ request' = [request EXCEPT ![x] = [status |-> "pending", token |-> "open"]]
          /\ granted' = granted \cup {x} /\ lapses' = lapses \cup Blind(w, x)
    /\ Goes(w)
    /\ UNCHANGED <<link, member, invitation, requests, kills, unchecked>>

Approve(w) ==
    /\ Does(w, "approve")
    /\ LET x == work[w].person
       IN /\ request' = [request EXCEPT ![x].status = "approved"]
          /\ granted' = granted \cup {x} /\ lapses' = lapses \cup Blind(w, x)
    /\ Goes(w)
    /\ UNCHANGED <<link, member, invitation, requests, kills, unchecked>>

Accept(w) ==
    /\ Does(w, "accept")
    /\ LET x == work[w].person
       IN /\ request' = [request EXCEPT ![x] = [status |-> "approved", token |-> "used"]]
          /\ lapses' = lapses \cup Blind(w, x)
    /\ Goes(w)
    /\ UNCHANGED <<link, member, invitation, requests, kills, granted, unchecked>>

Reject(w) ==
    /\ Does(w, "reject")
    /\ LET x == work[w].person
       IN /\ request' = [request EXCEPT ![x].status = "rejected"]
          /\ granted' = IF member[x] = "active" THEN granted ELSE granted \ {x}   \* it expels nobody
          /\ lapses' = lapses \cup Blind(w, x) \cup Outlives(x)
    /\ Goes(w)
    /\ UNCHANGED <<link, member, invitation, requests, kills, unchecked>>

\* The link and the membership are taken back if the request read was approved, or the
\* link is there.
Withdraw(w) ==
    /\ Does(w, "withdraw")
    /\ LET x == work[w].person
       IN /\ request' = [request EXCEPT ![x].status = "withdrawn"]
          /\ lapses' = lapses \cup Blind(w, x)
          /\ IF work[w].saw.status = "approved" \/ link[x] = "active" THEN Goes(w) ELSE work' = [work EXCEPT ![w] = None]
    /\ UNCHANGED <<link, member, invitation, requests, kills, granted, unchecked>>

Close(w) ==
    /\ Does(w, "close")
    /\ LET x == work[w].person
       IN request' = [request EXCEPT ![x].status = IF @ = "approved" THEN "withdrawn" ELSE @]
    /\ Goes(w)
    /\ UNCHANGED <<link, member, invitation, requests, kills, granted, unchecked, lapses>>

Link(w) ==
    /\ Does(w, "link") /\ link' = [link EXCEPT ![work[w].person] = "active"] /\ Goes(w)
    /\ lapses' = lapses \cup Lapse(work[w].op # "add" /\ request[work[w].person].status # "approved", "crossed", work[w].person)
    /\ UNCHANGED <<request, member, invitation, requests, kills, granted, unchecked>>

Unlink(w) ==
    /\ Does(w, "unlink")
    /\ LET x == work[w].person
       IN /\ link' = [link EXCEPT ![x] = IF @ = "none" THEN @ ELSE "inactive"]
          /\ granted' = IF work[w].op = "revoke" THEN granted \ {x} ELSE granted
          /\ lapses' = lapses \cup IF work[w].op = "revoke" THEN Outlives(x) ELSE {}
    /\ Goes(w)
    /\ UNCHANGED <<request, member, invitation, requests, kills, unchecked>>

\* _provision_partner_membership: no look at the seats.
Provision(w) ==
    /\ Does(w, "seat")
    /\ LET x == work[w].person
       IN /\ member' = [member EXCEPT ![x] = "active"]
          /\ unchecked' = IF member[x] = "active" THEN unchecked ELSE unchecked \cup {x}
          /\ lapses' = lapses \cup Lapse(link[x] # "active", "crossed", x)
    /\ Seated(w)
    /\ UNCHANGED <<request, link, invitation, requests, kills, granted>>

\* _revoke_membership: an UPDATE of the rows as they are.
Unseat(w) ==
    /\ Does(w, "unseat")
    /\ LET x == work[w].person
       IN /\ member' = [member EXCEPT ![x] = IF @ = "none" THEN @ ELSE "inactive"]
          /\ lapses' = lapses \cup Lapse(link[x] = "active" \/ Pending(w, x, {"link", "seat"}), "crossed", x)
    /\ Goes(w)
    /\ UNCHANGED <<request, link, invitation, requests, kills, granted, unchecked>>

\* accept_invitation: get_or_create, or a save of the whole row, then the invitation.
Join(w) ==
    /\ Does(w, "join")
    /\ LET x == work[w].person
       IN /\ member' = [member EXCEPT ![x] = "active"]
          /\ unchecked' = IF member[x] = "active" THEN unchecked ELSE unchecked \cup {x}
          /\ lapses' = lapses \cup Lapse(invitation[x] # "sent", "joined late", x)
    /\ Seated(w)
    /\ UNCHANGED <<request, link, invitation, requests, kills, granted>>

Consume(w) ==
    /\ Does(w, "consume") /\ invitation' = [invitation EXCEPT ![work[w].person] = "closed"] /\ Goes(w)
    /\ UNCHANGED <<request, link, member, requests, kills, granted, unchecked, lapses>>

\* create_subaccount and MembershipViewSet.partial_update save what they judged; a PATCH of
\* the role saves the flag it read along with it.
Flag(op, was) ==
    CASE op \in {"account", "on"} -> "active" [] op = "off" -> "inactive" [] op = "role" -> was
Save(w) ==
    /\ work[w] # None /\ work[w].op \in {"account", "on", "off", "role"}
    /\ LET x == work[w].person
           flag == Flag(work[w].op, work[w].was)
           turned == flag = "active" /\ member[x] # "active"
       IN /\ member' = [member EXCEPT ![x] = flag]
          /\ granted' = CASE work[w].op \in {"account", "on"} -> granted \cup {x}
                          [] work[w].op = "off" -> granted \ {x}
                          [] OTHER -> granted
          /\ unchecked' = IF ~turned THEN unchecked
                          ELSE IF work[w].op = "role" \/ work[w].was = "active" THEN unchecked \cup {x} ELSE unchecked \ {x}
          /\ lapses' = lapses
                \cup Lapse(work[w].op = "role" /\ member[x] # work[w].was, "flag saved blindly", x)
                \cup Lapse(work[w].late /\ turned, "seats raced", x)
                \cup IF work[w].op = "off" THEN Outlives(x) \cup Lapse(x \in Partners, "switched off", x)
                              \cup Lapse(Pending(w, x, {"link", "seat"}), "crossed", x)
                     ELSE {}
    /\ Seated(w)
    /\ UNCHANGED <<request, link, invitation, requests, kills>>

Kill(w) ==
    /\ work[w] # None /\ kills < MaxKills /\ kills' = kills + 1
    /\ lapses' = lapses \cup Lapse(work[w].left # Script(work[w].op), "cut short", work[w].person)
    /\ work' = [work EXCEPT ![w] = None]
    /\ UNCHANGED <<request, link, member, invitation, requests, granted, unchecked>>

-----------------------------------------------------------------------------
Next ==
    \/ \E w \in Workers, op \in Asks \cup Seatings, x \in People : Begin(w, op, x)
    \/ \E x \in People : Invite(x) \/ Decline(x)
    \/ \E w \in Workers :
          \/ Ask(w) \/ Offer(w) \/ Approve(w) \/ Accept(w) \/ Reject(w) \/ Withdraw(w) \/ Close(w)
          \/ Link(w) \/ Unlink(w) \/ Provision(w) \/ Unseat(w)
          \/ Join(w) \/ Consume(w) \/ Save(w) \/ Kill(w)

Spec == Init /\ [][Next]_vars

-----------------------------------------------------------------------------
TypeOK ==
    /\ request \in [Partners -> [status : {"none", "pending", "approved", "rejected", "withdrawn"},
                                 token : {"none", "open", "used"}]]
    /\ link \in [Partners -> {"none", "active", "inactive"}]
    /\ member \in [People -> {"none", "active", "inactive"}]
    /\ invitation \in [People -> {"none", "sent", "closed"}]
    /\ granted \subseteq People /\ unchecked \subseteq People

Quiet(x) == \A w \in Workers : work[w] # None => work[w].person # x
Clear(x, names) == \A name \in names : <<name, x>> \notin lapses

\* Whoever is in has been let in by the organisation and not shut out since: asking again,
\* withdrawing, being added and being invited never open what an owner has closed.  The
\* exceptions are a token or an invitation that was still good when the person was refused,
\* and decisions that crossed each other or were cut short.
AccessIsGranted ==
    \A x \in Active : Quiet(x) /\ Clear(x, {"token outlives refusal", "invitation outlives refusal", "overwritten",
                                            "crossed", "flag saved blindly", "joined late", "cut short"})
                      => x \in granted

\* The three records of a partner's access agree when nothing is under way: an active link
\* comes with an active membership, and an approved request with a link.
LinksGiveAccess ==
    \A p \in Partners : Quiet(p) /\ Clear(p, {"overwritten", "crossed", "flag saved blindly", "switched off", "cut short"})
        => /\ link[p] = "active" => member[p] = "active"
           /\ request[p].status = "approved" => link[p] # "none"

\* The plan's seats hold for all whose seat was checked: however the team is built up,
\* those beyond the limit came in by invitation or as partners, which nothing checks.
SeatsWithinPlan ==
    (\A x \in People : <<"seats raced", x>> \notin lapses) => Cardinality(Active \ unchecked) <= Seats

=============================================================================
