------------------------------ MODULE MCBooks ------------------------------
(* Three parts of the books and six services of the platform, which share  *)
(* no state, checked in one run: `part` says whether a behaviour is one of *)
(* the general ledger, of opening balances and closes, of the asset        *)
(* register, of access to the organisation, of signed-in sessions, of      *)
(* webhooks, of repeated requests, of the tax gateway or of connected      *)
(* accounts; the others stay in their initial state.                       *)
EXTENDS GeneralLedger, TLC
CONSTANTS u1, u2, d1

SomeUsers == {u1, u2}
Sym == Permutations(SomeUsers)
SomeDocs == {d1}
AllInMonthOne == [d \in SomeDocs |-> 1]

VARIABLES part, figure, opening, journal, takeWork, takes, takeLapses,
    asset, dep, cost, accum, drafts, keys, assetWork, assetRequests, assetLapses,
    request, link, member, invitation, accessWork, asked, accessKills, granted, unchecked, accessLapses,
    row, occurred, open, runWork, runs, changes, runKills, posts, accepted, runLapses,
    record, callWork, sends, done, callLapses,
    bill, filed, broker, filing, credited, triggers, faults, slips,
    connection, addon, sessions, accounts, hooks, delivery, connectWork, opened, connectRuns,
    wanted, told, connectLapses,
    owner, live, session, stored, verifier, blob, wrap, stash, refresh, waiting, resume, leaving, troubles,
    signedOut, tokenLapses

takeOn == <<figure, opening, journal, takeWork, takes, takeLapses>>
assets == <<asset, dep, cost, accum, drafts, keys, assetWork, assetRequests, assetLapses>>
books == <<vars, takeOn, assets>>
access == <<request, link, member, invitation, accessWork, asked, accessKills, granted, unchecked, accessLapses>>
outbox == <<row, occurred, open, runWork, runs, changes, runKills, posts, accepted, runLapses>>
replay == <<record, callWork, sends, done, callLapses>>
gateway == <<bill, filed, broker, filing, credited, triggers, faults, slips>>
connectors == <<connection, addon, sessions, accounts, hooks, delivery, connectWork, opened, connectRuns,
                wanted, told, connectLapses>>
tokens == <<owner, live, session, stored, verifier, blob, wrap, stash, refresh, waiting, resume, leaving,
            troubles, signedOut, tokenLapses>>
services == <<access, outbox, replay, gateway, connectors, tokens>>

\* An account, a customer and an item.
TakenOn == {-1, 1}
T == INSTANCE TakeOn WITH
        work <- takeWork, requests <- takes, lapses <- takeLapses,
        Dates <- {1}, Accounts <- {"a"}, Customers <- {"c"}, Suppliers <- {}, Items <- {"i"},
        Amounts <- TakenOn, MaxRequests <- 3

\* A van charged by the month and a machine charged by usage.
A == INSTANCE FixedAssets WITH
        work <- assetWork, requests <- assetRequests, lapses <- assetLapses,
        Assets <- {"van", "machine"}, Months <- {1, 2}, Costs <- {2, 4}, Residual <- 1, Charge <- 2,
        ByUsage <- {"machine"}, MaxRequests <- 4

\* A partner and a clerk for the one seat of the plan.
P == INSTANCE OrganisationAccess WITH
        work <- accessWork, requests <- asked, kills <- accessKills, lapses <- accessLapses,
        Workers <- SomeUsers, Partners <- {"partner"}, Staff <- {"clerk"}, Seats <- 1, MaxRequests <- 5, MaxKills <- 1

\* Two events, each tried twice at most.
W == INSTANCE WebhookOutbox WITH
        work <- runWork, kills <- runKills, lapses <- runLapses,
        Workers <- SomeUsers, Events <- {"sale", "payment"}, MaxAttempts <- 2, MaxRuns <- 3, MaxChanges <- 1, MaxKills <- 1

\* An invoice and a payment, sent up to five times.
R == INSTANCE RequestReplay WITH
        work <- callWork, lapses <- callLapses,
        Workers <- SomeUsers, Keys <- {"create", "pay"}, Creating <- {"create"}, MaxSends <- 5

\* An invoice to a firm and one to a consumer, each task retried once.
E == INSTANCE EInvoicing WITH
        inv <- bill, rows <- filed, jobs <- broker, worker <- filing, returned <- credited,
        Workers <- SomeUsers, Invoices <- {"trade", "till"}, Retail <- {"till"},
        MaxTries <- 1, MaxAttempts <- 2, MaxTriggers <- 2, MaxFaults <- 2

\* Slack and Telegram for the one connector of the plan, two sessions.
C == INSTANCE ConnectorLinks WITH
        row <- connection, work <- connectWork, runs <- connectRuns, posts <- told, lapses <- connectLapses,
        Workers <- SomeUsers, Granted <- {"slack"}, Coded <- {"telegram"}, Events <- {"sale"},
        MaxConnectors <- 1, MaxAttempts <- 2, MaxSessions <- 2, MaxRuns <- 3

\* One tab, in which two users sign in.
S == INSTANCE SessionTokens WITH
        lapses <- tokenLapses, Users <- SomeUsers, Tabs <- {"tab"}, MaxTokens <- 3, MaxTroubles <- 2

ASSUME PartAssumptions == T!TakeOnAssumption /\ A!AssetsAssumption

BooksInit ==
    /\ part \in {"ledger", "take-on", "assets", "access", "outbox", "replay", "gateway", "connectors", "tokens"}
    /\ Init /\ T!Init /\ A!Init /\ P!Init /\ W!Init /\ R!Init /\ E!Init /\ C!Init /\ S!Init

LedgerStep == part = "ledger" /\ Next /\ UNCHANGED <<part, takeOn, assets, services>>
TakeOnStep == part = "take-on" /\ T!Next /\ UNCHANGED <<part, vars, assets, services>>
AssetStep == part = "assets" /\ A!Next /\ UNCHANGED <<part, vars, takeOn, services>>
AccessStep == part = "access" /\ P!Next /\ UNCHANGED <<part, books, outbox, replay, gateway, connectors, tokens>>
OutboxStep == part = "outbox" /\ W!Next /\ UNCHANGED <<part, books, access, replay, gateway, connectors, tokens>>
ReplayStep == part = "replay" /\ R!Next /\ UNCHANGED <<part, books, access, outbox, gateway, connectors, tokens>>
GatewayStep == part = "gateway" /\ E!Next /\ UNCHANGED <<part, books, access, outbox, replay, connectors, tokens>>
ConnectorStep == part = "connectors" /\ C!Next /\ UNCHANGED <<part, books, access, outbox, replay, gateway, tokens>>
TokenStep == part = "tokens" /\ S!Next /\ UNCHANGED <<part, books, access, outbox, replay, gateway, connectors>>

BooksSpec ==
    BooksInit /\ [][\/ LedgerStep \/ TakeOnStep \/ AssetStep
                   \/ AccessStep \/ OutboxStep \/ ReplayStep \/ GatewayStep \/ ConnectorStep \/ TokenStep]_<<part, books, services>>

-----------------------------------------------------------------------------
\* The types of all parts, and the range of depreciation.
BooksTypeOK ==
    CASE part = "ledger" -> TypeOK
      [] part = "take-on" -> T!TypeOK
      [] part = "assets" -> A!TypeOK /\ A!DepreciatedWithinCost
      [] part = "access" -> P!TypeOK
      [] part = "outbox" -> W!TypeOK
      [] part = "replay" -> R!TypeOK
      [] part = "gateway" -> E!TypeOK
      [] part = "connectors" -> C!TypeOK
      [] part = "tokens" -> S!TypeOK

\* What opening entries in force post for a party is its figure, and one entry of a route,
\* one close of a year, is in force (TakeOn).
OpeningIsBooked == part = "take-on" => T!LedgerTiesToFigures /\ T!OneEntryInForce

\* The asset register ties to the ledger (FixedAssets).
RegisterTiesToLedger == part = "assets" => A!RegisterTiesToLedger

\* What is posted stays, and a locked month with it (GeneralLedger); a close moves the
\* result of the year, however often it was closed before (TakeOn).
HistoryStays == PostedEntriesStay /\ LockedMonthsStay /\ T!CloseMovesTheResult

\* Whoever is in the organisation was let in and not shut out since, a partner's records
\* agree, and the seats of the plan hold where they are checked (OrganisationAccess); the
\* accounts it connects are within the plan, and disconnected ones stay so (ConnectorLinks);
\* a session stays its user's, usable until it ends and unusable after (SessionTokens).
AccessAgrees ==
    /\ part = "access" => P!AccessIsGranted /\ P!LinksGiveAccess /\ P!SeatsWithinPlan
    /\ part = "connectors" => C!QuotaHolds /\ C!DisconnectedStays
    /\ part = "tokens" =>
          /\ S!NobodyIsStranded /\ S!TokensAreTheUsers /\ S!SessionsLive
          /\ S!BlobIsUsable /\ S!NoTokenLeftBehind

\* What is sent twice is done once: an event to a subscriber (WebhookOutbox) or to a
\* connected account (ConnectorLinks), a request under one key (RequestReplay), an invoice
\* to the tax authority, whose answer the invoice shows and whose tax is booked once
\* (EInvoicing).
SentTwiceDoneOnce ==
    /\ part = "outbox" => W!RowsAreTrue /\ W!SentOnce
    /\ part = "connectors" => C!ToldOnce
    /\ part = "replay" => R!DoneOnce
    /\ part = "gateway" => E!SentOnce /\ E!StatusIsTrue /\ E!TaxBookedOnce
=============================================================================
