----------------------------- MODULE Certificates -----------------------------
(***************************************************************************)
(* The server's certificate: what the console asks for                     *)
(* (backend/apps/core/platform/services/tls.py) and the one process that   *)
(* does it (provisioning/docker/certbot/entrypoint.sh).  They meet in      *)
(* files: one request, the two halves of an uploaded pair and the list of   *)
(* host names.  The outcome certbot reports is left out.                    *)
(*                                                                         *)
(* A pair is two files, each of which holds the half of some upload or,    *)
(* from Let's Encrypt, of "issued".  Whether Let's Encrypt issues is open. *)
(***************************************************************************)
EXTENDS Naturals

CONSTANTS
    Uploads,    \* people who upload a pair each, all different
    MaxAsks,    \* bound of the model: requests
    MaxFaults,  \* bound of the model: how often certbot is killed, or a person gives up
    None        \* no file

VARIABLES
    request,   \* cert-request.json: id (0 when there is none) and action
    incoming,  \* tls/incoming: the halves of an upload
    kept,      \* custom/: the halves of the uploaded pair that is kept
    live,      \* live/: the halves the services use
    mode,      \* tls-mode
    listed,    \* whether cert-hosts.txt is there
    applied,   \* whether its digest is the one last issued for
    handled,   \* the id of the request handled last
    doing,     \* what the certbot container does
    upload,    \* u -> how far an upload is
    faults,
    served,    \* history: the services had a whole pair
    spoiled    \* history: how they lost it since

tvars == <<request, incoming, kept, live, mode, listed, applied, handled, doing,
           upload, faults, served, spoiled>>

pairs == <<incoming, kept, live>>
certbot == <<mode, applied, handled, doing>>
history == <<served, spoiled>>

Actions == {"issue", "renew", "letsencrypt"}

NoPair == [cert |-> None, key |-> None]
Issued == [cert |-> "issued", key |-> "issued"]

\* Certificate and key are there and belong together.
Whole(pair) == pair.cert # None /\ pair.cert = pair.key

\* The services have a pair from here on.
Regained == served' = TRUE /\ spoiled' = {}

Resting == [pc |-> "idle", id |-> 0, action |-> "none", back |-> FALSE]

CertificatesInit ==
    /\ request = [id |-> 0, action |-> "none"]
    /\ incoming = NoPair /\ kept = NoPair /\ live = NoPair
    /\ mode = "letsencrypt" /\ listed = FALSE /\ applied = FALSE
    /\ handled = 0
    /\ doing = Resting
    /\ upload = [u \in Uploads |-> "none"]
    /\ faults = 0
    /\ served = FALSE /\ spoiled = {}

-----------------------------------------------------------------------------
(* The console.                                                            *)

\* request(): the request before it, if nobody has looked, is replaced.
Request(action) ==
    /\ request.id < MaxAsks
    /\ request' = [id |-> request.id + 1, action |-> action]

Ask(action) ==
    /\ Request(action)
    /\ UNCHANGED <<pairs, certbot, listed, upload, faults, history>>

\* The list of host names is published, or gains a name.
ListHosts ==
    /\ ~listed \/ applied
    /\ listed' = TRUE /\ applied' = FALSE
    /\ UNCHANGED <<request, pairs, mode, handled, doing, upload, faults, history>>

\* install_custom(): the halves of a pair that was checked, then the request.
PutCert(u) ==
    /\ upload[u] = "none"
    /\ incoming' = [incoming EXCEPT !.cert = u]
    /\ upload' = [upload EXCEPT ![u] = "key"]
    /\ UNCHANGED <<request, kept, live, certbot, listed, faults, history>>

PutKey(u) ==
    /\ upload[u] = "key"
    /\ incoming' = [incoming EXCEPT !.key = u]
    /\ upload' = [upload EXCEPT ![u] = "ask"]
    /\ UNCHANGED <<request, kept, live, certbot, listed, faults, history>>

AskCustom(u) ==
    /\ upload[u] = "ask"
    /\ Request("custom")
    /\ upload' = [upload EXCEPT ![u] = "done"]
    /\ UNCHANGED <<pairs, certbot, listed, faults, history>>

\* The process of an upload dies.
Abandon(u) ==
    /\ upload[u] \in {"key", "ask"}
    /\ faults < MaxFaults /\ faults' = faults + 1
    /\ upload' = [upload EXCEPT ![u] = "done"]
    /\ UNCHANGED <<request, pairs, certbot, listed, history>>

-----------------------------------------------------------------------------
(* certbot: a request.                                                     *)

Goto(pc) == doing' = [doing EXCEPT !.pc = pc]

At(pc) == doing.pc = pc /\ UNCHANGED <<request, listed, upload, faults>>

\* The id and the action are read from the file one after the other.
ReadId ==
    /\ At("idle")
    /\ request.id \notin {0, handled}
    /\ doing' = [Resting EXCEPT !.pc = "action", !.id = request.id]
    /\ UNCHANGED <<pairs, mode, applied, handled, history>>

\* What is asked for is begun, or refused as things are.
ReadAction ==
    LET action == request.action
        pc == CASE action = "custom" -> "test"
                [] action = "letsencrypt" -> "remove"
                [] action = "issue" /\ mode # "custom" /\ listed -> "forget"
                [] OTHER -> "report"
    IN  /\ At("action")
        /\ handled' = doing.id
        /\ doing' = [doing EXCEPT !.pc = pc, !.action = action]
        /\ UNCHANGED <<pairs, mode, applied, history>>

\* issue: the digest is removed, so that the list counts as new.
Forget ==
    /\ At("forget")
    /\ applied' = FALSE
    /\ Goto("sync")
    /\ UNCHANGED <<pairs, mode, handled, history>>

\* use_letsencrypt()
RemoveLive ==
    /\ At("remove")
    /\ live' = NoPair
    /\ Goto("mode")
    /\ UNCHANGED <<incoming, kept, mode, applied, handled, history>>

UseIssued ==
    /\ At("mode")
    /\ applied' = FALSE
    /\ mode' = "letsencrypt"
    /\ doing' = [doing EXCEPT !.pc = "sync", !.back = TRUE]
    /\ UNCHANGED <<pairs, handled, history>>

\* sync_hosts(): without a list, or with the list that was issued for, there is
\* nothing to do, which counts as done.
Sync ==
    /\ At("sync")
    /\ \/ /\ ~listed \/ applied
          /\ spoiled' = IF doing.back THEN spoiled \cup {"unlisted"} ELSE spoiled
          /\ Goto("report")
          /\ UNCHANGED <<pairs, applied, served>>
       \/ /\ listed /\ ~applied
          /\ live' = Issued /\ applied' = TRUE /\ Regained
          /\ Goto("report")
          /\ UNCHANGED <<incoming, kept>>
       \/ /\ listed /\ ~applied
          /\ Goto(IF doing.back THEN "test" ELSE "report")
          /\ UNCHANGED <<pairs, applied, history>>
    /\ UNCHANGED <<mode, handled>>

-----------------------------------------------------------------------------
(* certbot: install_custom(), for a request or to put the kept pair back.  *)

\* An upload that is complete is taken; otherwise what is kept has to do.
Test ==
    /\ At("test")
    /\ Goto(IF incoming.cert # None /\ incoming.key # None THEN "takeCert" ELSE "match")
    /\ UNCHANGED <<pairs, mode, applied, handled, history>>

TakeCert ==
    /\ At("takeCert")
    /\ kept' = [kept EXCEPT !.cert = incoming.cert]
    /\ incoming' = [incoming EXCEPT !.cert = None]
    /\ Goto("takeKey")
    /\ UNCHANGED <<live, mode, applied, handled, history>>

TakeKey ==
    /\ At("takeKey")
    /\ kept' = [kept EXCEPT !.key = incoming.key]
    /\ incoming' = [incoming EXCEPT !.key = None]
    /\ Goto("match")
    /\ UNCHANGED <<live, mode, applied, handled, history>>

\* Mutant of Fits: both halves are there, and nobody asks whether they match.
FitsMutant == kept.cert # None /\ kept.key # None

Fits == Whole(kept)

Match ==
    /\ At("match")
    /\ Goto(IF Fits THEN "clear" ELSE "report")
    /\ spoiled' = IF Fits \/ ~doing.back THEN spoiled
                  ELSE spoiled \cup {IF kept = NoPair THEN "nothing kept" ELSE "mixed"}
    /\ UNCHANGED <<pairs, mode, applied, handled, served>>

Clear ==
    /\ At("clear")
    /\ live' = NoPair
    /\ Goto("copyCert")
    /\ UNCHANGED <<incoming, kept, mode, applied, handled, history>>

CopyCert ==
    /\ At("copyCert")
    /\ live' = [live EXCEPT !.cert = kept.cert]
    /\ Goto("copyKey")
    /\ UNCHANGED <<incoming, kept, mode, applied, handled, history>>

CopyKey ==
    /\ At("copyKey")
    /\ live' = [live EXCEPT !.key = kept.key]
    /\ Regained
    /\ Goto("custom")
    /\ UNCHANGED <<incoming, kept, mode, applied, handled>>

UseCustom ==
    /\ At("custom")
    /\ mode' = "custom"
    /\ Goto("report")
    /\ UNCHANGED <<pairs, applied, handled, history>>

Report ==
    /\ At("report")
    /\ doing' = Resting
    /\ UNCHANGED <<pairs, mode, applied, handled, history>>

\* Between requests, unless an uploaded pair is in use: sync_hosts() when the list
\* has changed, which may fail and is tried again.
Issue ==
    /\ At("idle")
    /\ mode # "custom" /\ listed /\ ~applied
    /\ live' = Issued /\ applied' = TRUE /\ Regained
    /\ UNCHANGED <<incoming, kept, mode, handled, doing>>

\* The container is restarted, or made anew, when /tmp is empty: what was handled
\* and issued for is forgotten.
Kill ==
    /\ faults < MaxFaults /\ faults' = faults + 1
    /\ doing' = Resting
    /\ spoiled' = IF Whole(live) THEN spoiled ELSE spoiled \cup {"killed"}
    /\ \/ UNCHANGED <<handled, applied>>
       \/ handled' = 0 /\ applied' = FALSE
    /\ UNCHANGED <<request, pairs, mode, listed, upload, served>>

-----------------------------------------------------------------------------
Console ==
    \/ ListHosts
    \/ \E action \in Actions : Ask(action)
    \/ \E u \in Uploads : PutCert(u) \/ PutKey(u) \/ AskCustom(u) \/ Abandon(u)

Handling ==
    \/ ReadId \/ ReadAction \/ Forget \/ RemoveLive \/ UseIssued \/ Sync
    \/ Test \/ TakeCert \/ TakeKey \/ Match \/ Clear \/ CopyCert \/ CopyKey \/ UseCustom \/ Report

CertificatesNext == Console \/ Handling \/ Issue \/ Kill

CertificatesSpec == CertificatesInit /\ [][CertificatesNext]_tvars

-----------------------------------------------------------------------------
\* Once the services have had a certificate, they have one whenever certbot is at
\* rest, with the key that belongs to it: a switch to Let's Encrypt that fails puts
\* the uploaded pair back, however requests and uploads overtake one another.
\* There are four ways to lose it and no other: certbot is killed while it changes
\* it, the switch finds no list of host names, or what it wants to put back is not
\* there or made of two uploads.
StaysServed == doing.pc = "idle" /\ served => Whole(live) \/ spoiled # {}
=============================================================================
