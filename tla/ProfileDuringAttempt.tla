------------------------- MODULE ProfileDuringAttempt -------------------------
(***************************************************************************)
(* One authentication attempt of the daemon while the helpers run: what it *)
(* reads of the policy, the key and the profile, in the order in which     *)
(* dispatch_request_until_with_client and its worker read them             *)
(* (src/engine/daemon/src/lib.rs).  Threads, sockets and deadlines are in  *)
(* AuthDaemon; here an attempt may stop at any point for such a reason.    *)
(***************************************************************************)
EXTENDS SystemProfileSync

VARIABLES
    at,        \* program point of the attempt
    who,       \* the user and target it is about
    snap,      \* identity of the policy file held open since the start
    attKey,    \* the key the worker loaded
    matched,   \* the profile the frame was compared with
    began      \* profile and key when the attempt began (history)

attemptVars == <<at, who, snap, attKey, matched, began>>
allVars == <<vars, attemptVars>>

AttemptInit ==
    /\ Init
    /\ at = "none" /\ who = None /\ snap = 0 /\ attKey = None
    /\ matched = None /\ began = None

(* The attempt is answered without a grant. *)
AttemptEnds(answer) ==
    /\ at' = answer
    /\ who' = None /\ snap' = 0 /\ attKey' = None /\ matched' = None /\ began' = None

(* The daemon opens the policy and finds the target enabled. *)
AttemptBegin ==
    /\ at \in {"none", "noprofile", "granted"}
    /\ \E e \in policy :
          /\ at' = "key" /\ who' = e /\ snap' = policyId
          /\ began' = [profile |-> profile[e[1]], key |-> key[e[1]]]
    /\ attKey' = None /\ matched' = None
    /\ UNCHANGED vars

(* The worker reads the policy for itself, then the user's key. *)
AttemptKey ==
    /\ at = "key"
    /\ \/ /\ who \in policy /\ key[who[1]] # None
          /\ attKey' = key[who[1]] /\ at' = "status"
          /\ UNCHANGED <<who, snap, matched, began>>
       \/ who \in policy /\ key[who[1]] = None /\ AttemptEnds("noprofile")
       \/ who \notin policy /\ AttemptEnds("none")
    /\ UNCHANGED vars

(* vault.status opens the profile before the camera is used. *)
AttemptStatus ==
    /\ at = "status"
    /\ IF Opens(who[1], attKey)
       THEN at' = "match" /\ UNCHANGED <<who, snap, attKey, matched, began>>
       ELSE AttemptEnds("noprofile")
    /\ UNCHANGED vars

(* verify_frame_against_vault opens it again and compares the frame.       *)
AttemptMatch ==
    /\ at = "match"
    /\ IF Opens(who[1], attKey)
       THEN /\ matched' = profile[who[1]] /\ at' = "recheck"
            /\ UNCHANGED <<who, snap, attKey, began>>
       ELSE AttemptEnds("noprofile")
    /\ UNCHANGED vars

(* Mutant: the policy is compared by contents. *)
AttemptRecheckContents ==
    /\ at = "recheck"
    /\ IF who \in policy
       THEN at' = "granted" /\ UNCHANGED <<who, snap, attKey, matched, began>>
       ELSE AttemptEnds("none")
    /\ UNCHANGED vars

(* After a match the daemon opens the policy again: it must be the file it *)
(* has held open since the start.                                          *)
AttemptRecheck ==
    /\ at = "recheck"
    /\ IF policyId = snap
       THEN at' = "granted" /\ UNCHANGED <<who, snap, attKey, matched, began>>
       ELSE AttemptEnds("none")
    /\ UNCHANGED vars

(* No match, a timeout, a client that goes away. *)
AttemptStops ==
    /\ at \in {"key", "status", "match", "recheck"}
    /\ AttemptEnds("none")
    /\ UNCHANGED vars

AttemptNext ==
    \/ AttemptBegin \/ AttemptKey \/ AttemptStatus \/ AttemptMatch \/ AttemptRecheck
    \/ AttemptStops

HelpersNext == Next /\ UNCHANGED attemptVars

AttemptSpec == AttemptInit /\ [][HelpersNext \/ AttemptNext]_allVars

-----------------------------------------------------------------------------
(* A grant rests on one profile: the one the frame was compared with was   *)
(* installed, with its key, when the attempt began and still is when the   *)
(* daemon grants, and the target is enabled.                               *)
GrantByInstalledProfile ==
    at' = "granted" /\ at # "granted" =>
       /\ who \in policy
       /\ matched = began.profile /\ matched = profile[who[1]]
       /\ attKey = began.key /\ attKey = key[who[1]]

(* An attempt finds no usable profile only if the policy was replaced      *)
(* while it ran: a swap is never visible under the policy it started with. *)
NoProfileOnlyIfReplaced ==
    at' = "noprofile" /\ at # "noprofile" => policyId # snap

(* Every step of an attempt keeps to both rules, whatever the helpers do. *)
AttemptSeesOneProfile == [][GrantByInstalledProfile /\ NoProfileOnlyIfReplaced]_allVars
====
