------------------------------ MODULE HacsToken ------------------------------
(***************************************************************************)
(* hacs_token_set (hacs_token.py): replacing the GitHub token in HACS's    *)
(* config entry, with a way back.  HACS, its entry and whoever else        *)
(* changes that entry are external: hacs_token.py fixes what it may meet.  *)
(* A token is a member of Tokens, the rest of the entry's data a number.   *)
(***************************************************************************)
EXTENDS Naturals

CONSTANTS Tokens,       \* the tokens a command or the household may bring
          NoToken,      \* what the entry holds when it was never given one
          MaxSwaps,     \* bound: commands
          MaxMeddling   \* bound: what others do to the entry

ASSUME NoTokenAssumption == NoToken \notin Tokens

VARIABLES hacs,    \* HACS's config entry: there, its state, its data
          busy,    \* HACS's queue has pending tasks
          swap,    \* the command being carried out
          reply    \* the last answer

tokenVars == <<hacs, busy, swap, reply>>

States == {"not_loaded", "loaded", "setup_error", "setup_retry",
           "setup_in_progress", "failed_unload"}
Recoverable == {"not_loaded", "loaded", "setup_error", "setup_retry"}
Nothing == [token |-> NoToken, rest |-> 0]

(* What GitHub can answer to one request, and what that says of the token. *)
Answers == {"200", "401", "403", "403 limited", "404", "429", "500", "none"}
Classify(answer) ==
  CASE answer = "200" -> "verified"
    [] answer \in {"429", "500", "403 limited", "none"} -> "github_unreachable"
    [] OTHER -> "token_rejected"

Idle == [at |-> "idle", token |-> NoToken, previous |-> Nothing,
         back |-> FALSE, wrote |-> FALSE, verified |-> FALSE, meddled |-> FALSE]

TokenInit ==
  /\ hacs \in [there : BOOLEAN, state : {"loaded", "setup_error"},
               data : {[token |-> NoToken, rest |-> 0]}
                        \cup [token : Tokens, rest : {0}], changes : {0}]
  /\ busy = FALSE
  /\ swap = Idle
  /\ reply = [reason |-> "none", swaps |-> 0]

(* The answer to a command, and what a property says about the moment.     *)
Reply(reason) ==
  /\ reply' = [reason |-> reason, swaps |-> reply.swaps + 1]
  /\ swap' = [swap EXCEPT !.at = "idle"]

(* Everything up to the first await.                                       *)
HacsTokenSet(token, valid) ==
  /\ swap.at = "idle" /\ reply.swaps < MaxSwaps
  /\ LET asked == [Idle EXCEPT !.token = token, !.previous = hacs.data]
         answered(reason) ==
           /\ reply' = [reason |-> reason, swaps |-> reply.swaps + 1]
           /\ swap' = asked
     IN  \/ ~valid /\ answered("invalid_token")
         \/ valid /\ ~hacs.there /\ answered("no_hacs_entry")
         \/ valid /\ hacs.there /\ hacs.data.token = token /\ answered("unchanged")
         \/ /\ valid /\ hacs.there /\ hacs.data.token # token
            /\ swap' = [asked EXCEPT !.at = "verifying"]
            /\ UNCHANGED reply
  /\ UNCHANGED <<hacs, busy>>

(* The second half of _apply: write every key, then set HACS up.           *)
WriteAnd(now, s) ==
  /\ hacs' = [hacs EXCEPT !.state = now, !.data = IF s.back THEN s.previous
                            ELSE [s.previous EXCEPT !.token = s.token]]
  /\ swap' = [s EXCEPT !.at = "setting_up", !.wrote = TRUE, !.meddled = FALSE]
  /\ UNCHANGED reply

(* Why _apply may fail before it awaits anything: the entry is gone, in a  *)
(* state Home Assistant does not unload, or HACS refuses.                  *)
CannotApply(now) == ~hacs.there \/ now \notin Recoverable \/ (busy /\ now = "loaded")
AfterRefusal(now) == IF busy /\ now = "loaded" THEN "failed_unload" ELSE now

(* _apply from its start, HACS being in state "now" by then: what is not   *)
(* unloaded is unloaded first, and HACS refuses that while it is busy.     *)
Apply(now, s) ==
  \/ now = "not_loaded" /\ hacs.there /\ WriteAnd(now, s)
  \/ /\ now # "not_loaded" /\ ~CannotApply(now)
     /\ hacs' = [hacs EXCEPT !.state = now]
     /\ swap' = [s EXCEPT !.at = "unloading"]
     /\ UNCHANGED reply

(* _apply failed: the first time the previous data goes back the same way. *)
Failed(now) ==
  \/ /\ swap.back
     /\ hacs' = [hacs EXCEPT !.state = now]
     /\ Reply("reload_failed")
  \/ /\ ~swap.back
     /\ LET s == [swap EXCEPT !.back = TRUE]
        IN  \/ Apply(now, s)
            \/ /\ CannotApply(now)
               /\ hacs' = [hacs EXCEPT !.state = AfterRefusal(now)]
               /\ reply' = [reason |-> "reload_failed", swaps |-> reply.swaps + 1]
               /\ swap' = [s EXCEPT !.at = "idle"]

Loaded ==
  /\ hacs' = [hacs EXCEPT !.state = "loaded"]
  /\ Reply(IF swap.back THEN "rolled_back" ELSE "changed")

(* Mutant: an unreachable GitHub counts as an acceptance.                  *)
VerifiedHasty(answer) ==
  /\ swap.at = "verifying"
  /\ \/ Classify(answer) = "token_rejected" /\ Reply("token_rejected") /\ UNCHANGED hacs
     \/ /\ Classify(answer) # "token_rejected"
        /\ LET s == [swap EXCEPT !.verified = Classify(answer) = "verified"]
           IN  \/ hacs.state # "loaded" /\ Reply("hacs_not_loaded") /\ UNCHANGED hacs
               \/ hacs.state = "loaded" /\ busy /\ Reply("hacs_busy") /\ UNCHANGED hacs
               \/ hacs.state = "loaded" /\ ~busy /\ Apply("loaded", s)
  /\ UNCHANGED busy

(* GitHub has answered, and with no await since: HACS's state and queue    *)
(* are looked at, and the swap begins.                                     *)
Verified(answer) ==
  /\ swap.at = "verifying"
  /\ \/ Classify(answer) # "verified" /\ Reply(Classify(answer)) /\ UNCHANGED hacs
     \/ /\ Classify(answer) = "verified"
        /\ \/ hacs.state # "loaded" /\ Reply("hacs_not_loaded") /\ UNCHANGED hacs
           \/ hacs.state = "loaded" /\ busy /\ Reply("hacs_busy") /\ UNCHANGED hacs
           \/ /\ hacs.state = "loaded" /\ ~busy
              /\ Apply("loaded", [swap EXCEPT !.verified = TRUE])
  /\ UNCHANGED busy

(* The unload has returned or raised, and what follows it without an await.*)
Unloaded(now) ==
  /\ swap.at = "unloading"
  /\ \/ now = "not_loaded" /\ hacs.there /\ WriteAnd(now, swap)
     \/ (now # "not_loaded" \/ ~hacs.there) /\ Failed(now)
  /\ UNCHANGED busy

(* The setup has returned, or raised; _wait_loaded looks at once.          *)
SetUp(now) ==
  /\ swap.at = "setting_up"
  /\ hacs.there \/ now = "not_loaded"
  /\ \/ now = "loaded" /\ Loaded
     \/ now # "loaded" /\ Failed(now)
     \/ /\ now # "loaded"
        /\ hacs' = [hacs EXCEPT !.state = now]
        /\ swap' = [swap EXCEPT !.at = "waiting"]
        /\ UNCHANGED reply
  /\ UNCHANGED busy

(* _wait_loaded sees HACS loaded, or gives up after LOAD_TIMEOUT_S.        *)
WaitedLoaded ==
  /\ swap.at = "waiting"
  /\ hacs.state = "loaded"
  /\ Loaded
  /\ UNCHANGED busy

WaitRanOut ==
  /\ swap.at = "waiting"
  /\ hacs.state # "loaded"
  /\ Failed(hacs.state)
  /\ UNCHANGED busy

(* The agent's entry is unloaded while the command waits: its task is      *)
(* cancelled, which "except Exception" does not see.                       *)
TokenCut ==
  /\ swap.at # "idle"
  /\ swap' = [swap EXCEPT !.at = "idle"]
  /\ reply' = [reason |-> "cut", swaps |-> reply.swaps + 1]
  /\ UNCHANGED <<hacs, busy>>

-----------------------------------------------------------------------------
(* What others do: HACS's own queue, a retry that loads after all, and the *)
(* household, who may change the entry, reload it or remove it.            *)
Meddles(new) ==
  /\ hacs.there /\ hacs.changes < MaxMeddling
  /\ hacs' = [new EXCEPT !.changes = hacs.changes + 1]
  /\ swap' = [swap EXCEPT !.meddled = TRUE]
  /\ UNCHANGED <<busy, reply>>

OptionsChanged ==
  Meddles([hacs EXCEPT !.data.rest = hacs.changes + 1])
Reauthenticated(token) ==
  /\ hacs.state \in {"loaded", "setup_error"} /\ swap.at # "unloading"
  /\ Meddles([hacs EXCEPT !.data.token = token])
Reloaded ==
  /\ hacs.state = "loaded" /\ swap.at # "unloading"
  /\ \E now \in {"loaded", "setup_error", "setup_retry"} : Meddles([hacs EXCEPT !.state = now])
Removed ==
  Meddles([hacs EXCEPT !.there = FALSE, !.state = "not_loaded"])

LoadsLate ==
  /\ hacs.there /\ hacs.state \in {"setup_retry", "setup_in_progress"}
  /\ \E now \in {"loaded", "setup_error"} : hacs' = [hacs EXCEPT !.state = now]
  /\ UNCHANGED <<busy, swap, reply>>
QueueTurns ==
  /\ hacs.state = "loaded"
  /\ busy' = ~busy
  /\ UNCHANGED <<hacs, swap, reply>>

TokenNext ==
  \/ \E t \in Tokens, valid \in BOOLEAN : HacsTokenSet(t, valid)
  \/ \E a \in Answers : Verified(a)
  \/ \E now \in {"not_loaded", "loaded", "failed_unload"} : Unloaded(now)
  \/ \E now \in States \ {"failed_unload"} : SetUp(now)
  \/ WaitedLoaded \/ WaitRanOut \/ TokenCut
  \/ OptionsChanged \/ Reloaded \/ Removed \/ LoadsLate \/ QueueTurns
  \/ \E t \in Tokens : Reauthenticated(t)

-----------------------------------------------------------------------------
(* hacs_token.py:26-33.  The answer of a swap is what became of HACS: "ok" *)
(* with the new token loaded, "rolled_back" with everything as it was and  *)
(* loaded, and any refusal with nothing written; and no token that GitHub  *)
(* has not accepted is in the entry by a command, nor anything but the     *)
(* token changed from what the command read.  Only where nobody else       *)
(* changed the entry since the command wrote it; a command cut short by an *)
(* unload of the agent gives no answer.                                    *)
SwapTruthful ==
  /\ (swap.at = "idle" /\ ~swap.meddled) =>
       /\ reply.reason = "changed" =>
            hacs.state = "loaded" /\ hacs.data.token = swap.token
       /\ reply.reason = "rolled_back" =>
            hacs.state = "loaded" /\ hacs.data = swap.previous
       /\ reply.reason \notin {"changed", "rolled_back", "reload_failed", "cut"} => ~swap.wrote
  /\ swap.wrote /\ ~swap.meddled =>
       /\ hacs.data.token \in {swap.token, swap.previous.token}
       /\ hacs.data.token = swap.token => swap.verified
       /\ hacs.data.rest = swap.previous.rest
=============================================================================
