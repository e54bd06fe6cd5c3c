----------------------------- MODULE MCAccounts -----------------------------
(* What a person of a class has: the role, sessions, addresses and tool links, *)
(* the mail, the conversations with the assistant and the exports.  They share *)
(* no state, so that one run checks them side by side: a behaviour is one of   *)
(* the component that "part" names, and the others rest in their initial       *)
(* states.                                                                     *)
EXTENDS Members, Sessions, Emails, ToolLinks, MailQueue, Assistant, Exports, TLC

CONSTANTS c1, c2, u1, u2, u3

VARIABLE part          \* the component that this behaviour is one of

MCTxs == {c1, c2}
MCPeople == {u1, u2, u3}
MCType == (1 :> "dispatch.done") @@ (2 :> "appeal.assigned")
MCItem == (1 :> "batch") @@ (2 :> "appeal")
MCSymmetry == Permutations(MCTxs)

accountVars == <<sessVars, emailVars, toolVars, mailVars>>
serviceVars == <<assistVars, exportVars>>
allVars == <<part, memberVars, accountVars, serviceVars>>

MCInit ==
  /\ part \in {"members", "sessions", "emails", "tools", "mail", "assistant", "exports"}
  /\ MemberInit /\ SessInit /\ EmailInit /\ ToolInit /\ MailInit
  /\ AssistInit /\ ExportInit
  /\ ActiveAdmins = {u1, u2}          \* without loss of generality: people have no names
  /\ part # "members" => member[u3] = NewRow
  /\ part # "mail" => mode = "immediate" /\ channel = "ses"

\* Three tokens and one change of the account, or two of each
SessionBound == edits < 2 \/ famOf[3] = NoFamily

AccountNext ==
  \/ part = "sessions" /\ SessNext /\ SessionBound' /\ UNCHANGED <<emailVars, toolVars, mailVars>>
  \/ part = "emails" /\ EmailNext /\ UNCHANGED <<sessVars, toolVars, mailVars>>
  \/ part = "tools" /\ ToolNext /\ UNCHANGED <<sessVars, emailVars, mailVars>>
  \/ part = "mail" /\ MailNext /\ UNCHANGED <<sessVars, emailVars, toolVars>>

ServiceNext ==
  \/ part = "assistant" /\ AssistNext /\ UNCHANGED exportVars
  \/ part = "exports" /\ ExportNext /\ UNCHANGED assistVars

MCNext ==
  \/ part = "members" /\ MemberNext /\ UNCHANGED <<part, accountVars, serviceVars>>
  \/ AccountNext /\ UNCHANGED <<part, memberVars, serviceVars>>
  \/ ServiceNext /\ UNCHANGED <<part, memberVars, accountVars>>

MCSpec == MCInit /\ [][MCNext]_allVars
=============================================================================
