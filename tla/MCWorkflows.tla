----------------------------- MODULE MCWorkflows -----------------------------
(* One record with up to two definitions.  In Review a request asks for an  *)
(* approval, as often as one likes, and a release needs all of them; Direct *)
(* asks for a document, a role and whatever approvals there are.            *)
EXTENDS Workflows, TLC

CONSTANTS engineer, approver, name, sheet, approval, Approver, first

MCAccounts ==
  (engineer :> [may |-> {"view", "edit"}, roles |-> {}, admin |-> FALSE])
    @@ (approver :> [may |-> {"view", "release"}, roles |-> {Approver}, admin |-> FALSE])

MCTransition(key, from, to) ==
  [key |-> key, from |-> from, to |-> to, entry |-> "edit", permissions |-> {},
   roles |-> {}, fields |-> {}, documents |-> {}, tasks |-> {}, all_tasks |-> FALSE,
   templates |-> {}]

MCRequest == MCTransition("request", "draft", "draft")

MCRelease ==
  [MCTransition("release", "draft", "released") EXCEPT
     !.entry = "release", !.permissions = {"release"}]

Review ==
  [initial |-> "draft",
   transitions |->
     {[MCRequest EXCEPT !.fields = {name},
                        !.templates = {[key |-> approval, role |-> Approver, required |-> TRUE]}],
      [MCRelease EXCEPT !.tasks = {approval}]}]

Direct ==
  [initial |-> "draft",
   transitions |->
     {MCRequest,
      [MCRelease EXCEPT !.roles = {Approver}, !.documents = {sheet}, !.all_tasks = TRUE]}]

MCWorkflowSet == {Review, Direct}

MCAssign(d, w) == <<[definition |-> d, workflow |-> w]>>

MCConfigs == {MCAssign(first, Review), MCAssign(first, Direct)}

MCSymmetry == Permutations(Requests)
=============================================================================
