----------------------------- MODULE UserLookups -----------------------------
(***************************************************************************)
(* The accounts that the pickers of the screens offer (lookup_users,       *)
(* apps/accounts), by scope and by the text that was typed.                *)
(***************************************************************************)
EXTENDS Permissions

CONSTANTS
  AdminRoles,  \* roles with "system admin" or "configuration admin" in their name
  MatchesOf,   \* the accounts whose names contain each text
  LookupLimit  \* 50 in views.py

ASSUME LookupAssumption ==
  /\ {SystemAdmin, ConfigurationAdmin} \subseteq AdminRoles /\ AdminRoles \subseteq Roles
  /\ None \notin DOMAIN MatchesOf
  /\ LookupLimit \in Nat \ {0}

Scopes == {"manager", "admin", "any"}

InScope(u, scope) ==
  CASE scope = "manager" -> users[u].superuser \/ users[u].roles \cap ManagerRoles # {}
    [] scope = "admin" -> users[u].superuser \/ users[u].roles \cap AdminRoles # {}
    [] scope = "any" -> TRUE

\* The slice [:50] of a list.  Which accounts it keeps is left open: a list
\* that is not searched for a text is sorted, the one shown instead is not.
Cuts(rows) ==
  {part \in SUBSET rows : Cardinality(part) <= LookupLimit /\ (part = rows \/ Cardinality(part) = LookupLimit)}

\* A bug this module can show: a text that nobody has in his name finds nobody.
LookupWithoutFallback(text, scope) ==
  Cuts({u \in Users : IsActive(u) /\ InScope(u, scope) /\ (text = None \/ u \in MatchesOf[text])})

\* The lists that a lookup may answer with; None is no text.  A text that no
\* account of the scope matches is ignored.
LookupUsers(text, scope) ==
  LET accounts == {u \in Users : IsActive(u) /\ InScope(u, scope)}
      matching == IF text = None THEN accounts ELSE accounts \cap MatchesOf[text]
  IN Cuts(IF matching = {} THEN accounts ELSE matching)

\* The level that the picker shows beside a name.
UserLevel(u) ==
  IF users[u].superuser \/ SystemAdmin \in users[u].roles THEN "admin"
  ELSE IF users[u].roles \cap ManagerRoles # {} THEN "manager" ELSE "other"

-----------------------------------------------------------------------------
(* Properties.                                                             *)

\* Pickers follow the rules of user_can: they offer active accounts only, and
\* show exactly system administrators as such.  Where administrators are asked
\* for, one is offered whatever was typed, and one that matches is missing only
\* from a list that is full.
LookupsAgree ==
  \A text \in {None} \cup DOMAIN MatchesOf, scope \in Scopes : \A offered \in LookupUsers(text, scope) :
    /\ \A u \in offered : IsActive(u) /\ (UserLevel(u) = "admin" <=> IsSystemAdmin(u))
    /\ scope = "admin" => \A u \in Users :
         IsConfigurationAdmin(u) =>
           /\ offered # {}
           /\ (text # None => u \in MatchesOf[text]) => u \in offered \/ Cardinality(offered) = LookupLimit

\* The rules of who may see what say the same in each of their forms.
RulesAgree == AccessTypeOK /\ FilterAgreesWithCheck /\ ScopeCoversVisible /\ LookupsAgree
=============================================================================
