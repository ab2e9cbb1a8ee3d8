-------------------------- MODULE MCTokenInspection --------------------------
(***************************************************************************)
(* Instances of TokenInspection for TLC.                                   *)
(***************************************************************************)
EXTENDS TokenInspection

On(key) == [key |-> key, value |-> "*", nested |-> {}]

Below(key, leaf) == [key |-> key, value |-> "nested",
                     nested |-> {[key |-> leaf, value |-> "*"]}]

Policy(effect, resources, products, rights) ==
    [effect |-> effect, resources |-> resources, groups |-> products \X rights]

Token(account, policies) == [account |-> account, policies |-> policies]

\* No policy; the zone only; all zones of the account; the account only, read or
\* written; somebody else's; a grant and a read next to each other; a grant that
\* another policy takes back.
MCTokens == {
    Token(FALSE, {}),
    Token(FALSE, {Policy("allow", {On("zone")}, Products, {"write"})}),
    Token(TRUE, {Policy("allow", {Below("account", "zone.*")}, Products, {"write"})}),
    Token(TRUE, {Policy("allow", {On("account.*")}, {"tunnel", "access"}, {"write"}),
                 Policy("allow", {On("zone.*")}, {"dns"}, {"read"})}),
    Token(FALSE, {Policy("allow", {On("other account"), On("other zone"),
                                   Below("account", "other zone")}, Products, {"write"}),
                  Policy("allow", {On("account")}, Products, {"read"})}),
    Token(FALSE, {Policy("allow", {On("zone")}, Products, Rights)}),
    Token(FALSE, {Policy("allow", {On("account")}, Products, {"write"}),
                  Policy("deny", {On("zone")}, Products, {"write"})})}

\* Everything; no Access; Access for the zone only, and no tunnels or routes.
MCPlans == {
    Products \X Scopes,
    (Products \ {"access"}) \X Scopes,
    {<<"dns", "zones">>, <<"access", "zones">>}}

MCRecordSets == {<<>>, <<TRUE>>, <<FALSE, TRUE>>}
==============================================================================
