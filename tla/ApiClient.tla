------------------------------ MODULE ApiClient ------------------------------
(***************************************************************************)
(* The calls of the generated client (api/generated/client.ts) the pages   *)
(* make, each as what it hands to customFetcher.  A query runs under the   *)
(* AbortSignal React Query gives its queryFn, and its cache key is its url *)
(* with its parameters; a mutation has neither.  Parameters that are       *)
(* undefined are left out of the url, so a list call is its path and what  *)
(* was given.                                                              *)
(***************************************************************************)
Query(url) == [method |-> "GET", url |-> url, signal |-> "live"]

Mutation(method, url) == [method |-> method, url |-> url, signal |-> "none"]

\* URLSearchParams over the parameters given.
WithParams(path, params) == IF params = {} THEN <<path>> ELSE <<path, params>>

Chat == Mutation("POST", <<"/api/chat">>)
RestoreSession == Query(<<"/api/chat/session">>)
VerifyCode == Mutation("POST", <<"/api/auth/verify-code">>)

ListSessions(params) == Query(WithParams("/api/sessions", params))
UpdateSession(sessionId) == Mutation("PATCH", <<"/api/sessions", {sessionId}, "id">>)

ListPackages(params) == Query(WithParams("/api/packages", params))
CreatePackage == Mutation("POST", <<"/api/packages">>)
UpdatePackage(packageId) == Mutation("PATCH", <<"/api/packages", {packageId}, "id">>)
DeletePackage(packageId) == Mutation("DELETE", <<"/api/packages", {packageId}, "id">>)

ListShipments(params) == Query(WithParams("/api/shipments", params))
CreateShipment == Mutation("POST", <<"/api/shipments">>)
SearchShipments(params) == Query(WithParams("/api/shipments/search", params))
UpdateShipment(shipmentId) == Mutation("PATCH", <<"/api/shipments", {shipmentId}, "id">>)
DeleteShipment(shipmentId) == Mutation("DELETE", <<"/api/shipments", {shipmentId}, "id">>)

ListCustomers(params) == Query(WithParams("/api/customers", params))
CreateCustomer == Mutation("POST", <<"/api/customers">>)
SearchCustomers(params) == Query(WithParams("/api/customers/search", params))
UpdateCustomer(customerId) == Mutation("PATCH", <<"/api/customers", {customerId}, "id">>)
DeleteCustomer(customerId) == Mutation("DELETE", <<"/api/customers", {customerId}, "id">>)

\* Every call with the given sets of parameters and one id.
AllCalls(paramSets, id) ==
  {Chat, RestoreSession, VerifyCode, UpdateSession(id),
   CreatePackage, UpdatePackage(id), DeletePackage(id),
   CreateShipment, UpdateShipment(id), DeleteShipment(id),
   CreateCustomer, UpdateCustomer(id), DeleteCustomer(id)}
  \cup UNION {{ListSessions(p), ListPackages(p), ListShipments(p), SearchShipments(p),
               ListCustomers(p), SearchCustomers(p)} : p \in paramSets}
=============================================================================
