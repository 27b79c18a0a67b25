------------------------------ MODULE AdminTables ------------------------------
(***************************************************************************)
(* What tells the four admin tables apart (components/Admin/*Table.tsx):   *)
(* the list each asks for, and the controls and row buttons it shows.  `u` *)
(* is the state of the controls: page, debounced search term, parent       *)
(* filter and status filter.                                               *)
(***************************************************************************)
EXTENDS ApiClient

CONSTANT None

\* A parameter that is empty is left out: `filterStatus || undefined`.
Given(name, value) == IF value = None THEN {} ELSE {<<name, value>>}

Offset(u) == {<<"offset", u.page>>}

-----------------------------------------------------------------------------
CustomersList(u) ==
  ListCustomers(Offset(u) \cup Given("q", u.debounced) \cup Given("customer_id", u.parent))

CustomersControls(u) == IF u.parent = None THEN {"search", "add"} ELSE {}

CustomersRow == {"shipments", "edit", "delete"}

-----------------------------------------------------------------------------
ShipmentsList(u) ==
  ListShipments(Offset(u) \cup Given("status", u.status) \cup Given("q", u.debounced)
                          \cup Given("customer_id", u.parent))

ShipmentsControls(u) ==
  {"search", "status", "add"} \cup IF u.parent = None THEN {} ELSE {"clear"}

ShipmentsRow == {"packages", "edit", "delete"}

-----------------------------------------------------------------------------
PackagesList(u) ==
  ListPackages(Offset(u) \cup Given("q", u.debounced) \cup Given("shipment_id", u.parent))

\* A filter that cannot be taken off.
PackagesControlsFixed(u) == IF u.parent = None THEN {"search", "add"} ELSE {}

PackagesControls(u) == IF u.parent = None THEN {"search", "add"} ELSE {"clear"}

PackagesRow == {"edit", "delete"}

-----------------------------------------------------------------------------
SessionsList(u) == ListSessions(Offset(u) \cup Given("state", u.status))

SessionsControls == {"status"}

\* Shown for a session that has a customer.
SessionsRow == {"customer"}

-----------------------------------------------------------------------------
ListOf(table, u) ==
  CASE table = "customers" -> CustomersList(u)
    [] table = "shipments" -> ShipmentsList(u)
    [] table = "packages"  -> PackagesList(u)
    [] table = "sessions"  -> SessionsList(u)

Controls(table, u) ==
  CASE table = "customers" -> CustomersControls(u)
    [] table = "shipments" -> ShipmentsControls(u)
    [] table = "packages"  -> PackagesControls(u)
    [] table = "sessions"  -> SessionsControls

RowButtons(table) ==
  CASE table = "customers" -> CustomersRow
    [] table = "shipments" -> ShipmentsRow
    [] table = "packages"  -> PackagesRow
    [] table = "sessions"  -> SessionsRow
=============================================================================
