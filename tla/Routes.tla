------------------------------- MODULE Routes -------------------------------
(***************************************************************************)
(* What the process serves: for each service, the methods its gRPC         *)
(* descriptor names (gen/rgs/v1/X_grpc.pb.go) and the path the gateway     *)
(* registers for each of them (gen/rgs/v1/X.pb.gw.go).  A path             *)
(* /v1/<segment>/<rest> is the pair of the two, a parameter of the path    *)
(* written as a star; a gateway handler calls the method of the service in *)
(* the same process, in the context of the HTTP request, and a gRPC        *)
(* handler calls it through the interceptors.                              *)
(***************************************************************************)

SystemService == {"GetSystemStatus"}

IdentityService ==
    {"Login", "Logout", "RefreshToken", "SetCredential", "DisableCredential", "EnableCredential",
     "GetLockout", "ResetLockout"}

LedgerService ==
    {"GetBalance", "Deposit", "Withdraw", "TransferToDevice", "TransferToAccount", "ListTransactions"}

WageringService == {"PlaceWager", "SettleWager", "CancelWager"}

RegistryService == {"UpsertEquipment", "GetEquipment", "ListEquipment"}

EventsService ==
    {"SubmitSignificantEvent", "SubmitMeterSnapshot", "SubmitMeterDelta", "ListEvents", "ListMeters"}

ReportingService == {"GenerateReport", "ListReportRuns", "GetReportRun"}

ConfigService ==
    {"ProposeConfigChange", "ApproveConfigChange", "ApplyConfigChange", "ListConfigHistory",
     "RecordDownloadLibraryChange", "ListDownloadLibraryChanges"}

PromotionsService ==
    {"RecordBonusTransaction", "ListRecentBonusTransactions", "RecordPromotionalAward",
     "ListPromotionalAwards"}

UISystemOverlayService == {"SubmitSystemWindowEvent", "ListSystemWindowEvents"}

SessionsService == {"StartSession", "EndSession", "GetSession"}

AuditService == {"ListAuditEvents", "ListRemoteAccessActivities", "VerifyAuditChain"}

-----------------------------------------------------------------------------

SystemRoutes == [GetSystemStatus |-> <<"system", "status">>]

IdentityRoutes ==
    [Login             |-> <<"identity", "login">>,
     Logout            |-> <<"identity", "logout">>,
     RefreshToken      |-> <<"identity", "refresh">>,
     SetCredential     |-> <<"identity", "credentials:set">>,
     DisableCredential |-> <<"identity", "credentials:disable">>,
     EnableCredential  |-> <<"identity", "credentials:enable">>,
     GetLockout        |-> <<"identity", "lockouts">>,
     ResetLockout      |-> <<"identity", "lockouts:reset">>]

LedgerRoutes ==
    [GetBalance        |-> <<"ledger", "accounts/*/balance">>,
     Deposit           |-> <<"ledger", "deposits">>,
     Withdraw          |-> <<"ledger", "withdrawals">>,
     TransferToDevice  |-> <<"ledger", "transfers/device">>,
     TransferToAccount |-> <<"ledger", "transfers/account">>,
     ListTransactions  |-> <<"ledger", "accounts/*/transactions">>]

WageringRoutes ==
    [PlaceWager  |-> <<"wagering", "wagers">>,
     SettleWager |-> <<"wagering", "wagers/*:settle">>,
     CancelWager |-> <<"wagering", "wagers/*:cancel">>]

RegistryRoutes ==
    [UpsertEquipment |-> <<"registry", "equipment/*">>,
     GetEquipment    |-> <<"registry", "equipment/*">>,
     ListEquipment   |-> <<"registry", "equipment">>]

EventsRoutes ==
    [SubmitSignificantEvent |-> <<"events", "significant">>,
     SubmitMeterSnapshot    |-> <<"events", "meters/snapshot">>,
     SubmitMeterDelta       |-> <<"events", "meters/delta">>,
     ListEvents             |-> <<"events", "significant">>,
     ListMeters             |-> <<"events", "meters">>]

ReportingRoutes ==
    [GenerateReport |-> <<"reporting", "runs">>,
     ListReportRuns |-> <<"reporting", "runs">>,
     GetReportRun   |-> <<"reporting", "runs/*">>]

ConfigRoutes ==
    [ProposeConfigChange         |-> <<"config", "changes:propose">>,
     ApproveConfigChange         |-> <<"config", "changes/*:approve">>,
     ApplyConfigChange           |-> <<"config", "changes/*:apply">>,
     ListConfigHistory           |-> <<"config", "history">>,
     RecordDownloadLibraryChange |-> <<"config", "download-library:record">>,
     ListDownloadLibraryChanges  |-> <<"config", "download-library">>]

PromotionsRoutes ==
    [RecordBonusTransaction      |-> <<"promotions", "bonus-transactions">>,
     ListRecentBonusTransactions |-> <<"promotions", "bonus-transactions">>,
     RecordPromotionalAward      |-> <<"promotions", "awards">>,
     ListPromotionalAwards       |-> <<"promotions", "awards">>]

UISystemOverlayRoutes ==
    [SubmitSystemWindowEvent |-> <<"ui", "system-window-events">>,
     ListSystemWindowEvents  |-> <<"ui", "system-window-events">>]

SessionsRoutes ==
    [StartSession |-> <<"sessions", ":start">>,
     EndSession   |-> <<"sessions", ":end">>,
     GetSession   |-> <<"sessions", "*">>]

AuditRoutes ==
    [ListAuditEvents            |-> <<"audit", "events">>,
     ListRemoteAccessActivities |-> <<"audit", "remote-access">>,
     VerifyAuditChain           |-> <<"audit", "chain:verify">>]

-----------------------------------------------------------------------------

\* The services rgsd registers with the gRPC server
Services ==
    [SystemService          |-> SystemService,
     IdentityService        |-> IdentityService,
     LedgerService          |-> LedgerService,
     WageringService        |-> WageringService,
     RegistryService        |-> RegistryService,
     EventsService          |-> EventsService,
     ReportingService       |-> ReportingService,
     ConfigService          |-> ConfigService,
     PromotionsService      |-> PromotionsService,
     UISystemOverlayService |-> UISystemOverlayService,
     SessionsService        |-> SessionsService,
     AuditService           |-> AuditService]

\* The handlers rgsd registers with the gateway, in the process itself
Gateway ==
    [SystemService          |-> SystemRoutes,
     IdentityService        |-> IdentityRoutes,
     LedgerService          |-> LedgerRoutes,
     WageringService        |-> WageringRoutes,
     RegistryService        |-> RegistryRoutes,
     EventsService          |-> EventsRoutes,
     ReportingService       |-> ReportingRoutes,
     ConfigService          |-> ConfigRoutes,
     PromotionsService      |-> PromotionsRoutes,
     UISystemOverlayService |-> UISystemOverlayRoutes,
     SessionsService        |-> SessionsRoutes,
     AuditService           |-> AuditRoutes]

\* The methods, as <<service, method>>: both transports expose them all
RPCs == UNION {{<<s, m>> : m \in Services[s]} : s \in DOMAIN Services}

\* The path the gateway serves a method at
Path(rpc) == Gateway[rpc[1]][rpc[2]]

=============================================================================
