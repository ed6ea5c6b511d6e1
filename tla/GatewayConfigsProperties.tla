----------------------- MODULE GatewayConfigsProperties ---------------------
EXTENDS GatewayConfigs

Order == [status : {"none", "open", "success", "failed"},
          account : Configs \cup {NoConfig}, config : Configs \cup {NoConfig}]
Task == [pc : {"idle", "begin", "deactivate", "activate", "delete", "order", "seed_look",
               "seed_activate", "seed_begin", "seed_deactivate", "seed_create"},
         id : Configs \cup {NoConfig}, rows : SUBSET Configs]

\* Every variable keeps its type, and only rows that exist are active.
GatewayTypeOK ==
  /\ exists \subseteq Configs /\ active \subseteq exists
  /\ captured \subseteq Orders
  /\ order \in [Orders -> Order]
  /\ task \in [Tasks -> Task]
  /\ tasks \in Nat
  /\ chosen \in BOOLEAN /\ overlapped \in BOOLEAN

\* razorpayConfig.service.js: "Atomically activate a config (deactivates all
\* others)" and "Refuses if the config is currently active".  From the first
\* activation on one configuration is active, unless two requests that change
\* them crossed, or the seed died between its two statements; and two are
\* never active without that.
OneActiveConfig ==
  ~overlapped =>
    /\ \A c, d \in active : c = d
    /\ chosen /\ (\A t \in Tasks : ~Doing(t, "seed_create")) => active # {}

\* payment.service.js, edge case 15: a signature that Razorpay made is never
\* taken for a forged one, whatever gateway is active when it is verified.
GenuineIsNeverFailed ==
  [][\A o \in captured : order'[o].status = "failed" => order[o].status = "failed"]_gatewayVars
=============================================================================
