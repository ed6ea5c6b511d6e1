--------------------------- MODULE GatewayConfigs ---------------------------
(***************************************************************************)
(* The Razorpay configurations, of which one is active, and the orders     *)
(* made with their keys.                                                   *)
(*                                                                         *)
(*   modules/admin/razorpayConfigs   create, activate, delete              *)
(*   prisma/seed.js                  the configuration of the environment  *)
(*   modules/payments, razorpay      who reads which configuration when    *)
(*                                                                         *)
(* Each statement is a step.  setActiveConfig is a READ COMMITTED          *)
(* transaction: its updateMany sees the rows that are active when it       *)
(* starts, waits for those another transaction has changed, and then looks *)
(* at them again; others see its changes when it commits.                  *)
(***************************************************************************)
EXTENDS Naturals, FiniteSets

CONSTANTS
  Configs,      \* ids of configurations: each stands for one merchant account
  SeedConfig,   \* the row with the key of the environment, when there is one
  Orders,
  NoConfig,     \* NULL
  Tasks,        \* requests under way, and runs of the seed
  MaxTasks      \* bound: the tasks there are in all

VARIABLES
  exists, active,   \* the rows, and those whose is_active is committed
  order,            \* payment rows: status, account at Razorpay, config id
  captured,         \* external: orders Razorpay has been paid for
  task,             \* the locals of each task, and its next statement: pc
  tasks,            \* how many tasks there were
  chosen,           \* history: an activation has committed,
  overlapped        \*   two tasks that change configurations were under way at
                    \*   once, or the seed died between its two writes

gatewayVars == <<exists, active, order, captured, task, tasks, chosen, overlapped>>

ASSUME GatewayAssumption == SeedConfig \in Configs /\ NoConfig \notin Configs

-----------------------------------------------------------------------------

NoTask == [pc |-> "idle", id |-> NoConfig, rows |-> {}]
Doing(t, pc) == task[t].pc = pc
GoOn(t, next) == task' = [task EXCEPT ![t] = next]

TaskBegins(t, pc, c) ==
  /\ Doing(t, "idle") /\ tasks < MaxTasks
  /\ tasks' = tasks + 1
  /\ overlapped' = (overlapped \/ /\ pc # "order"
                                  /\ \E u \in Tasks \ {t} : task[u].pc \notin {"idle", "order"})
  /\ GoOn(t, [pc |-> pc, id |-> c, rows |-> {}])
  /\ UNCHANGED <<exists, active, order, captured, chosen>>

\* Rows that another transaction has changed and not committed.
Locked(t) == UNION {task[u].rows : u \in {u \in Tasks \ {t} : Doing(u, "activate")}}

-----------------------------------------------------------------------------

\* createConfig; an id does not come back.
CreateConfig(c) ==
  /\ c \notin exists
  /\ \A t \in Tasks : task[t].id # c
  /\ exists' = exists \cup {c}
  /\ UNCHANGED <<active, order, captured, task, tasks, chosen, overlapped>>

\* activateConfig finds the row.
BeginActivate(t, c) == c \in exists /\ TaskBegins(t, "begin", c)

\* The updateMany of setActiveConfig and of the seed: the rows it sees.
StartSwitch(t) ==
  /\ task[t].pc \in {"begin", "seed_begin"}
  /\ GoOn(t, [task[t] EXCEPT !.pc = IF @ = "begin" THEN "deactivate" ELSE "seed_deactivate", !.rows = active])
  /\ UNCHANGED <<exists, active, order, captured, tasks, chosen, overlapped>>

\* Mutant: setActiveConfig leaves the others active.
DeactivateNone(t) ==
  /\ Doing(t, "deactivate")
  /\ GoOn(t, [task[t] EXCEPT !.pc = "activate", !.rows = {}])
  /\ UNCHANGED <<exists, active, order, captured, tasks, chosen, overlapped>>

\* It has the rows, and changes those that are still active.
Deactivate(t) ==
  /\ Doing(t, "deactivate") /\ task[t].rows \cap Locked(t) = {}
  /\ GoOn(t, [task[t] EXCEPT !.pc = "activate", !.rows = @ \cap active])
  /\ UNCHANGED <<exists, active, order, captured, tasks, chosen, overlapped>>

\* The update of the chosen row, and the commit; no row, no transaction.
Activate(t) ==
  /\ Doing(t, "activate") /\ task[t].id \notin Locked(t)
  /\ IF task[t].id \in exists
     THEN active' = (active \ task[t].rows) \cup {task[t].id} /\ chosen' = TRUE
     ELSE UNCHANGED <<active, chosen>>
  /\ GoOn(t, NoTask)
  /\ UNCHANGED <<exists, order, captured, tasks, overlapped>>

\* The transaction times out, or the server goes down: nothing has happened.
AbortSwitch(t) ==
  /\ task[t].pc \in {"deactivate", "activate"}
  /\ GoOn(t, NoTask)
  /\ UNCHANGED <<exists, active, order, captured, tasks, chosen, overlapped>>

\* deleteConfig finds the row inactive, and deletes it as it then is; the
\* payments made with it keep no configuration.
BeginDelete(t, c) == c \in exists \ active /\ TaskBegins(t, "delete", c)

DeleteConfig(t) ==
  /\ Doing(t, "delete") /\ task[t].id \notin Locked(t)
  /\ exists' = exists \ {task[t].id}
  /\ active' = active \ {task[t].id}
  /\ order' = [o \in Orders |-> IF order[o].config = task[t].id THEN [order[o] EXCEPT !.config = NoConfig] ELSE order[o]]
  /\ GoOn(t, NoTask)
  /\ UNCHANGED <<captured, tasks, chosen, overlapped>>

-----------------------------------------------------------------------------

\* seedRazorpayConfig: the row with the environment's key is activated when
\* nothing is active; without one the others are deactivated and it is
\* created active, in statements of their own.
BeginSeed(t) ==
  /\ SeedConfig \notin active
  /\ TaskBegins(t, IF SeedConfig \in exists THEN "seed_look" ELSE "seed_begin", SeedConfig)

SeedLook(t) ==
  /\ Doing(t, "seed_look")
  /\ GoOn(t, IF active = {} THEN [task[t] EXCEPT !.pc = "seed_activate"] ELSE NoTask)
  /\ UNCHANGED <<exists, active, order, captured, tasks, chosen, overlapped>>

SeedActivate(t) ==
  /\ Doing(t, "seed_activate") /\ SeedConfig \notin Locked(t)
  /\ active' = active \cup ({SeedConfig} \cap exists)
  /\ GoOn(t, NoTask)
  /\ UNCHANGED <<exists, order, captured, tasks, chosen, overlapped>>

SeedDeactivate(t) ==
  /\ Doing(t, "seed_deactivate") /\ task[t].rows \cap Locked(t) = {}
  /\ active' = active \ task[t].rows
  /\ GoOn(t, [task[t] EXCEPT !.pc = "seed_create", !.rows = {}])
  /\ UNCHANGED <<exists, order, captured, tasks, chosen, overlapped>>

\* Two seeds at once make two rows.
SeedCreate(t) ==
  /\ Doing(t, "seed_create")
  /\ \E c \in Configs \ exists :
       /\ SeedConfig \in exists \/ c = SeedConfig
       /\ exists' = exists \cup {c} /\ active' = active \cup {c}
  /\ GoOn(t, NoTask)
  /\ UNCHANGED <<order, captured, tasks, chosen, overlapped>>

\* The seed dies between two statements.
AbortSeed(t) ==
  /\ task[t].pc \in {"seed_look", "seed_activate", "seed_begin", "seed_deactivate", "seed_create"}
  /\ GoOn(t, NoTask)
  /\ overlapped' = (overlapped \/ Doing(t, "seed_create"))
  /\ UNCHANGED <<exists, active, order, captured, tasks, chosen>>

-----------------------------------------------------------------------------

\* createOrder reads an active configuration before its transaction, ...
BeginOrder(t, c) == c \in active /\ TaskBegins(t, "order", c)

\* ... opens the order with its account, and stores its id: the foreign key
\* refuses a row that is gone.  An order that is open is returned as it is.
CreateOrder(t) ==
  /\ Doing(t, "order")
  /\ \/ \E o \in Orders :
          /\ order[o].status = "none" /\ task[t].id \in exists
          /\ order' = [order EXCEPT ![o] = [status |-> "open", account |-> task[t].id, config |-> task[t].id]]
     \/ UNCHANGED order
  /\ GoOn(t, NoTask)
  /\ UNCHANGED <<exists, active, captured, tasks, chosen, overlapped>>

\* External: the customer pays the order.
Pay(o) ==
  /\ order[o].status # "none" /\ o \notin captured
  /\ captured' = captured \cup {o}
  /\ UNCHANGED <<exists, active, order, task, tasks, chosen, overlapped>>

\* verifyPayment: the signature Razorpay gave the customer is compared with
\* one made with the key of configuration c.
VerifyWith(o, c) ==
  order' = [order EXCEPT ![o].status =
              IF c = order[o].account THEN "success" ELSE IF @ = "success" THEN @ ELSE "failed"]

\* Mutant: the key is the active one.
VerifyActive(o) ==
  /\ o \in captured /\ \E c \in active : VerifyWith(o, c)
  /\ UNCHANGED <<exists, active, captured, task, tasks, chosen, overlapped>>

\* The key is that of the payment's configuration; without one it is refused.
Verify(o) ==
  /\ o \in captured /\ order[o].config # NoConfig
  /\ VerifyWith(o, order[o].config)
  /\ UNCHANGED <<exists, active, captured, task, tasks, chosen, overlapped>>

\* The webhook and the reconciliation job use an active configuration: of
\* another account's order they hear nothing.
SettleByActive(o) ==
  /\ o \in captured /\ order[o].account \in active
  /\ VerifyWith(o, order[o].account)
  /\ UNCHANGED <<exists, active, captured, task, tasks, chosen, overlapped>>

-----------------------------------------------------------------------------

\* The seed has stored the environment's configuration, or has found none.
GatewayInit ==
  /\ exists \in SUBSET {SeedConfig} /\ active = exists
  /\ captured = {}
  /\ order = [o \in Orders |-> [status |-> "none", account |-> NoConfig, config |-> NoConfig]]
  /\ task = [t \in Tasks |-> NoTask] /\ tasks = 0
  /\ chosen = FALSE /\ overlapped = FALSE

TaskStep(t) ==
  \/ \E c \in Configs : BeginActivate(t, c) \/ BeginDelete(t, c) \/ BeginOrder(t, c)
  \/ StartSwitch(t) \/ Deactivate(t) \/ Activate(t) \/ AbortSwitch(t) \/ DeleteConfig(t)
  \/ BeginSeed(t) \/ SeedLook(t) \/ SeedActivate(t) \/ SeedDeactivate(t) \/ SeedCreate(t) \/ AbortSeed(t)
  \/ CreateOrder(t)

GatewayNext ==
  \/ \E t \in Tasks : TaskStep(t)
  \/ \E c \in Configs : CreateConfig(c)
  \/ \E o \in Orders : Pay(o) \/ Verify(o) \/ SettleByActive(o)

GatewaySpec == GatewayInit /\ [][GatewayNext]_gatewayVars
=============================================================================
