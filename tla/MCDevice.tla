------------------------------ MODULE MCDevice ------------------------------
(* An instance for TLC of the parts of a device that share no state: its   *)
(* profiles, the files it finds by name, its own transactions, its rewards *)
(* and the messages of a connection.  A behaviour exercises one of them,   *)
(* chosen at its start.                                                    *)
(* Credentials are interchangeable, so that those of the old profile are   *)
(* fixed.                                                                  *)
EXTENDS Profiles

CONSTANTS
  Founder, Server, Devices, Uses, Keys, MaxFiles, MaxVersion, MaxInstalls,
  System, Wallet, Links, MaxTxs,
  Identifiers, Cooldown, Forget, Limit, MaxTime,
  Room, MaxMessages, MaxArrivals

VARIABLES
  part, \* the part that the behaviour exercises
  use, dfs, found, waiting, sent, thoth, thread, installs,
  own, txs, sended, failed, created, pending, caller, saved, descriptions, rows,
  mining, requests, last, clock, accepted,
  socket, queue, dequeue_pending, waiting_buffer_space, posted, buffer, cache,
  arrived, handled, taken, written

filesVars        == <<use, dfs, found, waiting, sent, thoth, thread, installs>>
transactionsVars == <<own, txs, sended, failed, created, pending, caller, saved,
                      descriptions, rows>>
rewardsVars      == <<mining, requests, last, clock, accepted>>
messagesVars     == <<socket, queue, dequeue_pending, waiting_buffer_space, posted, buffer,
                      cache, arrived, handled, taken, written>>

NF == INSTANCE NamedFiles
OT == INSTANCE OwnTransactions
RW == INSTANCE Rewards
SQ == INSTANCE SendQueue

ASSUME DeviceAssumption ==
  NF!NamedFilesAssumption /\ OT!OwnTransactionsAssumption /\ RW!RewardsAssumption
  /\ SQ!SendQueueAssumption

Parts == {"profiles", "files", "transactions", "rewards", "messages"}

DeviceInit ==
  /\ part \in Parts
  /\ Init /\ NF!Init /\ OT!Init /\ RW!Init /\ SQ!Init
  /\ known[Legacy] = {CHOOSE c \in Creds : TRUE}
  /\ part = "files" \/ use = CHOOSE u \in Uses : TRUE

StepProfiles ==
  part = "profiles" /\ Next /\ UNCHANGED <<part, filesVars, transactionsVars, rewardsVars,
                                               messagesVars>>

StepFiles ==
  part = "files" /\ NF!Next /\ UNCHANGED <<part, vars, transactionsVars, rewardsVars,
                                               messagesVars>>

StepTransactions ==
  part = "transactions" /\ OT!Next /\ UNCHANGED <<part, vars, filesVars, rewardsVars,
                                                      messagesVars>>

StepRewards ==
  part = "rewards" /\ RW!Next /\ UNCHANGED <<part, vars, filesVars, transactionsVars,
                                                 messagesVars>>

StepMessages ==
  part = "messages" /\ SQ!Next /\ UNCHANGED <<part, vars, filesVars, transactionsVars,
                                                  rewardsVars>>

DeviceNext == StepProfiles \/ StepFiles \/ StepTransactions \/ StepRewards \/ StepMessages

DeviceSpec ==
  DeviceInit /\ [][DeviceNext]_<<part, vars, filesVars, transactionsVars, rewardsVars, messagesVars>>

(* The types of all parts.                                                 *)
DeviceTypes == TypeOK /\ NF!TypeOK /\ OT!TypeOK /\ RW!TypeOK /\ SQ!TypeOK

(* While Thoth runs and no call is under way, it knows whom to notify of   *)
(* every record of a complete vector.                                      *)
ThothKnows == NF!ThothKnows

(* No installation makes two files of one name in one folder.              *)
NamesUnique == NF!NamesUnique

(* Descriptions and rows are stored only for transactions that are in a    *)
(* section and were not reported as failed.                                *)
ResultsTrue == OT!ResultsTrue

(* Rewards of a node and of an actor's nodes are spaced.                   *)
RewardsSpaced == RW!RewardsSpaced

(* Messages of an active connection are neither lost nor overtaken, and one *)
(* that waits will be looked at.                                            *)
MessagesFlow == SQ!MessagesFlow
=============================================================================
