------------------------------ MODULE KeysHolder ------------------------------
(***************************************************************************)
(* The virtual peers holder of multi-key nodes                             *)
(* (keysManagement/keysHolder.go).  A node runs the validator keys of its  *)
(* configuration; for each key AddVirtualPeer creates a random p2p         *)
(* identity (a peer id) and stores a peerInfo under the public key.  Keys  *)
(* are run by a main machine and watched by backup machines: a backup      *)
(* counts, per key, the rounds without a message from it and manages the   *)
(* key once MaxRoundsWithoutReceivedMessages rounds have passed in         *)
(* silence.                                                                *)
(*                                                                         *)
(* The module holds one holder per machine.  Callers run concurrently:     *)
(* AddVirtualPeer generates the identity before it takes holder.mut, so    *)
(* two adds interleave between their two steps; every other operation is  *)
(* one step under the lock (or under the peerInfo's own lock).  Private    *)
(* keys, public keys and their byte forms are one model value per key;     *)
(* machine ids and named identities are left out.                          *)
(***************************************************************************)
EXTENDS Naturals, FiniteSets

CONSTANTS
    Machines,                          \* the holders, one per machine
    IsMainMachine(_),                  \* args.IsMainMachine of a machine's holder
    Keys,                              \* the validator keys of the configuration
    Callers,                           \* goroutines calling AddVirtualPeer
    Pids,                              \* peer ids CreateRandomP2PIdentity may return
    MaxRoundsWithoutReceivedMessages,  \* args.MaxRoundsWithoutReceivedMessages
    MaxRounds,                         \* bound on a key's count of silent rounds
    Nil

\* checkVirtualPeersHolderArgs: minRoundsWithoutReceivedMessages is 1.
ASSUME /\ MaxRoundsWithoutReceivedMessages \in Nat /\ MaxRoundsWithoutReceivedMessages >= 1
       /\ MaxRounds \in Nat /\ Nil \notin Pids \cup Keys

VARIABLES
    data,     \* data[m]: public key -> peerInfo (pid, silent rounds), Nil when absent
    pids,     \* pids[m]: the peer ids of the holder's identities
    used,     \* peer ids handed out so far (identities are random and distinct)
    adding    \* adding[c]: << machine, key, pid >> of an add between its steps, or Nil

vars == << data, pids, used, adding >>

PeerInfo(pid, rounds) == [pid |-> pid, rounds |-> rounds]

-----------------------------------------------------------------------------
(* peerInfo (keysManagement/peerInfo.go).                                  *)

\* isNodeActiveOnMainMachine: fewer silent rounds than the maximum.
isNodeActiveOnMainMachine(pInfo, maxRounds) == pInfo.rounds < maxRounds

incrementRoundsWithoutReceivedMessages(pInfo) == [pInfo EXCEPT !.rounds = @ + 1]

resetRoundsWithoutReceivedMessages(pInfo) == [pInfo EXCEPT !.rounds = 0]

-----------------------------------------------------------------------------
(* Reads of the holder.                                                     *)

\* getPeerInfo: the peerInfo stored under the key, or nil.
getPeerInfo(m, pk) == data[m][pk]

\* GetPrivateKey, GetP2PIdentity and GetMachineID: the stored fields, or
\* errMissingPublicKeyDefinition (here Nil) for a key that was not added.
GetP2PIdentity(m, pk) == IF getPeerInfo(m, pk) = Nil THEN Nil ELSE getPeerInfo(m, pk).pid

\* A variant that leaves out the main machine.
GetManagedKeysOnlyFailed(m) ==
    { pk \in Keys : /\ getPeerInfo(m, pk) # Nil
                    /\ ~IsMainMachine(m)
                    /\ ~isNodeActiveOnMainMachine(getPeerInfo(m, pk), MaxRoundsWithoutReceivedMessages) }

\* GetManagedKeysByCurrentNode: under the read lock, every stored key if
\* this is the main machine, else those whose main machine went silent.
GetManagedKeysByCurrentNode(m) ==
    { pk \in Keys :
        LET pInfo == getPeerInfo(m, pk)
            isSlaveAndMainFailed ==
                ~IsMainMachine(m) /\ ~isNodeActiveOnMainMachine(pInfo, MaxRoundsWithoutReceivedMessages)
        IN  pInfo # Nil /\ (IsMainMachine(m) \/ isSlaveAndMainFailed) }

\* IsKeyManagedByCurrentNode: a key not added is not managed; the main
\* machine manages all its keys, a backup those whose main went silent.
IsKeyManagedByCurrentNode(m, pk) ==
    LET pInfo == getPeerInfo(m, pk)
    IN  CASE pInfo = Nil      -> FALSE
          [] IsMainMachine(m) -> TRUE
          [] OTHER            -> ~isNodeActiveOnMainMachine(pInfo, MaxRoundsWithoutReceivedMessages)

\* IsKeyRegistered: the key was added, managed or not.
IsKeyRegistered(m, pk) == getPeerInfo(m, pk) # Nil

\* IsPidManagedByCurrentNode: the peer id is one of the holder's.
IsPidManagedByCurrentNode(m, pid) == pid \in pids[m]

-----------------------------------------------------------------------------
(* Operations.                                                              *)

\* NewVirtualPeersHolder on every machine: empty maps.
Init ==
    /\ data = [m \in Machines |-> [pk \in Keys |-> Nil]]
    /\ pids = [m \in Machines |-> {}]
    /\ used = {}
    /\ adding = [c \in Callers |-> Nil]

\* AddVirtualPeer, up to the lock: the key is derived from the private key
\* bytes and CreateRandomP2PIdentity returns a fresh identity.  (When one
\* of these fails the call returns its error and changes nothing.)
AddVirtualPeerCreateIdentity(c, m, pk) ==
    /\ adding[c] = Nil
    /\ \E pid \in Pids \ used :
          /\ adding' = [adding EXCEPT ![c] = << m, pk, pid >>]
          /\ used' = used \cup {pid}
    /\ UNCHANGED << data, pids >>

\* A variant that records the peer id before the duplicate check.
AddVirtualPeerPidFirst(c) ==
    LET m == adding[c][1]  pk == adding[c][2]  pid == adding[c][3]
    IN  /\ adding[c] # Nil
        /\ pids' = [pids EXCEPT ![m] = @ \cup {pid}]
        /\ data' = IF data[m][pk] # Nil THEN data
                   ELSE [data EXCEPT ![m][pk] = PeerInfo(pid, 0)]
        /\ adding' = [adding EXCEPT ![c] = Nil]
        /\ UNCHANGED used

\* AddVirtualPeer, under holder.mut: errDuplicatedKey when the key is
\* already stored, else the peerInfo and its peer id are stored.
AddVirtualPeer(c) ==
    LET m == adding[c][1]  pk == adding[c][2]  pid == adding[c][3]
    IN  /\ adding[c] # Nil
        /\ IF data[m][pk] # Nil
           THEN UNCHANGED << data, pids >>
           ELSE /\ data' = [data EXCEPT ![m][pk] = PeerInfo(pid, 0)]
                /\ pids' = [pids EXCEPT ![m] = @ \cup {pid}]
        /\ adding' = [adding EXCEPT ![c] = Nil]
        /\ UNCHANGED used

\* IncrementRoundsWithoutReceivedMessages: nothing on the main machine;
\* errMissingPublicKeyDefinition for a key not added.
IncrementRoundsWithoutReceivedMessages(m, pk) ==
    /\ ~IsMainMachine(m)
    /\ getPeerInfo(m, pk) # Nil
    /\ getPeerInfo(m, pk).rounds < MaxRounds
    /\ data' = [data EXCEPT ![m][pk] = incrementRoundsWithoutReceivedMessages(@)]
    /\ UNCHANGED << pids, used, adding >>

\* ResetRoundsWithoutReceivedMessages: nothing on the main machine;
\* errMissingPublicKeyDefinition for a key not added.
ResetRoundsWithoutReceivedMessages(m, pk) ==
    /\ ~IsMainMachine(m)
    /\ getPeerInfo(m, pk) # Nil
    /\ data' = [data EXCEPT ![m][pk] = resetRoundsWithoutReceivedMessages(@)]
    /\ UNCHANGED << pids, used, adding >>

\* Once the identities are used up and no add is under way, the callers
\* may only read.
Done ==
    /\ \A c \in Callers : adding[c] = Nil
    /\ used = Pids
    /\ UNCHANGED vars

Next ==
    \/ \E c \in Callers, m \in Machines, pk \in Keys : AddVirtualPeerCreateIdentity(c, m, pk)
    \/ \E c \in Callers : AddVirtualPeer(c)
    \/ \E m \in Machines, pk \in Keys :
          \/ IncrementRoundsWithoutReceivedMessages(m, pk)
          \/ ResetRoundsWithoutReceivedMessages(m, pk)
    \/ Done

Spec == Init /\ [][Next]_vars

-----------------------------------------------------------------------------

\* The holder's identities are exactly those of its keys: a peer id is
\* reported as managed (IsPidManagedByCurrentNode) iff GetP2PIdentity
\* returns it for a stored key, and no two keys share one, however adds of
\* the same key race between identity creation and the locked insert
\* (the loser's identity must not be kept).
IdentitiesMatchKeys ==
    \A m \in Machines :
        /\ \A pid \in Pids :
              IsPidManagedByCurrentNode(m, pid) <=> \E pk \in Keys : GetP2PIdentity(m, pk) = pid
        /\ \A k1, k2 \in Keys :
              GetP2PIdentity(m, k1) = GetP2PIdentity(m, k2) /\ GetP2PIdentity(m, k1) # Nil => k1 = k2

\* GetManagedKeysByCurrentNode and IsKeyManagedByCurrentNode, the two
\* ways the node asks which keys it runs (the whole set under the read
\* lock, one key at a time through getPeerInfo), agree on every machine,
\* main or backup, whatever adds, increments and resets came before.
ManagedViewsAgree ==
    \A m \in Machines :
        GetManagedKeysByCurrentNode(m) = { pk \in Keys : IsKeyManagedByCurrentNode(m, pk) }

=============================================================================
