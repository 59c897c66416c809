---------------------------- MODULE PrivateWallet ----------------------------
(***************************************************************************)
(* The wallet the front-end shares: contexts/privateWalletContext.tsx over *)
(* the SDK (sdk.ts) and the WASM wallet (wallet/crate/src/lib.rs).         *)
(*                                                                         *)
(* A wallet is borrowed for as long as one of its async methods runs, and  *)
(* a second call on it panics.  The context keeps the calls apart with a   *)
(* flag that each of its functions sets and clears for itself.             *)
(*                                                                         *)
(* A step is one turn of the event loop: up to the next await that waits   *)
(* for the network, the signer or a timer.  A flag read after the 100 ms   *)
(* of waitForWallet and set in the same turn is one step.  The socket to   *)
(* the node, the account of the extension and the signer's version are     *)
(* taken to stay as they are, the arguments of calls are left out.         *)
(***************************************************************************)
EXTENDS Naturals

CONSTANT
    MaxWallets   \* bound: wallets that are made

ASSUME WalletConstants == MaxWallets \in Nat

VARIABLES
    signerUp,           \* the signer answers
    signerIsConnected,  \* what the last answer, or its lack, was taken to mean
    isInitialSync,      \* an initialisation is under way
    made,               \* wallets made so far
    sdk,                \* the wallet in use, 0 for none
    syncedSdk,          \* the wallet the interval of sync closes over, 0 for none
    walletIsBusy,
    balancesAreStale,
    txStatus,
    calls,              \* calls of wallets that have not returned
    waiting,            \* transactions that wait for the wallet
    unsynced,           \* ghost: since the last private transaction that was reported as
                        \* finalized, no sync has begun and ended
    missed,             \* ghost: one was reported since the sync under way began
    flagIsLost          \* ghost: an empty form has set walletIsBusy for good

connection == <<signerUp, signerIsConnected, isInitialSync, made, sdk, syncedSdk>>
ghosts == <<unsynced, missed, flagIsLost>>
walletVars == <<connection, walletIsBusy, balancesAreStale, txStatus, calls, waiting, ghosts>>

Wallet == 1 .. MaxWallets

\* A private transfer of an NFT is "nft" because nobody waits for it.  "empty" is the
\* transaction of an NFT page's form without an amount, which isValidToSend would refuse.
Transaction == {"send", "nft", "empty"}

\* "restart" initialises a wallet
Call == [kind : {"restart", "sync", "send", "nft"}, wallet : Wallet]

TypeOK ==
    /\ signerUp \in BOOLEAN /\ signerIsConnected \in BOOLEAN
    /\ isInitialSync \in BOOLEAN /\ walletIsBusy \in BOOLEAN
    /\ balancesAreStale \in BOOLEAN
    /\ unsynced \in BOOLEAN /\ missed \in BOOLEAN /\ flagIsLost \in BOOLEAN
    /\ made \in 0 .. MaxWallets
    /\ sdk \in 0 .. made /\ syncedSdk \in 0 .. made
    /\ txStatus \in {"none", "processing", "finalized", "failed"}
    /\ calls \subseteq Call
    /\ waiting \subseteq [kind : Transaction, wallet : Wallet]
    /\ \A w, x \in waiting : w = x

WalletInit ==
    /\ signerUp \in BOOLEAN
    /\ signerIsConnected = FALSE /\ isInitialSync = FALSE
    /\ made = 0 /\ sdk = 0 /\ syncedSdk = 0
    /\ walletIsBusy = FALSE /\ balancesAreStale = FALSE
    /\ txStatus = "none"
    /\ calls = {} /\ waiting = {}
    /\ unsynced = FALSE /\ missed = FALSE /\ flagIsLost = FALSE

isReady == sdk # 0 /\ signerIsConnected

isProcessing == txStatus = "processing"

-----------------------------------------------------------------------------
(* The signer and the initialisation *)

SignerComesOrGoes ==
    /\ signerUp' = ~signerUp
    /\ UNCHANGED <<signerIsConnected, isInitialSync, made, sdk, syncedSdk, walletIsBusy,
                   balancesAreStale, txStatus, calls, waiting, ghosts>>

\* the effects after sdk or signerIsConnected changed: the interval of sync is made anew
\* when isReady changes, and only then
Rendered(newSdk, connected) ==
    /\ sdk' = newSdk
    /\ signerIsConnected' = connected
    /\ syncedSdk' = IF newSdk = 0 \/ ~connected THEN 0
                    ELSE IF isReady THEN syncedSdk ELSE newSdk

\* canInitWallet() && !isReady, as of the render before
CanInitWallet == ~isInitialSync /\ ~isReady /\ made < MaxWallets

\* fetchSignerVersion; every answer makes a new Version, so the effect that may call
\* initWallet runs after each
FetchSignerVersion ==
    /\ IF signerUp
       THEN /\ Rendered(sdk, TRUE)
            /\ IF CanInitWallet
               THEN /\ isInitialSync' = TRUE
                    /\ made' = made + 1
                    /\ calls' = calls \cup {[kind |-> "restart", wallet |-> made + 1]}
               ELSE UNCHANGED <<isInitialSync, made, calls>>
       ELSE /\ Rendered(0, FALSE)
            /\ isInitialSync' = FALSE
            /\ UNCHANGED <<made, calls>>
    /\ UNCHANGED <<signerUp, walletIsBusy, balancesAreStale, txStatus, waiting, ghosts>>

\* the end of initWallet, whatever became of the signer and of other initialisations;
\* an error leaves isInitialSync set
InitWalletEnds(c) ==
    /\ c.kind = "restart"
    /\ calls' = calls \ {c}
    /\ \/ /\ Rendered(c.wallet, signerIsConnected)
          /\ isInitialSync' = FALSE
       \/ UNCHANGED <<sdk, signerIsConnected, syncedSdk, isInitialSync>>
    /\ UNCHANGED <<signerUp, made, walletIsBusy, balancesAreStale, txStatus, waiting, ghosts>>

-----------------------------------------------------------------------------
(* sync *)

\* Mistake (FreshAfterSync must notice): a sync begins whatever else runs
MayAlwaysSync == syncedSdk # 0

\* Mistake (WalletMakesProgress must notice): a sync begins while a transaction waits
SyncsWhileProcessing == syncedSdk # 0 /\ ~walletIsBusy

\* of the interval, and the first lines of sync
MaySync == syncedSdk # 0 /\ ~walletIsBusy /\ ~isProcessing

Sync ==
    /\ MaySync
    /\ walletIsBusy' = TRUE
    /\ calls' = calls \cup {[kind |-> "sync", wallet |-> syncedSdk]}
    /\ missed' = FALSE
    /\ UNCHANGED <<connection, balancesAreStale, txStatus, waiting, unsynced,
                   flagIsLost>>

\* the SDK's walletSync reports no failure, so every sync ends like this
SyncEnds(c) ==
    /\ c.kind = "sync"
    /\ calls' = calls \ {c}
    /\ balancesAreStale' = FALSE
    /\ unsynced' = (unsynced /\ missed)
    /\ walletIsBusy' = FALSE
    /\ UNCHANGED <<connection, txStatus, waiting, missed, flagIsLost>>

-----------------------------------------------------------------------------
(* toPublic, toPrivate, privateTransfer and their NFT versions *)

\* a private transaction is reported, as the SDK's failures are too
Reported ==
    /\ txStatus' = "finalized"
    /\ balancesAreStale' = TRUE
    /\ unsynced' = TRUE /\ missed' = TRUE
    /\ UNCHANGED flagIsLost

Calls(kind, wallet) == calls' = calls \cup {[kind |-> kind, wallet |-> wallet]}

\* the turn that finds the wallet free
Begins(kind, wallet) ==
    \/ /\ kind = "send"
       /\ Calls(kind, wallet)
       /\ txStatus' = "processing"
       /\ walletIsBusy' = TRUE
       /\ UNCHANGED <<balancesAreStale, ghosts>>
    \/ /\ kind = "nft"    \* privateTransferNFT of the SDK returns in this turn
       /\ Calls(kind, wallet)
       /\ Reported
       /\ UNCHANGED walletIsBusy
    \/ /\ kind = "empty"    \* toPrivateNFT throws outside its try
       /\ txStatus' = "failed"
       /\ walletIsBusy' = TRUE
       /\ flagIsLost' = TRUE
       /\ UNCHANGED <<balancesAreStale, calls, unsynced, missed>>

\* Mistake (CallsAreAlone must notice): a transaction does not wait
NobodyWaits == FALSE

\* waitForWallet does not return at once
MustWait == walletIsBusy

\* send of the page, from a button that is disabled while a transaction is processing
Send(kind) ==
    /\ isReady /\ ~isProcessing
    /\ IF MustWait
       THEN /\ waiting' = {[kind |-> kind, wallet |-> sdk]}
            /\ txStatus' = "processing"
            /\ UNCHANGED <<walletIsBusy, balancesAreStale, calls, ghosts>>
       ELSE /\ Begins(kind, sdk)
            /\ UNCHANGED waiting
    /\ UNCHANGED connection

\* the end of waitForWallet
WaitEnds ==
    /\ ~walletIsBusy
    /\ \E w \in waiting :
        /\ Begins(w.kind, w.wallet)
        /\ waiting' = waiting \ {w}
    /\ UNCHANGED connection

\* an error is caught, here or in the SDK, where it then counts as success
SendEnds(c) ==
    /\ c.kind = "send"
    /\ calls' = calls \ {c}
    /\ walletIsBusy' = FALSE
    /\ \/ Reported
       \/ txStatus' = "failed" /\ UNCHANGED <<balancesAreStale, ghosts>>
    /\ UNCHANGED <<connection, waiting>>

NftEnds(c) ==
    /\ c.kind = "nft"
    /\ calls' = calls \ {c}
    /\ UNCHANGED <<connection, walletIsBusy, balancesAreStale, txStatus, waiting, ghosts>>

WalletTurn ==
    \/ SignerComesOrGoes
    \/ FetchSignerVersion
    \/ Sync
    \/ WaitEnds
    \/ \E c \in calls : InitWalletEnds(c) \/ SyncEnds(c) \/ SendEnds(c) \/ NftEnds(c)
=============================================================================
