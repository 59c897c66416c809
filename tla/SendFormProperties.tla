-------------------------- MODULE SendFormProperties --------------------------
(* What must hold of the private wallet and of the send form. *)
EXTENDS SendForm

\* Two calls of one wallet never overlap, apart from private transfers of NFTs, for which
\* nobody waits; and whoever finds the wallet free may read its balance: no call runs on
\* the wallet in use, on one that a reader or a transaction waits for, or on the one that
\* is synced.  An empty form of the NFT page takes the wallet for good.  About walletIsBusy and waitForWallet (privateWalletContext.tsx), the "WASM
\* wallet doesn't allow you to call two methods at once".
CallsAreAlone ==
    LET awaited == {c \in calls : c.kind # "nft"}
        inUse == {sdk, syncedSdk} \cup {w.wallet : w \in waiting} \cup {f.wallet : f \in fetches}
    IN /\ \A c, d \in awaited : c.wallet = d.wallet => c = d
       /\ walletIsBusy <=> flagIsLost \/ \E c \in awaited : c.kind \in {"sync", "send"}
       /\ \A c \in awaited : c.kind = "restart" => c.wallet \notin inUse

\* Balances count as fresh only when a sync has begun after every private transaction that
\* was reported as finalized.  About balancesAreStale, and sync not running while a
\* transaction is processing (privateWalletContext.tsx).  The sync
\* is of the wallet the interval closes over, which may not be the one in use.
FreshAfterSync == ~balancesAreStale => ~unsynced

\* A balance on the form is of the asset, and of the kind, that is selected, whatever was
\* asked before the selection changed.  About balanceUpdateIsStale (sendReducer.ts).
BalancesAreOfSelection == \A side \in Side : shown[side] \in {NoBalance, selected[side]}

\* A private transaction ends: the wallet it waits for becomes free, and the status does
\* not stay at processing.  About waitForWallet and the flags of the transactions.
TransactionsEnd ==
    (waiting # {} \/ \E c \in calls : c.kind = "send")
        ~> txStatus \in {"finalized", "failed"} \/ flagIsLost

\* Stale balances are refreshed unless the wallet is lost or a further transaction is
\* processing.  About sync, its catch and the interval (privateWalletContext.tsx).
StaleBalancesAreRefreshed ==
    balancesAreStale ~> ~balancesAreStale \/ ~isReady \/ isProcessing \/ flagIsLost

\* Whoever waits for walletIsBusy or balancesAreStale to change does not wait for ever,
\* unless the NFT page has sent an empty form.
WalletMakesProgress == TransactionsEnd /\ StaleBalancesAreRefreshed
=============================================================================
