------------------------------ MODULE SendForm -------------------------------
(***************************************************************************)
(* The form of the send page (pages/SendPage), or its copy for NFTs (pages *)
(* /NftTransactPage, within pages/NftPage), beside the private wallet:     *)
(* which asset it is about, whether each side is private, and the balances *)
(* it shows, fetched every 200 ms by requests that come back in any order, *)
(* maybe after the user has changed the selection.  Each page has its own  *)
(* wallet.                                                                 *)
(*                                                                         *)
(* A balance is modelled by the type it is of.  One account is selected in *)
(* the extension throughout; amounts, addresses and the balance for fees,  *)
(* which depend on neither selection, are left out.                        *)
(***************************************************************************)
EXTENDS PrivateWallet, FiniteSets

CONSTANTS
    Asset,
    NoBalance,    \* what is shown until a balance is known
    MaxFetches    \* bound: balances being fetched at once

Side == {"sender", "receiver"}

Type == [asset : Asset, isPrivate : BOOLEAN]

ASSUME FormConstants == NoBalance \notin Type /\ MaxFetches \in Nat

VARIABLES
    page,             \* the page that is open, "send" or "nft"
    selected,        \* senderAssetType and receiverAssetType
    shown,           \* senderAssetCurrentBalance and receiverCurrentBalance
    fetches,         \* wallet 0: a query of the node; else a reader that waits for the wallet
    publicTransfer   \* a public transfer was signed or is being signed

formVars == <<page, selected, shown, fetches, publicTransfer>>
vars == <<walletVars, formVars>>

FormTypeOK ==
    /\ TypeOK
    /\ page \in {"send", "nft"}
    /\ selected \in [Side -> Type]
    /\ selected["sender"].asset = selected["receiver"].asset
    /\ shown \in [Side -> Type \cup {NoBalance}]
    /\ fetches \subseteq [side : Side, type : Type, wallet : 0 .. made]
    /\ publicTransfer \in BOOLEAN

FormInit ==
    /\ page \in {"send", "nft"}
    /\ \E a \in Asset : selected \in [Side -> [asset : {a}, isPrivate : BOOLEAN]]
    /\ shown = [side \in Side |-> NoBalance]
    /\ fetches = {}
    /\ publicTransfer = FALSE

BothPrivate == \A side \in Side : selected[side].isPrivate
BothPublic == \A side \in Side : ~selected[side].isPrivate

-----------------------------------------------------------------------------
(* The selection *)

\* a change of the asset: the control is disabled while a transaction is processing, but
\* the NFT page also resets its form whenever the user turns to another part of the page
MaySelectAsset == isProcessing => page = "nft"

Toggled(type) == [type EXCEPT !.isPrivate = ~@]

\* toggleSenderIsPrivate, toggleReceiverIsPrivate
Toggle(side) ==
    /\ ~isProcessing
    /\ selected' = [selected EXCEPT ![side] = Toggled(@)]
    /\ shown' = [shown EXCEPT ![side] = NoBalance]
    /\ UNCHANGED <<walletVars, page, fetches, publicTransfer>>

\* Mistake (FormTypeOK must notice): the receiver's asset stays as it was
SelectsForSender(a) ==
    /\ MaySelectAsset
    /\ selected' = [selected EXCEPT !["sender"].asset = a]
    /\ shown' = [side \in Side |-> NoBalance]
    /\ UNCHANGED <<walletVars, page, fetches, publicTransfer>>

\* setSelectedAssetType: an asset of the sender's options, which are as private as it is
SetSelectedAssetType(a) ==
    /\ MaySelectAsset
    /\ LET type == [selected["sender"] EXCEPT !.asset = a]
       IN selected' = [side \in Side |->
              IF selected[side].isPrivate = type.isPrivate THEN type ELSE Toggled(type)]
    /\ shown' = [side \in Side |-> NoBalance]
    /\ UNCHANGED <<walletVars, page, fetches, publicTransfer>>

-----------------------------------------------------------------------------
(* The balances *)

Shows(side, balance) ==
    /\ shown' = [shown EXCEPT ![side] = balance]
    /\ UNCHANGED fetches

Requests(side, wallet) ==
    /\ fetches' = fetches \cup {[side |-> side, type |-> selected[side], wallet |-> wallet]}
    /\ Cardinality(fetches') <= MaxFetches
    /\ UNCHANGED shown

\* getSpendableBalance, up to the end of waitForWallet
GetSpendableBalance(side) ==
    \/ (~isReady \/ balancesAreStale) /\ Shows(side, NoBalance)
    \/ isReady /\ ~balancesAreStale /\ walletIsBusy /\ Requests(side, sdk)
    \/ isReady /\ ~balancesAreStale /\ ~walletIsBusy /\ Shows(side, selected[side])

\* fetchPublicBalance, which knows no balance without an address or a connection
FetchPublicBalance(side) ==
    \/ Requests(side, 0)
    \/ Shows(side, NoBalance)

FetchSenderBalance ==
    /\ IF selected["sender"].isPrivate
       THEN ~isProcessing /\ GetSpendableBalance("sender")
       ELSE FetchPublicBalance("sender")
    /\ UNCHANGED <<walletVars, page, selected, publicTransfer>>

FetchReceiverBalance ==
    /\ \/ BothPrivate /\ Shows("receiver", NoBalance)
       \/ /\ ~BothPrivate /\ selected["receiver"].isPrivate /\ ~isProcessing
          /\ GetSpendableBalance("receiver")
       \/ ~selected["receiver"].isPrivate /\ FetchPublicBalance("receiver")
    /\ UNCHANGED <<walletVars, page, selected, publicTransfer>>

\* Mistake (BalancesAreOfSelection must notice): the same asset is good enough
AssetUpdateIsStale(side, type) == selected[side].asset # type.asset

balanceUpdateIsStale(side, type) == selected[side] # type

\* a balance arrives, the wallet's in the turn that finds it free; a query may also fail
BalanceArrives(f) ==
    /\ f.wallet # 0 => ~walletIsBusy
    /\ fetches' = fetches \ {f}
    /\ \/ /\ ~balanceUpdateIsStale(f.side, f.type)
          /\ shown' = [shown EXCEPT ![f.side] = f.type]
       \/ /\ f.wallet = 0 \/ balanceUpdateIsStale(f.side, f.type)
          /\ UNCHANGED shown
    /\ UNCHANGED <<walletVars, page, selected, publicTransfer>>

-----------------------------------------------------------------------------
(* Transactions *)

\* isValidToSend, which the NFT page leaves out
ValidToSend == page = "send" => shown["sender"] # NoBalance

\* toPrivate, toPublic, privateTransfer
SendPrivately ==
    /\ ~BothPublic /\ ValidToSend
    /\ Send(IF page = "nft" /\ BothPrivate THEN "nft" ELSE "send")
    /\ UNCHANGED formVars

\* The NFT page sends a form without an amount.  toPrivateNFT notices only when it has
\* taken the wallet, whatever else the form asks for fails before.
SendEmpty ==
    /\ page = "nft" /\ isReady /\ ~isProcessing
    /\ IF ~selected["sender"].isPrivate /\ selected["receiver"].isPrivate
       THEN Send("empty")
       ELSE /\ txStatus' = "failed"
            /\ UNCHANGED <<connection, walletIsBusy, balancesAreStale, calls, waiting, ghosts>>
    /\ UNCHANGED formVars

\* publicTransfer needs no wallet, only that the button finds the signer connected; that
\* of the NFT page goes through the SDK
SendPublicly ==
    /\ ~isProcessing /\ signerIsConnected
    /\ page = "nft" => sdk # 0
    /\ BothPublic /\ ValidToSend
    /\ publicTransfer' = TRUE
    /\ txStatus' = "processing"
    /\ UNCHANGED <<connection, walletIsBusy, balancesAreStale, calls, waiting, ghosts,
                   page, selected, shown, fetches>>

\* handleTxRes, and the rejection of signAndSend.  A transaction that is never included
\* is never heard of again.  The NFT page has no handler: it takes what was submitted to be
\* final, and its balances to be fresh.
PublicTransferEnds ==
    /\ publicTransfer
    /\ publicTransfer' = FALSE
    /\ \/ /\ txStatus' = "finalized"
          /\ balancesAreStale' = (page = "send" \/ balancesAreStale)
       \/ /\ txStatus' = "failed"
          /\ UNCHANGED balancesAreStale
    /\ UNCHANGED <<connection, walletIsBusy, calls, waiting, ghosts, page, selected, shown,
                   fetches>>

-----------------------------------------------------------------------------

Init == WalletInit /\ FormInit

Next ==
    \/ WalletTurn /\ UNCHANGED formVars
    \/ \E side \in Side : Toggle(side)
    \/ \E a \in Asset : SetSelectedAssetType(a)
    \/ FetchSenderBalance
    \/ FetchReceiverBalance
    \/ \E f \in fetches : BalanceArrives(f)
    \/ SendPrivately
    \/ SendEmpty
    \/ SendPublicly
    \/ PublicTransferEnds

\* The interval of sync and the polling of waitForWallet go on, and the signer and the
\* node answer a sync and a transaction in the end, if only with an error.  Nothing is
\* assumed of initialisations, of balances and of public transfers.
Fairness ==
    /\ WF_vars(Sync /\ UNCHANGED formVars)
    /\ WF_vars(WaitEnds /\ UNCHANGED formVars)
    /\ WF_vars(\E c \in calls : SyncEnds(c) /\ UNCHANGED formVars)
    /\ WF_vars(\E c \in calls : SendEnds(c) /\ UNCHANGED formVars)

Spec == Init /\ [][Next]_vars /\ Fairness
=============================================================================
