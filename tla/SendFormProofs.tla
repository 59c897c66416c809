---------------------------- MODULE SendFormProofs ----------------------------
(***************************************************************************)
(* The flag each function of the private wallet sets for itself does keep  *)
(* the calls apart, and the ones that show a balance may trust it, for any *)
(* number of wallets, assets and balances under way.  What the promises    *)
(* rest on: whoever has the flag is the only one to run a sync or a        *)
(* transaction, a wallet that is initialised is known to nobody else, and  *)
(* nothing is reported as finalized while a sync runs.                     *)
(***************************************************************************)
EXTENDS SendFormProperties, TLAPS

Occupies(c) == c.kind \in {"sync", "send"}

\* the flag is set exactly while one call that sets it runs, or for good
FlagIsTrue ==
    /\ \A c, d \in calls : Occupies(c) /\ Occupies(d) => c = d
    /\ walletIsBusy <=> flagIsLost \/ \E c \in calls : Occupies(c)
    /\ flagIsLost => ~ \E c \in calls : Occupies(c)

\* wallets that something other than an initialisation knows
Known ==
    {sdk, syncedSdk} \cup {w.wallet : w \in waiting} \cup {f.wallet : f \in fetches}
    \cup {c.wallet : c \in {d \in calls : d.kind # "restart"}}

RestartsAreApart ==
    /\ \A c \in calls : c.kind = "restart" => c.wallet \notin Known
    /\ Known \subseteq 0 .. made
    /\ \A c \in calls : c.wallet \in 1 .. made

SyncsMissNothing ==
    /\ FreshAfterSync
    /\ (\E c \in calls : c.kind = "sync") => ~missed

IInv ==
    /\ FormTypeOK
    /\ FlagIsTrue
    /\ RestartsAreApart
    /\ SyncsMissNothing
    /\ BalancesAreOfSelection

LEMMA InitInv == Init => IInv
<1> SUFFICES ASSUME Init PROVE IInv
    OBVIOUS
<1>1. FormTypeOK
    <2>a. made \in 0 .. MaxWallets /\ sdk \in 0 .. made /\ syncedSdk \in 0 .. made
        BY WalletConstants DEF Init, WalletInit
    <2>1. TypeOK
        BY <2>a DEF Init, WalletInit, TypeOK
    <2>2. selected \in [Side -> Type] /\ selected["sender"].asset = selected["receiver"].asset
        BY DEF Init, FormInit, Side, Type
    <2> QED BY <2>1, <2>2 DEF Init, FormInit, FormTypeOK
<1>2. FlagIsTrue /\ RestartsAreApart /\ SyncsMissNothing
    BY DEF Init, WalletInit, FormInit, FlagIsTrue, RestartsAreApart, Known,
           SyncsMissNothing, FreshAfterSync
<1>3. BalancesAreOfSelection
    BY DEF Init, FormInit, BalancesAreOfSelection
<1> QED BY <1>1, <1>2, <1>3 DEF IInv
-----------------------------------------------------------------------------
(* What a turn of the wallet leaves of each part *)

USE DEF connection, ghosts, walletVars, formVars, vars

\* An empty form that fails before it has taken the wallet.
SendsNothing ==
    /\ txStatus' = "failed"
    /\ UNCHANGED <<connection, walletIsBusy, balancesAreStale, calls, waiting, ghosts>>

\* What a press of the button for private transactions comes to.
LEMMA PrivateSends ==
    ASSUME SendPrivately \/ SendEmpty
    PROVE  /\ SendsNothing \/ \E kind \in Transaction : Send(kind)
           /\ UNCHANGED formVars
BY DEF SendPrivately, SendEmpty, SendsNothing, Transaction

LEMMA CallTyped ==
    /\ \A kind \in {"restart", "sync", "send", "nft"}, w \in Wallet :
        [kind |-> kind, wallet |-> w] \in Call
    /\ \A c \in Call : c.kind \in {"restart", "sync", "send", "nft"} /\ c.wallet \in Wallet
BY DEF Call

LEMMA WalletTyped ==
    ASSUME TypeOK, RestartsAreApart, WalletTurn
    PROVE  TypeOK'
<1> USE WalletConstants
<1>1. CASE SignerComesOrGoes
    BY <1>1 DEF SignerComesOrGoes, TypeOK
<1>2. CASE FetchSignerVersion
    <2>1. made' \in 0 .. MaxWallets /\ made' >= made /\ sdk' \in {0, sdk}
          /\ syncedSdk' \in {0, syncedSdk, sdk}
        BY <1>2 DEF FetchSignerVersion, Rendered, CanInitWallet, TypeOK
    <2>2. made' \in 0 .. MaxWallets /\ sdk' \in 0 .. made' /\ syncedSdk' \in 0 .. made'
        BY <2>1 DEF TypeOK
    <2>3. calls' \subseteq Call
        <3>1. CanInitWallet => made + 1 \in Wallet
            BY DEF CanInitWallet, TypeOK, Wallet
        <3>2. calls' \subseteq calls
                  \cup {[kind |-> "restart", wallet |-> w] : w \in Wallet}
            BY <1>2, <3>1 DEF FetchSignerVersion
        <3> QED BY <3>2, CallTyped DEF TypeOK
    <2>4. signerIsConnected' \in BOOLEAN /\ isInitialSync' \in BOOLEAN
        BY <1>2 DEF FetchSignerVersion, Rendered, TypeOK
    <2> QED BY <1>2, <2>2, <2>3, <2>4 DEF FetchSignerVersion, TypeOK
<1>3. CASE Sync
    <2>1. syncedSdk \in Wallet
        BY <1>3 DEF Sync, MaySync, TypeOK, Wallet
    <2>2. [kind |-> "sync", wallet |-> syncedSdk] \in Call
        BY <2>1, CallTyped
    <2> QED BY <1>3, <2>2 DEF Sync, TypeOK
<1>4. CASE WaitEnds
    BY <1>4, CallTyped DEF WaitEnds, Begins, Calls, Reported, TypeOK
<1>5. ASSUME NEW c \in calls, InitWalletEnds(c)
      PROVE  TypeOK'
    <2>1. c.wallet \in 0 .. made
        BY CallTyped DEF RestartsAreApart, TypeOK, Wallet
    <2>2. sdk' \in {sdk, c.wallet} /\ syncedSdk' \in {0, syncedSdk, c.wallet}
        BY <1>5 DEF InitWalletEnds, Rendered
    <2>3. 0 \in 0 .. made /\ sdk \in 0 .. made /\ syncedSdk \in 0 .. made
        BY DEF TypeOK
    <2>4. sdk' \in 0 .. made /\ syncedSdk' \in 0 .. made
        BY <2>1, <2>2, <2>3
    <2>5. signerIsConnected' \in BOOLEAN /\ isInitialSync' \in BOOLEAN
        BY <1>5 DEF InitWalletEnds, Rendered, TypeOK
    <2> QED BY <1>5, <2>4, <2>5 DEF InitWalletEnds, TypeOK
<1>6. ASSUME NEW c \in calls, SyncEnds(c)
      PROVE  TypeOK'
    BY <1>6 DEF SyncEnds, TypeOK
<1>7. ASSUME NEW c \in calls, SendEnds(c)
      PROVE  TypeOK'
    BY <1>7 DEF SendEnds, Reported, TypeOK
<1>8. ASSUME NEW c \in calls, NftEnds(c)
      PROVE  TypeOK'
    BY <1>8 DEF NftEnds, TypeOK
<1> QED BY <1>1, <1>2, <1>3, <1>4, <1>5, <1>6, <1>7, <1>8 DEF WalletTurn

\* A transaction that the page starts, at once or when the wallet is free.
LEMMA SendTyped ==
    ASSUME TypeOK, NEW kind \in Transaction, Send(kind)
    PROVE  TypeOK'
<1>1. sdk \in Wallet
    BY WalletConstants DEF Send, isReady, TypeOK, Wallet
<1>2. kind # "empty" => [kind |-> kind, wallet |-> sdk] \in Call
    BY <1>1, CallTyped DEF Transaction
<1>3. calls' \subseteq Call
    BY <1>2 DEF Send, Begins, Calls, Reported, TypeOK
<1>4. waiting' \subseteq [kind : Transaction, wallet : Wallet]
      /\ \A w, x \in waiting' : w = x
    BY <1>1 DEF Send, TypeOK
<1> QED BY <1>3, <1>4 DEF Send, Begins, Calls, Reported, TypeOK

-----------------------------------------------------------------------------
(* The flag *)

LEMMA FlagStays ==
    ASSUME FlagIsTrue, walletIsBusy' = walletIsBusy, flagIsLost' = flagIsLost,
           \A c : Occupies(c) => (c \in calls' <=> c \in calls)
    PROVE  FlagIsTrue'
BY DEF FlagIsTrue

LEMMA FlagTaken ==
    ASSUME FlagIsTrue, ~walletIsBusy, walletIsBusy' = TRUE, flagIsLost' = flagIsLost,
           NEW kind \in {"sync", "send"}, NEW w, calls' = calls \cup {[kind |-> kind, wallet |-> w]}
    PROVE  FlagIsTrue'
<1> DEFINE x == [kind |-> kind, wallet |-> w]
<1>1. Occupies(x) /\ x \in calls'
    BY DEF Occupies
<1>2. ~flagIsLost /\ \A c \in calls : ~Occupies(c)
    BY DEF FlagIsTrue
<1>3. \A c \in calls' : Occupies(c) => c = x
    BY <1>2
<1> HIDE DEF x
<1>4. \A c, d \in calls' : Occupies(c) /\ Occupies(d) => c = d
    BY <1>3
<1> QED BY <1>1, <1>2, <1>4 DEF FlagIsTrue

LEMMA FlagFreed ==
    ASSUME FlagIsTrue, NEW c \in calls, Occupies(c), calls' = calls \ {c},
           walletIsBusy' = FALSE, flagIsLost' = flagIsLost
    PROVE  FlagIsTrue'
<1>1. \A d \in calls' : d \in calls /\ ~Occupies(d)
    BY DEF FlagIsTrue
<1>2. ~flagIsLost /\ ~ \E d \in calls' : Occupies(d)
    BY <1>1 DEF FlagIsTrue
<1> QED BY <1>1, <1>2 DEF FlagIsTrue

LEMMA BeginsKeepsFlag ==
    ASSUME FlagIsTrue, ~walletIsBusy, NEW kind, NEW w, Begins(kind, w)
    PROVE  FlagIsTrue'
<1>1. CASE kind = "nft"
    BY <1>1, FlagStays DEF Begins, Calls, Reported, Occupies
<1>2. CASE kind = "send"
    BY <1>2, FlagTaken DEF Begins, Calls
<1>3. CASE kind = "empty"
    BY <1>3 DEF Begins, FlagIsTrue
<1> QED BY <1>1, <1>2, <1>3 DEF Begins

LEMMA FlagKept ==
    ASSUME IInv, [Next]_vars
    PROVE  FlagIsTrue'
<1> FlagIsTrue
    BY DEF IInv
<1>1. CASE FetchSignerVersion
    <2>1. \/ calls' = calls
          \/ calls' = calls \cup {[kind |-> "restart", wallet |-> made + 1]}
        BY <1>1 DEF FetchSignerVersion
    <2>2. ~Occupies([kind |-> "restart", wallet |-> made + 1])
        BY DEF Occupies
    <2>3. \A c : Occupies(c) => (c \in calls' <=> c \in calls)
        BY <2>1, <2>2
    <2> QED BY <1>1, <2>3, FlagStays DEF FetchSignerVersion
<1>2. CASE Sync
    BY <1>2, FlagTaken DEF Sync, MaySync
<1>3. CASE WaitEnds
    <2> PICK w \in waiting : Begins(w.kind, w.wallet)
        BY <1>3 DEF WaitEnds
    <2> QED BY <1>3, BeginsKeepsFlag DEF WaitEnds
<1>4. ASSUME NEW c \in calls, InitWalletEnds(c) \/ NftEnds(c)
      PROVE  FlagIsTrue'
    BY <1>4, FlagStays DEF InitWalletEnds, NftEnds, Occupies
<1>5. ASSUME NEW c \in calls, SyncEnds(c) \/ SendEnds(c)
      PROVE  FlagIsTrue'
    BY <1>5, FlagFreed DEF SyncEnds, SendEnds, Reported, Occupies
<1>6. ASSUME NEW kind \in Transaction, Send(kind)
      PROVE  FlagIsTrue'
    <2>1. CASE walletIsBusy
        BY <1>6, <2>1, FlagStays DEF Send, MustWait
    <2>2. CASE ~walletIsBusy
        BY <1>6, <2>2, BeginsKeepsFlag DEF Send, MustWait
    <2> QED BY <2>1, <2>2
<1>7. CASE UNCHANGED <<calls, walletIsBusy, flagIsLost>>
    BY <1>7, FlagStays
<1>8. CASE SendPrivately \/ SendEmpty
    BY <1>6, <1>7, <1>8, PrivateSends DEF SendsNothing
<1> QED
    BY <1>1, <1>2, <1>3, <1>4, <1>5, <1>7, <1>8
       DEF Next, WalletTurn, SignerComesOrGoes, Toggle, SetSelectedAssetType,
           FetchSenderBalance, FetchReceiverBalance, BalanceArrives, SendPublicly,
           PublicTransferEnds
-----------------------------------------------------------------------------
(* Wallets that are initialised *)

LEMMA KnownHas ==
    /\ sdk \in Known /\ syncedSdk \in Known
    /\ \A w \in waiting : w.wallet \in Known
    /\ \A f \in fetches : f.wallet \in Known
    /\ \A c \in calls : c.kind # "restart" => c.wallet \in Known
BY DEF Known

\* N: what becomes known besides what was
LEMMA KnownGrows ==
    ASSUME NEW N, 0 \in N,
           sdk' \in Known \cup N, syncedSdk' \in Known \cup N,
           \A w \in waiting' : w \in waiting \/ w.wallet \in Known,
           \A f \in fetches' : f \in fetches \/ f.wallet \in Known \cup N,
           \A c \in calls' : c \in calls \/ c.kind = "restart" \/ c.wallet \in Known
    PROVE  Known' \subseteq Known \cup N
<1>1. \A w \in waiting' : w.wallet \in Known
    BY KnownHas
<1>2. \A f \in fetches' : f.wallet \in Known \cup N
    BY KnownHas
<1>3. \A c \in calls' : c.kind # "restart" => c.wallet \in Known
    BY KnownHas
<1> HIDE DEF Known
<1>4. SUFFICES ASSUME NEW w \in Known' PROVE w \in Known \cup N
    OBVIOUS
<1>5. \/ w = sdk' \/ w = syncedSdk' \/ \E x \in waiting' : w = x.wallet
      \/ \E f \in fetches' : w = f.wallet
      \/ \E c \in calls' : c.kind # "restart" /\ w = c.wallet
    BY DEF Known
<1> QED BY <1>1, <1>2, <1>3, <1>5

LEMMA ApartStays ==
    ASSUME RestartsAreApart, made \in Nat, made' \in Nat, made' >= made,
           NEW N \in SUBSET (0 .. made'), Known' \subseteq Known \cup N,
           \A c \in calls' : c.wallet \in 1 .. made',
           \A c \in calls' : c.kind = "restart" =>
               c.wallet \notin N /\ (c \in calls \/ c.wallet \notin Known)
    PROVE  RestartsAreApart'
<1>1. Known' \subseteq 0 .. made'
    <2>1. 0 .. made \subseteq 0 .. made'
        OBVIOUS
    <2> QED BY <2>1 DEF RestartsAreApart
<1>2. \A c \in calls' : c.kind = "restart" => c.wallet \notin Known'
    BY DEF RestartsAreApart
<1> QED BY <1>1, <1>2 DEF RestartsAreApart

\* most turns start no initialisation and know nothing new
LEMMA ApartUnlessNew ==
    ASSUME RestartsAreApart, made \in Nat, made' = made,
           sdk' \in Known \cup {0}, syncedSdk' \in Known \cup {0},
           \A w \in waiting' : w \in waiting \/ w.wallet \in Known,
           \A f \in fetches' : f \in fetches \/ f.wallet \in Known \cup {0},
           \A c \in calls' : c \in calls \/ (c.kind # "restart" /\ c.wallet \in Known \ {0})
    PROVE  RestartsAreApart'
<1> DEFINE N == {0}
<1>1. \A c \in calls' : c.wallet \in 1 .. made'
    <2>1. \A w \in Known \ {0} : w \in 1 .. made
        BY DEF RestartsAreApart
    <2> QED BY <2>1 DEF RestartsAreApart
<1>2. \A c \in calls' : c.kind = "restart" =>
        c.wallet \notin N /\ (c \in calls \/ c.wallet \notin Known)
    BY <1>1
<1>3. N \in SUBSET (0 .. made')
    OBVIOUS
<1>4. 0 \in N /\ sdk' \in Known \cup N /\ syncedSdk' \in Known \cup N
      /\ \A f \in fetches' : f \in fetches \/ f.wallet \in Known \cup N
    OBVIOUS
<1> HIDE DEF N
<1>5. Known' \subseteq Known \cup N
    BY <1>4, KnownGrows
<1> QED BY <1>1, <1>2, <1>3, <1>5, ApartStays

LEMMA ApartAfterVersion ==
    ASSUME IInv, FetchSignerVersion, fetches' = fetches
    PROVE  RestartsAreApart'
<1> DEFINE new == [kind |-> "restart", wallet |-> made + 1]
           N == {0}
<1>a. RestartsAreApart /\ TypeOK /\ made \in Nat
    BY DEF IInv, FormTypeOK, TypeOK
<1>1. /\ sdk' \in {0, sdk} /\ syncedSdk' \in {0, syncedSdk, sdk} /\ waiting' = waiting
      /\ \/ made' = made /\ calls' = calls
         \/ made' = made + 1 /\ calls' = calls \cup {new}
    BY DEF FetchSignerVersion, Rendered
<1>2. new.wallet = made + 1 /\ new.kind = "restart" /\ made + 1 \notin Known
    BY <1>a DEF RestartsAreApart
<1> HIDE DEF new
<1>3. 0 \in N /\ sdk' \in Known \cup N /\ syncedSdk' \in Known \cup N
      /\ \A c \in calls' : c \in calls \/ c.kind = "restart"
    BY <1>1, <1>2, KnownHas
<1>4. \A c \in calls' : c.wallet \in 1 .. made'
    BY <1>a, <1>1, <1>2 DEF RestartsAreApart
<1>5. \A c \in calls' : c.kind = "restart" =>
        c.wallet \notin N /\ (c \in calls \/ c.wallet \notin Known)
    BY <1>1, <1>2, <1>4
<1>6. made' \in Nat /\ made' >= made /\ N \in SUBSET (0 .. made')
    BY <1>a, <1>1
<1> HIDE DEF N
<1>7. Known' \subseteq Known \cup N
    BY <1>1, <1>3, KnownGrows
<1> QED BY <1>a, <1>4, <1>5, <1>6, <1>7, ApartStays

LEMMA ApartAfterInit ==
    ASSUME IInv, NEW c \in calls, InitWalletEnds(c), fetches' = fetches
    PROVE  RestartsAreApart'
<1> DEFINE N == {0, c.wallet}
<1>a. RestartsAreApart /\ TypeOK /\ made \in Nat
    BY DEF IInv, FormTypeOK, TypeOK
<1>1. /\ sdk' \in {sdk, c.wallet} /\ syncedSdk' \in {0, syncedSdk, c.wallet}
      /\ waiting' = waiting /\ made' = made /\ calls' = calls \ {c} /\ c.kind = "restart"
    BY DEF InitWalletEnds, Rendered
<1>2. 0 \in N /\ sdk' \in Known \cup N /\ syncedSdk' \in Known \cup N
    BY <1>1, KnownHas
<1>3. \A d \in calls' : d.wallet \in 1 .. made'
    BY <1>a, <1>1 DEF RestartsAreApart
<1>4. \A d \in calls' : d.kind = "restart" => d.wallet # c.wallet
    BY <1>a, <1>1 DEF TypeOK, Call
<1>5. N \in SUBSET (0 .. made')
    BY <1>a, <1>1 DEF RestartsAreApart
<1>6. \A d \in calls' : d.kind = "restart" =>
        d.wallet \notin N /\ (d \in calls \/ d.wallet \notin Known)
    BY <1>1, <1>3, <1>4
<1> HIDE DEF N
<1>7. Known' \subseteq Known \cup N
    BY <1>1, <1>2, KnownGrows
<1> QED BY <1>a, <1>1, <1>3, <1>5, <1>6, <1>7, ApartStays

LEMMA ApartKept ==
    ASSUME IInv, [Next]_vars
    PROVE  RestartsAreApart'
<1>a. RestartsAreApart /\ TypeOK /\ made \in Nat
    BY DEF IInv, FormTypeOK, TypeOK
<1>1. CASE WalletTurn /\ UNCHANGED formVars
    <2>1. CASE FetchSignerVersion
        BY <1>1, <2>1, ApartAfterVersion
    <2>2. ASSUME NEW c \in calls, InitWalletEnds(c)
          PROVE  RestartsAreApart'
        BY <1>1, <2>2, ApartAfterInit
    <2>3. CASE Sync
        <3>1. syncedSdk \in Known \ {0}
            BY <2>3, KnownHas DEF Sync, MaySync
        <3> QED BY <1>a, <1>1, <2>3, <3>1, KnownHas, ApartUnlessNew DEF Sync
    <2>4. CASE WaitEnds
        <3> PICK w \in waiting : Begins(w.kind, w.wallet) /\ waiting' = waiting \ {w}
            BY <2>4 DEF WaitEnds
        <3>1. w.kind # "restart" /\ w.wallet \in Known \ {0}
            BY <1>a, KnownHas DEF TypeOK, Wallet, Transaction
        <3>2. \A c \in calls' : c \in calls \/ (c.kind # "restart" /\ c.wallet \in Known \ {0})
            BY <3>1 DEF Begins, Calls
        <3>3. UNCHANGED <<made, sdk, syncedSdk, fetches>>
            BY <1>1, <2>4 DEF WaitEnds
        <3> QED BY <1>a, <3>2, <3>3, KnownHas, ApartUnlessNew
    <2>5. ASSUME NEW c \in calls, SyncEnds(c) \/ SendEnds(c) \/ NftEnds(c)
          PROVE  RestartsAreApart'
        BY <1>a, <1>1, <2>5, KnownHas, ApartUnlessNew DEF SyncEnds, SendEnds, NftEnds
    <2>6. CASE SignerComesOrGoes
        BY <1>a, <1>1, <2>6, KnownHas, ApartUnlessNew DEF SignerComesOrGoes
    <2> QED BY <1>1, <2>1, <2>2, <2>3, <2>4, <2>5, <2>6 DEF WalletTurn
<1>2. ASSUME NEW kind \in Transaction, Send(kind), UNCHANGED formVars
      PROVE  RestartsAreApart'
    <2>1. sdk \in Known \ {0} /\ UNCHANGED <<made, sdk, syncedSdk, fetches>>
        BY <1>2, KnownHas DEF Send, isReady
    <2>2. \A c \in calls' : c \in calls \/ (c.kind # "restart" /\ c.wallet \in Known \ {0})
        BY <1>2, <2>1 DEF Send, Begins, Calls
    <2>3. \A w \in waiting' : w \in waiting \/ w.wallet \in Known
        BY <1>2, <2>1 DEF Send
    <2> QED BY <1>a, <2>1, <2>2, <2>3, KnownHas, ApartUnlessNew
<1>3. CASE UNCHANGED <<made, sdk, syncedSdk, waiting, calls>>
           /\ \A f \in fetches' : f \in fetches \/ f.wallet \in {0, sdk}
    BY <1>a, <1>3, KnownHas, ApartUnlessNew
<1>4. CASE FetchSenderBalance \/ FetchReceiverBalance
    BY <1>3, <1>4 DEF FetchSenderBalance, FetchReceiverBalance, GetSpendableBalance,
                      FetchPublicBalance, Shows, Requests
<1>5. CASE \E f \in fetches : BalanceArrives(f)
    BY <1>3, <1>5 DEF BalanceArrives
<1>6. CASE SendPrivately \/ SendEmpty
    BY <1>2, <1>3, <1>6, PrivateSends DEF SendsNothing
<1> QED
    BY <1>1, <1>3, <1>4, <1>5, <1>6
       DEF Next, Toggle, SetSelectedAssetType, SendPublicly, PublicTransferEnds
-----------------------------------------------------------------------------
(* The syncs and the balances *)

\* a transaction is reported when no sync runs
LEMMA ReportedMissesNothing ==
    ASSUME ~ \E c \in calls' : c.kind = "sync", Reported
    PROVE  SyncsMissNothing'
BY DEF Reported, SyncsMissNothing, FreshAfterSync

LEMMA SyncsKept ==
    ASSUME IInv, [Next]_vars
    PROVE  SyncsMissNothing'
<1>a. SyncsMissNothing /\ FlagIsTrue /\ TypeOK
    BY DEF IInv, FormTypeOK
<1>b. \A c \in calls : c.kind = "sync" => walletIsBusy
    BY <1>a DEF FlagIsTrue, Occupies
<1>1. CASE Sync
    <2>1. balancesAreStale' = balancesAreStale /\ unsynced' = unsynced /\ missed' = FALSE
        BY <1>1 DEF Sync
    <2> QED BY <1>a, <2>1 DEF SyncsMissNothing, FreshAfterSync
<1>2. ASSUME NEW c \in calls, SyncEnds(c)
      PROVE  SyncsMissNothing'
    <2>1. ~missed
        BY <1>a, <1>2 DEF SyncEnds, SyncsMissNothing
    <2>2. unsynced' = FALSE /\ missed' = missed
        BY <1>a, <1>2, <2>1 DEF SyncEnds, TypeOK
    <2> QED BY <2>1, <2>2 DEF SyncsMissNothing, FreshAfterSync
<1>3. ASSUME NEW kind, NEW w, ~walletIsBusy, Begins(kind, w)
      PROVE  SyncsMissNothing'
    <2>1. ~ \E c \in calls' : c.kind = "sync"
        BY <1>b, <1>3 DEF Begins, Calls
    <2>2. CASE kind = "nft"
        BY <1>3, <2>1, <2>2, ReportedMissesNothing DEF Begins
    <2>3. CASE kind \in {"send", "empty"}
        BY <1>a, <1>3, <2>1, <2>3 DEF Begins, SyncsMissNothing, FreshAfterSync
    <2> QED BY <1>3, <2>2, <2>3 DEF Begins
<1>4. CASE WaitEnds
    BY <1>a, <1>3, <1>4 DEF WaitEnds, TypeOK
<1>5. ASSUME NEW c \in calls, SendEnds(c)
      PROVE  SyncsMissNothing'
    <2>1. ~ \E d \in calls' : d.kind = "sync"
        BY <1>a, <1>5 DEF SendEnds, FlagIsTrue, Occupies
    <2>2. CASE Reported
        BY <2>1, <2>2, ReportedMissesNothing
    <2>3. CASE UNCHANGED <<balancesAreStale, unsynced, missed>>
        BY <1>a, <2>1, <2>3 DEF SyncsMissNothing, FreshAfterSync
    <2> QED BY <1>5, <2>2, <2>3 DEF SendEnds
<1>6. ASSUME NEW kind \in Transaction, Send(kind)
      PROVE  SyncsMissNothing'
    <2>1. CASE walletIsBusy
        BY <1>a, <1>6, <2>1 DEF Send, MustWait, SyncsMissNothing, FreshAfterSync
    <2>2. CASE ~walletIsBusy
        BY <1>3, <1>6, <2>2 DEF Send, MustWait
    <2> QED BY <2>1, <2>2
<1>7. CASE /\ \A c \in calls' : c.kind = "sync" => c \in calls
           /\ balancesAreStale' \in {balancesAreStale, TRUE}
           /\ UNCHANGED ghosts
    <2>1. ~balancesAreStale' => ~balancesAreStale
        BY <1>7
    <2> QED BY <1>a, <1>7, <2>1 DEF SyncsMissNothing, FreshAfterSync
<1>8. CASE FetchSignerVersion
    <2>1. \/ calls' = calls
          \/ calls' = calls \cup {[kind |-> "restart", wallet |-> made + 1]}
        BY <1>8 DEF FetchSignerVersion
    <2> QED BY <1>7, <1>8, <2>1 DEF FetchSignerVersion
<1>9. CASE PublicTransferEnds
    BY <1>a, <1>7, <1>9 DEF PublicTransferEnds, TypeOK
<1>10. ASSUME NEW c \in calls, InitWalletEnds(c) \/ NftEnds(c)
       PROVE  SyncsMissNothing'
    BY <1>7, <1>10 DEF InitWalletEnds, NftEnds
<1>11. CASE SendPrivately \/ SendEmpty
    BY <1>6, <1>7, <1>11, PrivateSends DEF SendsNothing
<1> QED
    BY <1>1, <1>2, <1>4, <1>5, <1>7, <1>8, <1>9, <1>10, <1>11
       DEF Next, WalletTurn, SignerComesOrGoes, Toggle, SetSelectedAssetType,
           FetchSenderBalance, FetchReceiverBalance, BalanceArrives, SendPublicly

LEMMA BalancesKept ==
    ASSUME IInv, [Next]_vars
    PROVE  BalancesAreOfSelection'
<1>a. BalancesAreOfSelection /\ shown \in [Side -> Type \cup {NoBalance}]
      /\ selected \in [Side -> Type]
    BY DEF IInv, FormTypeOK
<1>1. ASSUME NEW side \in Side, Toggle(side)
      PROVE  BalancesAreOfSelection'
    BY <1>a, <1>1 DEF Toggle, BalancesAreOfSelection
<1>2. ASSUME NEW a \in Asset, SetSelectedAssetType(a)
      PROVE  BalancesAreOfSelection'
    BY <1>2 DEF SetSelectedAssetType, BalancesAreOfSelection
<1>3. ASSUME NEW side \in Side, NEW balance \in {NoBalance, selected[side]},
             Shows(side, balance), selected' = selected
      PROVE  BalancesAreOfSelection'
    BY <1>a, <1>3 DEF Shows, BalancesAreOfSelection
<1>4. CASE UNCHANGED <<selected, shown>>
    BY <1>a, <1>4 DEF BalancesAreOfSelection
<1>5. "sender" \in Side /\ "receiver" \in Side
    BY DEF Side
<1>6. CASE FetchSenderBalance \/ FetchReceiverBalance
    BY <1>3, <1>4, <1>5, <1>6
       DEF FetchSenderBalance, FetchReceiverBalance, GetSpendableBalance, FetchPublicBalance,
           Requests
<1>7. ASSUME NEW f \in fetches, BalanceArrives(f)
      PROVE  BalancesAreOfSelection'
    BY <1>a, <1>7 DEF BalanceArrives, balanceUpdateIsStale, BalancesAreOfSelection
<1> QED
    BY <1>1, <1>2, <1>4, <1>6, <1>7
       DEF Next, SendPrivately, SendEmpty, SendPublicly, PublicTransferEnds

LEMMA FormTyped ==
    ASSUME IInv, [Next]_vars
    PROVE  FormTypeOK'
<1>a. FormTypeOK /\ TypeOK /\ RestartsAreApart /\ "sender" \in Side /\ "receiver" \in Side
    BY DEF IInv, FormTypeOK, Side
<1> DEFINE Fetch == [side : Side, type : Type, wallet : 0 .. made]
           SelectedOK == selected \in [Side -> Type]
                         /\ selected["sender"].asset = selected["receiver"].asset
<1>1. TypeOK'
    <2>1. CASE WalletTurn
        BY <1>a, <2>1, WalletTyped
    <2>2. CASE SendPrivately \/ SendEmpty
        <3>1. CASE SendsNothing
            BY <1>a, <3>1 DEF SendsNothing, TypeOK
        <3> QED BY <1>a, <2>2, <3>1, PrivateSends, SendTyped
    <2>3. CASE SendPublicly \/ PublicTransferEnds
        BY <1>a, <2>3 DEF SendPublicly, PublicTransferEnds, TypeOK
    <2>4. CASE UNCHANGED walletVars
        BY <1>a, <2>4 DEF TypeOK
    <2> QED
        BY <2>1, <2>2, <2>3, <2>4
           DEF Next, Toggle, SetSelectedAssetType, FetchSenderBalance, FetchReceiverBalance,
               BalanceArrives
<1>2. SelectedOK'
    <2>1. ASSUME NEW side \in Side, Toggle(side)
          PROVE  SelectedOK'
        <3>1. \A t \in Type : Toggled(t) \in Type /\ Toggled(t).asset = t.asset
            BY DEF Toggled, Type
        <3> QED BY <1>a, <2>1, <3>1 DEF Toggle, FormTypeOK
    <2>2. ASSUME NEW a \in Asset, SetSelectedAssetType(a)
          PROVE  SelectedOK'
        <3> DEFINE type == [selected["sender"] EXCEPT !.asset = a]
        <3>1. type \in Type /\ type.asset = a
            BY <1>a DEF FormTypeOK, Type
        <3>2. Toggled(type) \in Type /\ Toggled(type).asset = a
            BY <3>1 DEF Toggled, Type
        <3>3. selected' = [side \in Side |->
                  IF selected[side].isPrivate = type.isPrivate THEN type ELSE Toggled(type)]
            BY <2>2 DEF SetSelectedAssetType
        <3> HIDE DEF type
        <3> QED BY <1>a, <3>1, <3>2, <3>3
    <2>3. CASE UNCHANGED selected
        BY <1>a, <2>3 DEF FormTypeOK
    <2> QED
        BY <2>1, <2>2, <2>3
           DEF Next, FetchSenderBalance, FetchReceiverBalance, BalanceArrives, SendPrivately,
               SendEmpty, SendPublicly, PublicTransferEnds
<1>3. shown' \in [Side -> Type \cup {NoBalance}]
    <2> DEFINE New == {NoBalance} \cup {selected[side] : side \in Side}
                        \cup {f.type : f \in fetches}
    <2>1. New \subseteq Type \cup {NoBalance}
        BY <1>a DEF FormTypeOK
    <2>2. \/ shown' = shown
          \/ shown' = [side \in Side |-> NoBalance]
          \/ \E side \in Side, balance \in New : shown' = [shown EXCEPT ![side] = balance]
        BY <1>a DEF Next, Toggle, SetSelectedAssetType, FetchSenderBalance,
            FetchReceiverBalance, GetSpendableBalance, FetchPublicBalance, Shows, Requests,
            BalanceArrives, SendPrivately, SendEmpty, SendPublicly, PublicTransferEnds, FormTypeOK
    <2> HIDE DEF New
    <2> QED BY <1>a, <2>1, <2>2 DEF FormTypeOK
<1>4. fetches' \subseteq Fetch'
    <2>a. CASE WalletTurn /\ UNCHANGED formVars
        <3>1. made' = made \/ made' = made + 1
            BY <2>a DEF WalletTurn, SignerComesOrGoes, FetchSignerVersion, Sync, WaitEnds,
                InitWalletEnds, SyncEnds, SendEnds, NftEnds
        <3>2. made \in Nat /\ fetches \subseteq Fetch
            BY <1>a DEF FormTypeOK, TypeOK
        <3>3. 0 .. made \subseteq 0 .. made'
            BY <3>1, <3>2
        <3> QED BY <2>a, <3>2, <3>3
    <2>b. CASE made' = made
        <3>1. \/ fetches' \subseteq fetches
              \/ \E side \in Side, w \in {0, sdk} :
                    fetches' = fetches \cup {[side |-> side, type |-> selected[side], wallet |-> w]}
            BY <1>a DEF Next, Toggle, SetSelectedAssetType, FetchSenderBalance,
                FetchReceiverBalance, GetSpendableBalance, FetchPublicBalance, Shows, Requests,
                BalanceArrives, SendPrivately, SendEmpty, SendPublicly, PublicTransferEnds
        <3>2. \A side \in Side, w \in {0, sdk} :
                [side |-> side, type |-> selected[side], wallet |-> w] \in Fetch
            BY <1>a DEF FormTypeOK, TypeOK
        <3>3. fetches \subseteq Fetch
            BY <1>a DEF FormTypeOK
        <3>4. fetches' \subseteq Fetch
            <4> DEFINE new(side, w) == [side |-> side, type |-> selected[side], wallet |-> w]
            <4>1. \A side \in Side, w \in {0, sdk} : new(side, w) \in Fetch
                BY <3>2
            <4>2. \/ fetches' \subseteq fetches
                  \/ \E side \in Side, w \in {0, sdk} : fetches' = fetches \cup {new(side, w)}
                BY <3>1
            <4> HIDE DEF Fetch, new
            <4> QED BY <4>1, <4>2, <3>3
        <3> QED BY <2>b, <3>4
    <2> QED
        BY <2>a, <2>b
           DEF Next, Toggle, SetSelectedAssetType, FetchSenderBalance, FetchReceiverBalance,
               BalanceArrives, SendPrivately, SendEmpty, Send, SendPublicly, PublicTransferEnds
<1>5. publicTransfer' \in BOOLEAN /\ page' \in {"send", "nft"}
    BY <1>a DEF Next, Toggle, SetSelectedAssetType, FetchSenderBalance, FetchReceiverBalance,
        BalanceArrives, SendPrivately, SendEmpty, SendPublicly, PublicTransferEnds, FormTypeOK
<1> QED BY <1>1, <1>2, <1>3, <1>4, <1>5 DEF FormTypeOK

-----------------------------------------------------------------------------
(* The theorems *)

LEMMA InvAlways == Spec => []IInv
<1>1. IInv /\ [Next]_vars => IInv'
    BY FormTyped, FlagKept, ApartKept, SyncsKept, BalancesKept DEF IInv
<1> QED BY InitInv, <1>1, PTL DEF Spec

\* The send form and the wallet stay well typed, and a payment is of one asset.
THEOREM FormTypeCorrect == Spec => []FormTypeOK
<1>1. IInv => FormTypeOK
    BY DEF IInv
<1> QED BY InvAlways, <1>1, PTL

\* walletIsBusy keeps the calls of a wallet apart: syncs, transactions, initialisations and
\* the readers of balances, however many wallets come and go.
THEOREM CallsStayAlone == Spec => []CallsAreAlone
<1>1. ASSUME IInv PROVE CallsAreAlone
    <2>a. FlagIsTrue /\ RestartsAreApart /\ calls \subseteq Call
        BY <1>1 DEF IInv, FormTypeOK, TypeOK
    <2>1. \A c \in calls : c.kind \in {"restart", "sync", "send", "nft"}
        BY <2>a, CallTyped
    <2>2. \A c, d \in calls : c.kind # "nft" /\ d.kind # "nft" /\ c.wallet = d.wallet => c = d
        <3> SUFFICES ASSUME NEW c \in calls, NEW d \in calls,
                            c.kind # "nft", d.kind # "nft", c.wallet = d.wallet
                     PROVE  c = d
            OBVIOUS
        <3>1. CASE c.kind = "restart" /\ d.kind = "restart"
            BY <2>a, <3>1 DEF Call
        <3>2. CASE c.kind # "restart" /\ d.kind # "restart"
            BY <2>a, <2>1, <3>2 DEF FlagIsTrue, Occupies
        <3>3. CASE ~(c.kind = "restart" <=> d.kind = "restart")
            BY <2>a, <3>3, KnownHas DEF RestartsAreApart
        <3> QED BY <3>1, <3>2, <3>3
    <2>3. walletIsBusy <=> flagIsLost \/ \E c \in calls : c.kind \in {"sync", "send"}
        BY <2>a DEF FlagIsTrue, Occupies
    <2>4. \A c \in calls : c.kind = "restart" =>
            c.wallet \notin {sdk, syncedSdk} \cup {w.wallet : w \in waiting}
                              \cup {f.wallet : f \in fetches}
        BY <2>a DEF RestartsAreApart, Known
    <2> QED BY <2>2, <2>3, <2>4 DEF CallsAreAlone
<1> QED BY InvAlways, <1>1, PTL

\* Balances count as fresh only after a sync that began when all was reported.
THEOREM FreshOnlyAfterSync == Spec => []FreshAfterSync
<1>1. IInv => FreshAfterSync
    BY DEF IInv, SyncsMissNothing
<1> QED BY InvAlways, <1>1, PTL

\* No answer to an earlier selection is shown as a balance of the present one.
THEOREM BalancesStayOfSelection == Spec => []BalancesAreOfSelection
<1>1. IInv => BalancesAreOfSelection
    BY DEF IInv
<1> QED BY InvAlways, <1>1, PTL
=============================================================================
