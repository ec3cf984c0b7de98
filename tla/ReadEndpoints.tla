---------------------------- MODULE ReadEndpoints ----------------------------
(***************************************************************************)
(* The GET handlers of api.go, which run concurrently with those that      *)
(* create wallets: the list of wallets, the two balances, and the status.  *)
(* A handler writes its response through echo, which takes the status of   *)
(* the first write and appends the bodies of all.                          *)
(***************************************************************************)
EXTENDS WalletApi, OperationStatus

CONSTANT Readers   \* one identity per GET request

VARIABLES
    readPc,     \* where each handler is
    asked,      \* history: the wallets whose creation had been answered by then
    table,      \* the rows that the query sees: those there when it began
    result,     \* the rows taken so far
    broke,      \* history: the iteration ended early, with an error in rows.Err()
    balance,    \* what the node answered: its error, or whose balance
    response    \* status and body

localReadVars == <<asked, table, result, broke, balance, response>>
readsVars == <<vars, answers, readPc, localReadVars>>

NoResponse == [status |-> 0, body |-> <<>>]
Nil == "<nil>"

ReadsInit ==
    /\ Init
    /\ answers = {}
    /\ readPc = [g \in Readers |-> "idle"]
    /\ asked = [g \in Readers |-> {}]
    /\ table = [g \in Readers |-> <<>>]
    /\ result = [g \in Readers |-> <<>>]
    /\ broke = [g \in Readers |-> FALSE]
    /\ balance = [g \in Readers |-> Nil]
    /\ response = [g \in Readers |-> NoResponse]

------------------------------------------------------------------------------
ReadGoto(g, from, to) ==
    /\ readPc[g] = from
    /\ readPc' = [readPc EXCEPT ![g] = to]
    /\ UNCHANGED vars

\* c.String and c.JSON
Write(g, status, text) ==
    response' = [response EXCEPT ![g] =
        [status |-> IF @.status = 0 THEN status ELSE @.status,
         body |-> Append(@.body, text)]]

ListOnly == UNCHANGED <<answers, asked, table, broke, balance>>

\* GET /wallet: the query.
GetAllWallet(g) ==
    /\ ReadGoto(g, "idle", "rows")
    /\ asked' = [asked EXCEPT ![g] =
                   {GetSenderAddres(walletSalt[r]) :
                       r \in {r \in Requests : /\ apiPc[r] = "ok"
                                               /\ walletSalt[r] # NoSalt}}]
    /\ table' = [table EXCEPT ![g] = wallet]
    /\ UNCHANGED <<answers, result, broke, balance, response>>

\* rows.Next and rows.Scan
NextRow(g) ==
    /\ ReadGoto(g, "rows", "rows")
    /\ Len(result[g]) < Len(table[g])
    /\ result' = [result EXCEPT ![g] = Append(@, table[g][Len(@) + 1])]
    /\ UNCHANGED response
    /\ ListOnly

\* rows.Next is false after the last row, ...
NoNextRow(g) ==
    /\ ReadGoto(g, "rows", "answered")
    /\ Len(result[g]) = Len(table[g])
    /\ Write(g, 200, "list")
    /\ UNCHANGED result
    /\ ListOnly

\* ... and when the iteration breaks off; rows.Err() is not asked.
RowsBreak(g) ==
    /\ ReadGoto(g, "rows", "answered")
    /\ Len(result[g]) < Len(table[g])
    /\ broke' = [broke EXCEPT ![g] = TRUE]
    /\ Write(g, 200, "list")
    /\ UNCHANGED <<answers, asked, table, result, balance>>

\* The two balances: the wallet must be in the table.
GetWallet(g) ==
    /\ Rows # {}
    /\ \E next \in {"ethBalance", "erc20Balance"} : ReadGoto(g, "idle", next)
    /\ UNCHANGED <<result, response>>
    /\ ListOnly

\* The query, a Scan, GetWallet or the bundler's answer fails, and the request with it.
ReadFails(g) ==
    /\ \E from \in {"idle", "rows"} : ReadGoto(g, from, "answered")
    /\ Write(g, 400, "error")
    /\ UNCHANGED result
    /\ ListOnly

GetETHBalance(g) ==
    /\ ReadGoto(g, "ethBalance", "answered")
    /\ \E answer \in {"balance", Nil} :
          /\ balance' = [balance EXCEPT ![g] = answer]
          /\ IF answer = Nil THEN Write(g, 400, "error") ELSE Write(g, 200, answer)
    /\ UNCHANGED <<answers, asked, table, result, broke>>

\* Fault: the error is not handled at all.
GetERC20BalanceUnchecked(g) ==
    /\ ReadGoto(g, "erc20Balance", "string")
    /\ \E answer \in {"balance", Nil} :
          /\ balance' = [balance EXCEPT ![g] = answer]
          /\ UNCHANGED response
    /\ UNCHANGED <<answers, asked, table, result, broke>>

\* After an error the handler goes on, with a balance of nil.
GetERC20Balance(g) ==
    /\ ReadGoto(g, "erc20Balance", "string")
    /\ \E answer \in {"balance", Nil} :
          /\ balance' = [balance EXCEPT ![g] = answer]
          /\ IF answer = Nil THEN Write(g, 400, "error") ELSE UNCHANGED response
    /\ UNCHANGED <<answers, asked, table, result, broke>>

\* balance.String() of a nil *big.Int is "<nil>".
WriteERC20Balance(g) ==
    /\ ReadGoto(g, "string", "answered")
    /\ Write(g, 200, balance[g])
    /\ UNCHANGED result
    /\ ListOnly

GetStatus(g) ==
    /\ readPc[g] = "idle"
    /\ \E p \in submitted :
          /\ GetUserOperationStatus(p)
          /\ Write(g, 200, "status")
    /\ readPc' = [readPc EXCEPT ![g] = "answered"]
    /\ UNCHANGED <<apiVars, asked, table, result, broke, balance>>

ReadStep(g) ==
    \/ GetAllWallet(g)
    \/ NextRow(g)
    \/ NoNextRow(g)
    \/ RowsBreak(g)
    \/ GetWallet(g)
    \/ GetETHBalance(g)
    \/ GetERC20Balance(g)
    \/ WriteERC20Balance(g)
    \/ GetStatus(g)
    \/ ReadFails(g)

\* The rest of the service goes on.  If it restarts, the reads in flight are lost.
ServiceStep ==
    /\ Next
    /\ readPc' = IF restarts' = restarts THEN readPc
                 ELSE [g \in Readers |->
                         IF readPc[g] \in {"idle", "answered"} THEN readPc[g]
                                                             ELSE "lost"]
    /\ UNCHANGED <<answers, localReadVars>>

ReadsNext ==
    \/ \E g \in Readers : ReadStep(g)
    \/ ServiceStep

ReadsSpec == ReadsInit /\ [][ReadsNext]_readsVars

------------------------------------------------------------------------------
\* A list answered with 200 is made of the table's first rows.  Unless the iteration
\* broke off, of which the client is told nothing, it has every wallet whose creation
\* was answered before the list was asked for, whatever is created meanwhile.
ListReadsWrites ==
    \A g \in Readers :
        /\ Len(result[g]) <= Len(wallet)
        /\ \A i \in DOMAIN result[g] : result[g][i] = wallet[i]
        /\ response[g].status = 200 /\ ~broke[g] =>
              asked[g] \subseteq {result[g][i] : i \in DOMAIN result[g]}

\* A balance answered with 200 is one the node answered: the error of GetERC20Balance
\* has been written by the time the handler writes the balance it does not have.
BalanceIsReal ==
    \A g \in Readers :
        response[g].status = 200 => Nil \notin {response[g].body[i] :
                                                  i \in DOMAIN response[g].body}
==============================================================================
