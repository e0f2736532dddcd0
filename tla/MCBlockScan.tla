----------------------------- MODULE MCBlockScan -----------------------------
(* Small instances of BlockScan for TLC. *)
EXTENDS BlockScan

CONSTANTS k1, k2,    \* tokens
          t1, t2,    \* transfers of the same block, of each token if it is there
          OnTron,    \* the transfers the TRON chain has of them
          LateBlock  \* that block

MCTokenOf == [t \in Transfers |-> IF t = t2 /\ k2 \in Tokens THEN k2 ELSE k1]
MCOnChain == [k \in Kinds |-> IF k = "tron" THEN OnTron ELSE Transfers]
MCBlockOf == [t \in Transfers |-> LateBlock]

\* The two are outputs of one bitcoin transaction, whose index is the log id.
MCLogIdOf == [k \in Kinds |->
                [t \in Transfers |-> IF k = "bitcoin" THEN t1 ELSE t]]

=============================================================================
