---------------------------- MODULE AppleAMMProof ----------------------------
(***************************************************************************)
(* Proofs about AppleAMM, for every supply, fee and word size.             *)
(***************************************************************************)
EXTENDS AppleAMM, FiniteSetTheorems, TLAPS

(* Division rounds down.                                                   *)
LEMMA DivFloor ==
  ASSUME NEW n \in Nat, NEW d \in Nat \ {0}
  PROVE  /\ n \div d \in Nat
         /\ (n \div d) * d <= n
         /\ n < (n \div d + 1) * d
  BY SMT

(* Products of naturals grow with their factors.                           *)
LEMMA ProductMonotone ==
  ASSUME NEW a \in Nat, NEW b \in Nat, NEW c \in Nat, NEW d \in Nat, a <= b, c <= d
  PROVE  a * c <= b * d
  <1>1. a * c <= b * c
    BY SMT
  <1>2. b * c <= b * d
    BY SMT
  <1> QED BY <1>1, <1>2, SMT

(* What a swap of x pays out leaves a positive reserve and no smaller a    *)
(* product.                                                                *)
LEMMA SwapOutput ==
  ASSUME NEW x \in Nat, NEW in \in Nat \ {0}, NEW out \in Nat \ {0}
  PROVE  /\ getAmountOut(x, in, out) \in Nat
         /\ getAmountOut(x, in, out) < out
         /\ (in + x) * (out - getAmountOut(x, in, out)) >= in * out
  <1> DEFINE q == (x * out) \div (in + x)
  <1>1. x * out \in Nat /\ in + x \in Nat \ {0}
    BY SMT
  <1>2. q \in Nat /\ q * (in + x) <= x * out
    BY <1>1, DivFloor
  <1> HIDE DEF q
  <1>3. q < out
    <2> SUFFICES ASSUME q >= out PROVE FALSE
      BY <1>2
    <2>1. out * (in + x) <= q * (in + x)
      BY <1>1, <1>2, ProductMonotone
    <2>2. out * (in + x) = out * in + x * out /\ out * in > 0
      BY SMT
    <2> QED BY <1>1, <1>2, <2>1, <2>2, SMT
  <1>4. (in + x) * (out - q) = in * out + x * out - q * (in + x)
    BY <1>2, SMT
  <1>5. (in + x) * (out - q) >= in * out
    BY <1>1, <1>2, <1>4, SMT
  <1> QED BY <1>2, <1>3, <1>5 DEF getAmountOut, q

(* A withdrawal of lp of total shares pays out no more than its part, and  *)
(* empties the reserve exactly when it takes the last share.               *)
LEMMA WithdrawalOutput ==
  ASSUME NEW lp \in Nat, NEW total \in Nat \ {0}, NEW reserve \in Nat \ {0},
         lp <= total
  PROVE  LET out == (lp * reserve) \div total IN
         /\ out \in Nat /\ out <= reserve
         /\ out = reserve <=> lp = total
         /\ (total - lp) * reserve <= (reserve - out) * total
  <1> DEFINE out == (lp * reserve) \div total
  <1>1. lp * reserve \in Nat
    BY SMT
  <1>2. out \in Nat /\ out * total <= lp * reserve /\ lp * reserve < (out + 1) * total
    BY <1>1, DivFloor
  <1> HIDE DEF out
  <1>3. CASE lp = total
    <2>1. out * total <= reserve * total /\ reserve * total < (out + 1) * total
      BY <1>2, <1>3, SMT
    <2>2. out <= reserve
      <3> SUFFICES ASSUME out >= reserve + 1 PROVE FALSE
        BY <1>2
      <3>1. (reserve + 1) * total <= out * total
        BY <1>2, ProductMonotone
      <3> QED BY <1>2, <2>1, <3>1, SMT
    <2>3. reserve <= out
      <3> SUFFICES ASSUME out + 1 <= reserve PROVE FALSE
        BY <1>2
      <3>1. (out + 1) * total <= reserve * total
        BY <1>2, ProductMonotone
      <3> QED BY <1>2, <2>1, <3>1, SMT
    <2> QED BY <1>2, <1>3, <2>2, <2>3, SMT DEF out
  <1>4. CASE lp < total
    <2>1. (lp + 1) * reserve <= total * reserve
      BY <1>4, ProductMonotone
    <2>2. lp * reserve < total * reserve
      BY <2>1, SMT
    <2>3. out < reserve
      <3> SUFFICES ASSUME out >= reserve PROVE FALSE
        BY <1>2
      <3>1. reserve * total <= out * total
        BY <1>2, ProductMonotone
      <3> QED BY <1>1, <1>2, <2>2, <3>1, SMT
    <2>4. (reserve - out) * total = reserve * total - out * total
      BY <1>2, SMT
    <2>5. (total - lp) * reserve = reserve * total - lp * reserve
      BY SMT
    <2>6. (total - lp) * reserve <= (reserve - out) * total
      BY <1>1, <1>2, <2>4, <2>5, SMT
    <2> QED BY <1>2, <1>4, <2>3, <2>6, SMT DEF out
  <1> QED BY <1>3, <1>4

(* A deposit of n mints no more than its part of the shares.               *)
LEMMA MintPart ==
  ASSUME NEW n \in Nat, NEW total \in Nat, NEW reserve \in Nat \ {0}, NEW lp \in Nat,
         lp <= (n * total) \div reserve
  PROVE  (total + lp) * reserve <= (reserve + n) * total
  <1> DEFINE q == (n * total) \div reserve
  <1>1. n * total \in Nat
    BY SMT
  <1>2. q \in Nat /\ q * reserve <= n * total
    BY <1>1, DivFloor
  <1>3. lp * reserve <= q * reserve
    BY <1>2, ProductMonotone
  <1> HIDE DEF q
  <1>4. (total + lp) * reserve = total * reserve + lp * reserve
    BY SMT
  <1>5. (reserve + n) * total = total * reserve + n * total
    BY SMT
  <1> QED BY <1>1, <1>2, <1>3, <1>4, <1>5, SMT

(* The fee is a part of the amount.                                        *)
LEMMA FeePart ==
  ASSUME NEW x \in Nat
  PROVE  Fee(x) \in Nat /\ Fee(x) <= x
  <1> DEFINE q == (x * FEE_NUMERATOR) \div FEE_DENOMINATOR
  <1>1. FEE_NUMERATOR \in Nat /\ FEE_DENOMINATOR \in Nat \ {0} /\ FEE_NUMERATOR <= FEE_DENOMINATOR
    BY PoolAssumption, SMT DEF PoolAssumption
  <1>2. x * FEE_NUMERATOR \in Nat
    BY <1>1, SMT
  <1>3. q \in Nat /\ q * FEE_DENOMINATOR <= x * FEE_NUMERATOR
    BY <1>1, <1>2, DivFloor
  <1>4. x * FEE_NUMERATOR <= x * FEE_DENOMINATOR
    BY <1>1, ProductMonotone
  <1> HIDE DEF q
  <1>5. q <= x
    <2> SUFFICES ASSUME q >= x + 1 PROVE FALSE
      BY <1>3
    <2>1. (x + 1) * FEE_DENOMINATOR <= q * FEE_DENOMINATOR
      BY <1>1, <1>3, ProductMonotone
    <2>2. (x + 1) * FEE_DENOMINATOR = x * FEE_DENOMINATOR + FEE_DENOMINATOR
      BY <1>1, SMT
    <2> DEFINE u == q * FEE_DENOMINATOR
               w == x * FEE_DENOMINATOR
    <2>3. u \in Nat /\ w \in Nat
      BY <1>1, <1>3, SMT
    <2> QED BY <1>1, <1>2, <1>3, <1>4, <2>1, <2>2, <2>3, SMT
  <1> QED BY <1>3, <1>5 DEF Fee, q

(* No caller is the contract.                                              *)
LEMMA Callers ==
  ASSUME NEW p \in Accounts
  PROVE  p \in Holders /\ AMM \in Holders /\ p # AMM
  BY PoolAssumption DEF PoolAssumption, Holders

(* A payment to the contract, and one from it.                             *)
LEMMA Payments ==
  ASSUME NEW balances \in [Holders -> Int], NEW p \in Accounts, NEW n \in Int
  PROVE  /\ Moved(balances, p, AMM, n) \in [Holders -> Int]
         /\ Moved(balances, p, AMM, n)[AMM] = balances[AMM] + n
         /\ Moved(balances, AMM, p, n) \in [Holders -> Int]
         /\ Moved(balances, AMM, p, n)[AMM] = balances[AMM] - n
  BY Callers, SMT DEF Moved

(* Words and amounts are naturals.                                         *)
LEMMA Words == Word \subseteq Nat /\ 0 \in Word /\ Amount \subseteq Nat \ {0}
  BY PoolAssumption, SMT DEF PoolAssumption, Word, Amount

-------------------------------------------------------------------------------
(* The inductive invariant.  Solvency needs a pool whose payouts stay      *)
(* below the reserves, which a division needs a live pool for.             *)

IInv == TypeOK /\ Solvent /\ PoolAlive

LEMMA InitIInv == Init => IInv
  BY PoolAssumption, Words, SMT DEF Init, IInv, TypeOK, Solvent, PoolAlive, PoolAssumption, Holders

(* A deposit pays in what it adds to the reserves.                         *)
LEMMA DepositIInv ==
  ASSUME IInv, NEW p \in Accounts, NEW a \in Amount, NEW v \in Amount, NEW lp,
         Deposit(p, a, v, lp)
  PROVE  IInv'
  <1> USE DEF IInv
  <1>1. a \in Nat \ {0} /\ v \in Nat \ {0} /\ lp \in Nat \ {0}
    BY Words DEF Deposit
  <1>2. /\ appleReserve \in Nat /\ ethReserve \in Nat /\ totalLPTokens \in Nat
    BY Words DEF TypeOK
  <1>3. /\ apples' \in [Holders -> Int] /\ apples'[AMM] = apples[AMM] + a
        /\ ethers' \in [Holders -> Int] /\ ethers'[AMM] = ethers[AMM] + v
    <2>1. apples \in [Holders -> Int] /\ ethers \in [Holders -> Int] /\ a \in Int /\ v \in Int
      BY <1>1 DEF TypeOK
    <2>2. apples' = Moved(apples, p, AMM, a) /\ ethers' = Moved(ethers, p, AMM, v)
      BY DEF Deposit
    <2> QED BY <2>1, <2>2, Payments
  <1>4. /\ apples[AMM] \in Int /\ ethers[AMM] \in Int
    BY Callers DEF TypeOK
  <1>5. lpBalances' \in [Accounts -> Int]
    BY <1>1, SMT DEF Deposit, TypeOK
  <1>6. TypeOK'
    <2>1. appleReserve' \in Word /\ ethReserve' \in Word /\ totalLPTokens' \in Word
      <3>1. {appleReserve', ethReserve', totalLPTokens'} \subseteq Word
        BY Zenon DEF Deposit
      <3> QED BY <3>1
    <2>2. totalFeesApple' \in Nat /\ totalFeesETH' \in Nat
      BY Zenon DEF Deposit, TypeOK, fees
    <2> QED BY <1>3, <1>5, <2>1, <2>2 DEF TypeOK
  <1>7. Solvent'
    BY <1>1, <1>2, <1>3, <1>4, SMT DEF Deposit, Solvent
  <1>8. PoolAlive'
    BY <1>1, <1>2, SMT DEF Deposit, PoolAlive
  <1> QED BY <1>6, <1>7, <1>8

(* What a withdrawal does to the pool, in one place.                       *)
LEMMA Withdrawal ==
  ASSUME IInv, NEW p \in Accounts, NEW lp \in Word, RemoveLiquidity(p, lp)
  PROVE  /\ totalLPTokens \in Nat \ {0} /\ appleReserve \in Nat \ {0} /\ ethReserve \in Nat \ {0}
         /\ totalLPTokens' = totalLPTokens - lp /\ lp \in Nat \ {0} /\ lp <= totalLPTokens
         /\ appleReserve' \in 0 .. appleReserve /\ ethReserve' \in 0 .. ethReserve
         /\ appleReserve' = 0 <=> lp = totalLPTokens
         /\ ethReserve' = 0 <=> lp = totalLPTokens
         /\ totalLPTokens' * appleReserve <= appleReserve' * totalLPTokens
         /\ totalLPTokens' * ethReserve <= ethReserve' * totalLPTokens
  <1> DEFINE appleOut == ShareOf(lp, appleReserve)
             ethOut == ShareOf(lp, ethReserve)
  <1>1. lp \in Nat \ {0} /\ totalLPTokens \in Nat /\ lp <= totalLPTokens
    BY Words DEF RemoveLiquidity, IInv, TypeOK
  <1>2. totalLPTokens \in Nat \ {0}
    BY <1>1, SMT
  <1>3. appleReserve \in Nat \ {0} /\ ethReserve \in Nat \ {0}
    BY <1>2, Words, Zenon DEF IInv, TypeOK, PoolAlive
  <1>4. /\ appleOut \in Nat /\ appleOut <= appleReserve
        /\ appleOut = appleReserve <=> lp = totalLPTokens
        /\ (totalLPTokens - lp) * appleReserve <= (appleReserve - appleOut) * totalLPTokens
    BY <1>1, <1>2, <1>3, WithdrawalOutput DEF ShareOf
  <1>5. /\ ethOut \in Nat /\ ethOut <= ethReserve
        /\ ethOut = ethReserve <=> lp = totalLPTokens
        /\ (totalLPTokens - lp) * ethReserve <= (ethReserve - ethOut) * totalLPTokens
    BY <1>1, <1>2, <1>3, WithdrawalOutput DEF ShareOf
  <1>6. /\ appleReserve' = appleReserve - appleOut /\ ethReserve' = ethReserve - ethOut
        /\ totalLPTokens' = totalLPTokens - lp
    BY DEF RemoveLiquidity
  <1> HIDE DEF appleOut, ethOut
  <1>7. /\ totalLPTokens' * appleReserve <= appleReserve' * totalLPTokens
        /\ totalLPTokens' * ethReserve <= ethReserve' * totalLPTokens
    BY <1>4, <1>5, <1>6
  <1>8. /\ appleReserve' \in 0 .. appleReserve /\ ethReserve' \in 0 .. ethReserve
        /\ appleReserve' = 0 <=> lp = totalLPTokens
        /\ ethReserve' = 0 <=> lp = totalLPTokens
    BY <1>3, <1>4, <1>5, <1>6, SMT
  <1> QED BY <1>1, <1>2, <1>3, <1>6, <1>7, <1>8

(* A withdrawal pays out what it takes from them.                          *)
LEMMA RemoveIInv ==
  ASSUME IInv, NEW p \in Accounts, NEW lp \in Word, RemoveLiquidity(p, lp)
  PROVE  IInv'
  <1> DEFINE appleOut == ShareOf(lp, appleReserve)
             ethOut == ShareOf(lp, ethReserve)
  <1>1. /\ totalLPTokens \in Nat \ {0} /\ totalLPTokens \in Word
        /\ appleReserve \in Nat \ {0} /\ appleReserve \in Word
        /\ ethReserve \in Nat \ {0} /\ ethReserve \in Word
        /\ totalLPTokens' = totalLPTokens - lp /\ lp \in Nat \ {0} /\ lp <= totalLPTokens
        /\ appleReserve' \in 0 .. appleReserve /\ ethReserve' \in 0 .. ethReserve
        /\ appleReserve' = 0 <=> lp = totalLPTokens
        /\ ethReserve' = 0 <=> lp = totalLPTokens
    BY Withdrawal DEF IInv, TypeOK
  <1>2. /\ appleReserve' = appleReserve - appleOut /\ ethReserve' = ethReserve - ethOut
        /\ apples' = Moved(apples, AMM, p, appleOut)
        /\ ethers' = Moved(ethers, AMM, p, ethOut)
    BY DEF RemoveLiquidity
  <1>3. appleOut \in Int /\ ethOut \in Int
    BY <1>1, DivFloor, SMT DEF ShareOf
  <1> HIDE DEF appleOut, ethOut
  <1>4. /\ apples' \in [Holders -> Int] /\ apples'[AMM] = apples[AMM] - appleOut
        /\ ethers' \in [Holders -> Int] /\ ethers'[AMM] = ethers[AMM] - ethOut
    <2>1. apples \in [Holders -> Int] /\ ethers \in [Holders -> Int]
      BY DEF IInv, TypeOK
    <2> QED BY <1>2, <1>3, <2>1, Payments
  <1>5. apples[AMM] \in Int /\ ethers[AMM] \in Int
    BY Callers DEF IInv, TypeOK
  <1>6. lpBalances' \in [Accounts -> Int]
    BY <1>1, SMT DEF RemoveLiquidity, IInv, TypeOK
  <1>7. appleReserve' \in Word /\ ethReserve' \in Word /\ totalLPTokens' \in Word
    <2>1. MaxWord \in Nat
      BY PoolAssumption DEF PoolAssumption
    <2> QED BY <1>1, <2>1, SMT DEF Word
  <1>8. TypeOK'
    BY <1>4, <1>6, <1>7 DEF RemoveLiquidity, IInv, TypeOK, fees
  <1>9. Solvent'
    BY <1>1, <1>2, <1>3, <1>4, <1>5, SMT DEF Solvent, IInv
  <1>10. PoolAlive'
    BY <1>1, SMT DEF PoolAlive
  <1> QED BY <1>8, <1>9, <1>10 DEF IInv

(* A swap of x leaves a positive reserve, and the fee in the product.      *)
LEMMA SwapProduct ==
  ASSUME NEW x \in Nat, NEW in \in Nat \ {0}, NEW out \in Nat \ {0}
  PROVE  LET paid == SwapOut(x, in, out) IN
         /\ paid \in Nat /\ paid < out
         /\ (in + x) * (out - paid) >= in * out + Fee(x) * (out - paid)
  <1> DEFINE net == x - Fee(x)
             paid == getAmountOut(net, in, out)
  <1>1. Fee(x) \in Nat /\ net \in Nat /\ net + Fee(x) = x
    BY FeePart, SMT
  <1> HIDE DEF net
  <1>2. paid \in Nat /\ paid < out /\ (in + net) * (out - paid) >= in * out
    BY <1>1, SwapOutput
  <1> HIDE DEF paid
  <1> DEFINE f == Fee(x)
             rest == out - paid
  <1>3. f \in Nat /\ rest \in Nat /\ x = net + f
    BY <1>1, <1>2, SMT
  <1>4. (in + net) * rest >= in * out
    BY <1>2
  <1>5. (in + (net + f)) * rest = (in + net) * rest + f * rest
    BY <1>1, <1>3, SMT
  <1>6. (in + net) * rest \in Nat /\ f * rest \in Nat /\ in * out \in Nat
    BY <1>1, <1>3, SMT
  <1> HIDE DEF f, rest
  <1>7. (in + x) * rest >= in * out + f * rest
    BY <1>3, <1>4, <1>5, <1>6, SMT
  <1> QED BY <1>2, <1>7 DEF SwapOut, net, paid, f, rest

(* The two swaps, by what they do to the pool.                             *)
LEMMA Buy ==
  ASSUME IInv, NEW p \in Accounts, NEW v \in Amount, NEW least, swapETHForApples(p, v, least)
  PROVE  /\ IInv'
         /\ appleReserve' \in Nat /\ totalLPTokens' = totalLPTokens
         /\ totalFeesApple' = totalFeesApple /\ totalFeesETH' = totalFeesETH + Fee(v)
         /\ k' >= k + Fee(v) * appleReserve'
  <1> DEFINE out == SwapOut(v, ethReserve, appleReserve)
  <1>1. v \in Nat \ {0} /\ Fee(v) \in Nat
    BY Words, FeePart
  <1>2. /\ appleReserve \in Nat \ {0} /\ ethReserve \in Nat \ {0}
        /\ totalLPTokens \in Nat \ {0} /\ totalFeesETH \in Nat
    BY Words DEF swapETHForApples, SwapAllowed, IInv, TypeOK, PoolAlive
  <1>3. /\ out \in Nat /\ out < appleReserve
        /\ (ethReserve + v) * (appleReserve - out)
             >= ethReserve * appleReserve + Fee(v) * (appleReserve - out)
    BY <1>1, <1>2, SwapProduct
  <1>4. /\ ethReserve' = ethReserve + v /\ appleReserve' = appleReserve - out
        /\ totalFeesETH' = totalFeesETH + Fee(v)
        /\ ethers' = Moved(ethers, p, AMM, v) /\ apples' = Moved(apples, AMM, p, out)
        /\ ethReserve + v \in Word
    BY DEF swapETHForApples, SwapAllowed
  <1>5. UNCHANGED <<totalFeesApple, totalLPTokens, lpBalances>>
    BY Zenon DEF swapETHForApples, shares
  <1> HIDE DEF out
  <1>6. /\ ethers' \in [Holders -> Int] /\ ethers'[AMM] = ethers[AMM] + v
        /\ apples' \in [Holders -> Int] /\ apples'[AMM] = apples[AMM] - out
        /\ ethers[AMM] \in Int /\ apples[AMM] \in Int
    <2>1. ethers \in [Holders -> Int] /\ apples \in [Holders -> Int] /\ v \in Int /\ out \in Int
      BY <1>1, <1>3 DEF IInv, TypeOK
    <2>2. ethers[AMM] \in Int /\ apples[AMM] \in Int
      BY <2>1, Callers
    <2> QED BY <1>4, <2>1, <2>2, Payments
  <1>7. appleReserve' \in Word /\ appleReserve' # 0
    <2>1. appleReserve \in 0 .. MaxWord /\ MaxWord \in Nat
      BY PoolAssumption DEF PoolAssumption, IInv, TypeOK, Word
    <2> QED BY <1>3, <1>4, <2>1, SMT DEF Word
  <1>8. totalFeesETH' \in Nat
    BY <1>1, <1>2, <1>4, SMT
  <1>9. TypeOK'
    BY <1>4, <1>5, <1>6, <1>7, <1>8, Zenon DEF IInv, TypeOK
  <1>10. Solvent'
    BY <1>1, <1>2, <1>3, <1>4, <1>6, SMT DEF IInv, Solvent
  <1>11. PoolAlive'
    BY <1>1, <1>2, <1>4, <1>5, <1>7, SMT DEF PoolAlive
  <1>12. k' >= k + Fee(v) * appleReserve'
    <2>1. k' = (ethReserve + v) * (appleReserve - out)
      BY <1>1, <1>2, <1>3, <1>4, SMT DEF k
    <2>2. k = ethReserve * appleReserve
      BY <1>2, SMT DEF k
    <2> QED BY <1>3, <1>4, <2>1, <2>2
  <1>13. appleReserve' \in Nat
    BY <1>7, Words
  <1> QED BY <1>4, <1>5, <1>9, <1>10, <1>11, <1>12, <1>13, Zenon DEF IInv

(* A sale, as Buy with the currencies exchanged.                           *)
LEMMA Sell ==
  ASSUME IInv, NEW p \in Accounts, NEW a \in Amount, NEW least, swapApplesForETH(p, a, least)
  PROVE  /\ IInv'
         /\ ethReserve' \in Nat /\ totalLPTokens' = totalLPTokens
         /\ totalFeesETH' = totalFeesETH /\ totalFeesApple' = totalFeesApple + Fee(a)
         /\ k' >= k + Fee(a) * ethReserve'
  <1> DEFINE out == SwapOut(a, appleReserve, ethReserve)
  <1>1. a \in Nat \ {0} /\ Fee(a) \in Nat
    BY Words, FeePart
  <1>2. /\ appleReserve \in Nat \ {0} /\ ethReserve \in Nat \ {0}
        /\ totalLPTokens \in Nat \ {0} /\ totalFeesApple \in Nat
    BY Words DEF swapApplesForETH, SwapAllowed, IInv, TypeOK, PoolAlive
  <1>3. /\ out \in Nat /\ out < ethReserve
        /\ (appleReserve + a) * (ethReserve - out)
             >= appleReserve * ethReserve + Fee(a) * (ethReserve - out)
    BY <1>1, <1>2, SwapProduct
  <1>4. /\ appleReserve' = appleReserve + a /\ ethReserve' = ethReserve - out
        /\ totalFeesApple' = totalFeesApple + Fee(a)
        /\ apples' = Moved(apples, p, AMM, a) /\ ethers' = Moved(ethers, AMM, p, out)
        /\ appleReserve + a \in Word
    BY DEF swapApplesForETH, SwapAllowed
  <1>5. UNCHANGED <<totalFeesETH, totalLPTokens, lpBalances>>
    BY Zenon DEF swapApplesForETH, shares
  <1> HIDE DEF out
  <1>6. /\ apples' \in [Holders -> Int] /\ apples'[AMM] = apples[AMM] + a
        /\ ethers' \in [Holders -> Int] /\ ethers'[AMM] = ethers[AMM] - out
        /\ ethers[AMM] \in Int /\ apples[AMM] \in Int
    <2>1. ethers \in [Holders -> Int] /\ apples \in [Holders -> Int] /\ a \in Int /\ out \in Int
      BY <1>1, <1>3 DEF IInv, TypeOK
    <2>2. ethers[AMM] \in Int /\ apples[AMM] \in Int
      BY <2>1, Callers
    <2> QED BY <1>4, <2>1, <2>2, Payments
  <1>7. ethReserve' \in Word /\ ethReserve' # 0
    <2>1. ethReserve \in 0 .. MaxWord /\ MaxWord \in Nat
      BY PoolAssumption DEF PoolAssumption, IInv, TypeOK, Word
    <2> QED BY <1>3, <1>4, <2>1, SMT DEF Word
  <1>8. totalFeesApple' \in Nat
    BY <1>1, <1>2, <1>4, SMT
  <1>9. TypeOK'
    BY <1>4, <1>5, <1>6, <1>7, <1>8, Zenon DEF IInv, TypeOK
  <1>10. Solvent'
    BY <1>1, <1>2, <1>3, <1>4, <1>6, SMT DEF IInv, Solvent
  <1>11. PoolAlive'
    BY <1>1, <1>2, <1>4, <1>5, <1>7, SMT DEF PoolAlive
  <1>12. k' >= k + Fee(a) * ethReserve'
    BY <1>3, <1>4 DEF k
  <1>13. ethReserve' \in Nat
    BY <1>7, Words
  <1> QED BY <1>4, <1>5, <1>9, <1>10, <1>11, <1>12, <1>13, Zenon DEF IInv

LEMMA DonateIInv ==
  ASSUME IInv, NEW p \in Accounts, NEW v \in Amount, Donate(p, v)
  PROVE  IInv'
  <1>1. UNCHANGED <<appleReserve, ethReserve, totalLPTokens, lpBalances,
                    totalFeesApple, totalFeesETH, apples>>
    BY Zenon DEF Donate, reserves, shares, fees
  <1>2. ethers' \in [Holders -> Int] /\ ethers'[AMM] = ethers[AMM] + v /\ ethers[AMM] \in Int
    <2>1. ethers \in [Holders -> Int] /\ v \in Int /\ ethers' = Moved(ethers, p, AMM, v)
      BY Words DEF Donate, IInv, TypeOK
    <2>2. ethers[AMM] \in Int
      BY <2>1, Callers
    <2> QED BY <2>1, <2>2, Payments
  <1>3. TypeOK'
    BY <1>1, <1>2, Zenon DEF IInv, TypeOK
  <1>4. Solvent'
    BY <1>1, <1>2, Words, SMT DEF IInv, TypeOK, Solvent
  <1>5. PoolAlive'
    BY <1>1, Zenon DEF IInv, PoolAlive
  <1> QED BY <1>3, <1>4, <1>5 DEF IInv

LEMMA IInvInductive == IInv /\ [Next]_vars => IInv'
  <1> SUFFICES ASSUME IInv, [Next]_vars PROVE IInv'
    OBVIOUS
  <1>1. CASE UNCHANGED vars
    BY <1>1, Zenon DEF vars, reserves, shares, fees, IInv, TypeOK, Solvent, PoolAlive
  <1>2. ASSUME NEW p \in Accounts, Transaction(p) PROVE IInv'
    <2>1. ASSUME NEW a \in Amount, NEW v \in Amount, AddFirst(p, a, v) \/ AddMore(p, a, v)
          PROVE  IInv'
      BY <2>1, DepositIInv DEF AddFirst, AddMore
    <2>2. ASSUME NEW lp \in Word, RemoveLiquidity(p, lp) PROVE IInv'
      BY <2>2, RemoveIInv
    <2>3. ASSUME NEW v \in Amount, NEW least, swapETHForApples(p, v, least) PROVE IInv'
      BY <2>3, Buy
    <2>4. ASSUME NEW a \in Amount, NEW least, swapApplesForETH(p, a, least) PROVE IInv'
      BY <2>4, Sell
    <2>5. ASSUME NEW v \in Amount, Donate(p, v) PROVE IInv'
      BY <2>5, DonateIInv
    <2> QED BY <1>2, <2>1, <2>2, <2>3, <2>4, <2>5 DEF Transaction
  <1> QED BY <1>1, <1>2 DEF Next

LEMMA Invariance == Spec => []IInv
  BY InitIInv, IInvInductive, PTL DEF Spec

(* Every reachable pool is well typed, holds what its reserves say and is  *)
(* empty in all three ways or in none.                                     *)
THEOREM TypeCorrect == Spec => []TypeOK
  BY Invariance, PTL DEF IInv

(* The contract holds what its reserves say, so no payout it promised      *)
(* fails.                                                                  *)
THEOREM SolventHolds == Spec => []Solvent
  BY Invariance, PTL DEF IInv

(* There are shares exactly when there are reserves, of both currencies.   *)
THEOREM PoolAliveHolds == Spec => []PoolAlive
  BY Invariance, PTL DEF IInv

-------------------------------------------------------------------------------
(* Shares never lose value: each reserve per share does not fall when one  *)
(* deposits or withdraws, and the product does not when one swaps.         *)

(* When neither reserve falls per share, their product per squared share   *)
(* does not.                                                               *)
LEMMA ShareValue ==
  ASSUME NEW a0 \in Nat, NEW a1 \in Nat, NEW e0 \in Nat, NEW e1 \in Nat,
         NEW t0 \in Nat, NEW t1 \in Nat,
         t1 * a0 <= a1 * t0, t1 * e0 <= e1 * t0
  PROVE  (a1 * e1) * t0 * t0 >= (a0 * e0) * t1 * t1
  <1>1. /\ t1 * a0 \in Nat /\ t1 * e0 \in Nat /\ a1 * t0 \in Nat /\ e1 * t0 \in Nat
    BY SMT
  <1>2. (t1 * a0) * (t1 * e0) <= (a1 * t0) * (e1 * t0)
    BY <1>1, ProductMonotone
  <1>3. (t1 * a0) * (t1 * e0) = (a0 * e0) * t1 * t1
    BY SMT
  <1>4. (a1 * t0) * (e1 * t0) = (a1 * e1) * t0 * t0
    BY SMT
  <1> QED BY <1>2, <1>3, <1>4

(* Nor when the product rises over the same shares.                        *)
LEMMA SameShares ==
  ASSUME NEW k0 \in Nat, NEW k1 \in Nat, NEW t \in Nat, k0 <= k1
  PROVE  k1 * t * t >= k0 * t * t
  <1>1. k0 * t \in Nat /\ k1 * t \in Nat /\ k0 * t <= k1 * t
    BY ProductMonotone, SMT
  <1>2. (k0 * t) * t <= (k1 * t) * t
    BY <1>1, ProductMonotone
  <1> QED BY <1>2

(* A product that gains a natural is no less.                              *)
LEMMA Grows ==
  ASSUME NEW k0 \in Nat, NEW a1 \in Nat, NEW e1 \in Nat, NEW f \in Nat, NEW r \in Nat,
         a1 * e1 >= k0 + f * r
  PROVE  a1 * e1 \in Nat /\ k0 <= a1 * e1
  <1>1. a1 * e1 \in Nat /\ f * r \in Nat
    BY SMT
  <1> QED BY <1>1, SMT

(* A deposit mints no more than either of its parts of the shares.         *)
LEMMA MintedParts ==
  ASSUME NEW a \in Nat, NEW v \in Nat, appleReserve \in Nat \ {0},
         ethReserve \in Nat \ {0}, totalLPTokens \in Nat
  PROVE  /\ Minted(a, v) \in Nat
         /\ Minted(a, v) <= (a * totalLPTokens) \div appleReserve
         /\ Minted(a, v) <= (v * totalLPTokens) \div ethReserve
  <1> DEFINE x == (a * totalLPTokens) \div appleReserve
             y == (v * totalLPTokens) \div ethReserve
  <1>1. a * totalLPTokens \in Nat /\ v * totalLPTokens \in Nat
    BY SMT
  <1>2. x \in Nat /\ y \in Nat
    BY <1>1, DivFloor
  <1>3. Minted(a, v) = IF x < y THEN x ELSE y
    BY DEF Minted
  <1> HIDE DEF x, y
  <1>4. Minted(a, v) \in Nat /\ Minted(a, v) <= x /\ Minted(a, v) <= y
    BY <1>2, <1>3, SMT
  <1> QED BY <1>4 DEF x, y

(* A deposit to a pool with shares leaves no less of either reserve per    *)
(* share.                                                                  *)
LEMMA AddMoreValue ==
  ASSUME IInv, NEW p \in Accounts, NEW a \in Amount, NEW v \in Amount, AddMore(p, a, v)
  PROVE  /\ appleReserve' \in Nat /\ ethReserve' \in Nat /\ totalLPTokens' \in Nat
         /\ totalLPTokens' * appleReserve <= appleReserve' * totalLPTokens
         /\ totalLPTokens' * ethReserve <= ethReserve' * totalLPTokens
  <1> DEFINE lp == Minted(a, v)
  <1>1. a \in Nat /\ v \in Nat
    BY Words
  <1>2. /\ appleReserve \in Nat \ {0} /\ ethReserve \in Nat \ {0} /\ totalLPTokens \in Nat
    BY Words DEF AddMore, IInv, TypeOK
  <1>3. /\ lp \in Nat /\ totalLPTokens' = totalLPTokens + lp
        /\ appleReserve' = appleReserve + a /\ ethReserve' = ethReserve + v
    BY Words DEF AddMore, Deposit
  <1>4. /\ lp <= (a * totalLPTokens) \div appleReserve
        /\ lp <= (v * totalLPTokens) \div ethReserve
    BY <1>1, <1>2, MintedParts
  <1> HIDE DEF lp
  <1>5. /\ (totalLPTokens + lp) * appleReserve <= (appleReserve + a) * totalLPTokens
        /\ (totalLPTokens + lp) * ethReserve <= (ethReserve + v) * totalLPTokens
    BY <1>1, <1>2, <1>3, <1>4, MintPart
  <1>6. appleReserve + a \in Nat /\ ethReserve + v \in Nat /\ totalLPTokens + lp \in Nat
    BY <1>1, <1>2, <1>3, SMT
  <1> QED BY <1>3, <1>5, <1>6

(* No step lowers what a share is worth.                                   *)
LEMMA ValueStep ==
  ASSUME IInv, [Next]_vars, totalLPTokens # 0, totalLPTokens' # 0
  PROVE  k' * totalLPTokens * totalLPTokens >= k * totalLPTokens' * totalLPTokens'
  <1>1. /\ appleReserve \in Nat /\ ethReserve \in Nat /\ totalLPTokens \in Nat
        /\ k \in Nat
    BY Words, SMT DEF IInv, TypeOK, k
  <1> DEFINE Goal == k' * totalLPTokens * totalLPTokens >= k * totalLPTokens' * totalLPTokens'
  <1>2. ASSUME totalLPTokens' = totalLPTokens, k' \in Nat, k' >= k PROVE Goal
    BY <1>1, <1>2, SameShares
  <1>3. ASSUME UNCHANGED <<reserves, shares>> PROVE Goal
    <2>1. totalLPTokens' = totalLPTokens /\ k' = k
      BY <1>3 DEF reserves, shares, k
    <2> QED BY <1>1, <1>2, <2>1, SMT
  <1>4. CASE UNCHANGED vars
    BY <1>3, <1>4 DEF vars
  <1>5. ASSUME NEW p \in Accounts, Transaction(p) PROVE Goal
    <2>1. ASSUME NEW a \in Amount, NEW v \in Amount, AddMore(p, a, v) PROVE Goal
      <3>1. /\ appleReserve' \in Nat /\ ethReserve' \in Nat /\ totalLPTokens' \in Nat
            /\ totalLPTokens' * appleReserve <= appleReserve' * totalLPTokens
            /\ totalLPTokens' * ethReserve <= ethReserve' * totalLPTokens
        BY <2>1, AddMoreValue
      <3> QED BY <1>1, <3>1, ShareValue DEF k
    <2>2. ASSUME NEW lp \in Word, RemoveLiquidity(p, lp) PROVE Goal
      <3>1. /\ lp \in Nat /\ lp <= totalLPTokens /\ totalLPTokens' = totalLPTokens - lp
            /\ appleReserve' \in 0 .. appleReserve /\ ethReserve' \in 0 .. ethReserve
            /\ totalLPTokens' * appleReserve <= appleReserve' * totalLPTokens
            /\ totalLPTokens' * ethReserve <= ethReserve' * totalLPTokens
        BY <2>2, Withdrawal
      <3>2. appleReserve' \in Nat /\ ethReserve' \in Nat /\ totalLPTokens' \in Nat
        BY <1>1, <3>1, SMT
      <3> QED BY <1>1, <3>1, <3>2, ShareValue DEF k
    <2>3. ASSUME NEW v \in Amount, NEW least, swapETHForApples(p, v, least) PROVE Goal
      <3>1. /\ IInv' /\ totalLPTokens' = totalLPTokens /\ appleReserve' \in Nat
            /\ k' >= k + Fee(v) * appleReserve'
        BY <2>3, Buy
      <3>2. appleReserve' \in Nat /\ ethReserve' \in Nat
        BY <3>1, Words DEF IInv, TypeOK
      <3>3. Fee(v) \in Nat
        BY FeePart, Words
      <3>4. k' \in Nat /\ k <= k'
        BY <1>1, <3>1, <3>2, <3>3, Grows DEF k
      <3> QED BY <1>2, <3>1, <3>4
    <2>4. ASSUME NEW a \in Amount, NEW least, swapApplesForETH(p, a, least) PROVE Goal
      <3>1. /\ IInv' /\ totalLPTokens' = totalLPTokens /\ ethReserve' \in Nat
            /\ k' >= k + Fee(a) * ethReserve'
        BY <2>4, Sell
      <3>2. appleReserve' \in Nat /\ ethReserve' \in Nat
        BY <3>1, Words DEF IInv, TypeOK
      <3>3. Fee(a) \in Nat
        BY FeePart, Words
      <3>4. k' \in Nat /\ k <= k'
        BY <1>1, <3>1, <3>2, <3>3, Grows DEF k
      <3> QED BY <1>2, <3>1, <3>4
    <2>5. ASSUME NEW v \in Amount, Donate(p, v) PROVE Goal
      BY <1>3, <2>5, Zenon DEF Donate
    <2>6. ASSUME NEW a \in Amount, NEW v \in Amount, AddFirst(p, a, v) PROVE Goal
      BY <2>6 DEF AddFirst
    <2> QED BY <1>5, <2>1, <2>2, <2>3, <2>4, <2>5, <2>6 DEF Transaction
  <1> QED BY <1>4, <1>5 DEF Next

(* Whoever deposits, withdraws or swaps, and however the amounts round,    *)
(* a share of the pool never loses value.                                  *)
THEOREM ShareValueNeverFallsHolds == Spec => ShareValueNeverFalls
  <1>1. IInv /\ [Next]_vars =>
          [totalLPTokens # 0 /\ totalLPTokens' # 0 =>
             k' * totalLPTokens * totalLPTokens >= k * totalLPTokens' * totalLPTokens']_vars
    BY ValueStep
  <1> QED BY <1>1, Invariance, PTL DEF Spec, ShareValueNeverFalls

-------------------------------------------------------------------------------
(* Fees stay with the providers: only swaps collect any, and the product   *)
(* keeps them.                                                             *)

(* Products of naturals.                                                   *)
LEMMA Products ==
  ASSUME NEW a \in Nat, NEW b \in Nat
  PROVE  a * b \in Nat /\ 0 * a = 0
  BY SMT

(* A step that collects a fee leaves it in the product.                    *)
LEMMA FeeStep ==
  ASSUME IInv, [Next]_vars, fees' # fees
  PROVE  k' >= k + (totalFeesETH' - totalFeesETH) * appleReserve'
                 + (totalFeesApple' - totalFeesApple) * ethReserve'
  <1>1. /\ totalFeesETH \in Nat /\ totalFeesApple \in Nat
        /\ appleReserve \in Nat /\ ethReserve \in Nat
    BY Words DEF IInv, TypeOK
  <1>2. k \in Nat
    BY <1>1, SMT DEF k
  <1>3. IInv' /\ appleReserve' \in Nat /\ ethReserve' \in Nat
    BY IInvInductive, Words DEF IInv, TypeOK
  <1>4. k' \in Nat
    BY <1>3, Products DEF k
  <1> DEFINE Goal == k' >= k + (totalFeesETH' - totalFeesETH) * appleReserve'
                             + (totalFeesApple' - totalFeesApple) * ethReserve'
  <1>5. PICK p \in Accounts : Transaction(p)
    BY Zenon DEF Next, vars
  <1>6. ASSUME NEW v \in Amount, NEW least, swapETHForApples(p, v, least) PROVE Goal
    <2>1. /\ totalFeesApple' = totalFeesApple /\ totalFeesETH' = totalFeesETH + Fee(v)
          /\ k' >= k + Fee(v) * appleReserve'
      BY <1>6, Buy
    <2>2. Fee(v) \in Nat
      BY FeePart, Words
    <2>3. totalFeesETH' - totalFeesETH = Fee(v) /\ totalFeesApple' - totalFeesApple = 0
      BY <1>1, <2>1, <2>2, SMT
    <2>4. Fee(v) * appleReserve' \in Nat /\ 0 * ethReserve' = 0
      BY <1>3, <2>2, Products
    <2> QED BY <1>2, <1>4, <2>1, <2>3, <2>4, SMT
  <1>7. ASSUME NEW a \in Amount, NEW least, swapApplesForETH(p, a, least) PROVE Goal
    <2>1. /\ totalFeesETH' = totalFeesETH /\ totalFeesApple' = totalFeesApple + Fee(a)
          /\ k' >= k + Fee(a) * ethReserve'
      BY <1>7, Sell
    <2>2. Fee(a) \in Nat
      BY FeePart, Words
    <2>3. totalFeesApple' - totalFeesApple = Fee(a) /\ totalFeesETH' - totalFeesETH = 0
      BY <1>1, <2>1, <2>2, SMT
    <2>4. Fee(a) * ethReserve' \in Nat /\ 0 * appleReserve' = 0
      BY <1>3, <2>2, Products
    <2> QED BY <1>2, <1>4, <2>1, <2>3, <2>4, SMT
  <1>8. ASSUME NEW a \in Amount, NEW v \in Amount, AddFirst(p, a, v) \/ AddMore(p, a, v) PROVE Goal
    BY <1>8, Zenon DEF AddFirst, AddMore, Deposit
  <1>9. ASSUME NEW lp \in Word, RemoveLiquidity(p, lp) PROVE Goal
    BY <1>9, Zenon DEF RemoveLiquidity
  <1>10. ASSUME NEW v \in Amount, Donate(p, v) PROVE Goal
    BY <1>10, Zenon DEF Donate
  <1> QED BY <1>5, <1>6, <1>7, <1>8, <1>9, <1>10 DEF Transaction

(* A swap raises the product of the reserves at least by the fee's part,   *)
(* whatever the fee and the rounding.                                      *)
THEOREM FeesStayInPoolHolds == Spec => FeesStayInPool
  <1>1. IInv /\ [Next]_vars =>
          [fees' # fees =>
             k' >= k + (totalFeesETH' - totalFeesETH) * appleReserve'
                     + (totalFeesApple' - totalFeesApple) * ethReserve']_vars
    BY FeeStep
  <1> QED BY <1>1, Invariance, PTL DEF Spec, FeesStayInPool

-------------------------------------------------------------------------------
(* No round trip pays.                                                     *)

(* n / d rounded down is no more than m when n is no more than m * d.      *)
LEMMA DivAtMost ==
  ASSUME NEW n \in Nat, NEW d \in Nat \ {0}, NEW m \in Nat, n <= m * d
  PROVE  n \div d \in Nat /\ n \div d <= m
  <1> DEFINE q == n \div d
  <1>1. q \in Nat /\ q * d <= n
    BY DivFloor
  <1> HIDE DEF q
  <1>2. q <= m
    <2> SUFFICES ASSUME m + 1 <= q PROVE FALSE
      BY <1>1
    <2>1. (m + 1) * d <= q * d
      BY <1>1, ProductMonotone
    <2>2. (m + 1) * d = m * d + d /\ m * d \in Nat
      BY SMT
    <2> QED BY <1>1, <2>1, <2>2, SMT
  <1> QED BY <1>1, <1>2 DEF q

(* The lp shares that a deposit of n into a reserve mints return no more   *)
(* than n of it.                                                           *)
LEMMA SharesReturn ==
  ASSUME NEW n \in Nat, NEW total \in Nat \ {0}, NEW reserve \in Nat \ {0}, NEW lp \in Nat,
         lp <= (n * total) \div reserve
  PROVE  /\ (lp * (reserve + n)) \div (total + lp) \in Nat
         /\ (lp * (reserve + n)) \div (total + lp) <= n
  <1>1. (total + lp) * reserve <= (reserve + n) * total
    BY MintPart
  <1>2. /\ (total + lp) * reserve = total * reserve + lp * reserve
        /\ (reserve + n) * total = total * reserve + n * total
        /\ lp * (reserve + n) = lp * reserve + n * lp
        /\ n * (total + lp) = n * total + n * lp
        /\ total * reserve \in Nat /\ lp * reserve \in Nat
        /\ n * total \in Nat /\ n * lp \in Nat
    BY SMT
  <1>3. lp * (reserve + n) <= n * (total + lp) /\ lp * (reserve + n) \in Nat
    BY <1>1, <1>2, SMT
  <1>4. total + lp \in Nat \ {0}
    BY SMT
  <1> QED BY <1>3, <1>4, DivAtMost

(* The first swap of a round trip, of x for out, then the second, of y of  *)
(* what the first paid, with both fees taken.                              *)
LEMMA TripReturn ==
  ASSUME NEW v \in Nat, NEW x \in Nat, x <= v, NEW in \in Nat \ {0}, NEW out \in Nat \ {0},
         NEW got \in Nat, got = getAmountOut(x, in, out), NEW y \in Nat, y <= got
  PROVE  /\ getAmountOut(y, out - got, in + v) \in Nat
         /\ getAmountOut(y, out - got, in + v) <= v
  <1>1. got < out /\ got * (in + x) <= x * out
    <2>1. x * out \in Nat /\ in + x \in Nat \ {0}
      BY SMT
    <2>2. got * (in + x) <= x * out
      BY <2>1, DivFloor DEF getAmountOut
    <2> QED BY <2>2, SwapOutput
  <1>2. out - got \in Nat \ {0}
    BY <1>1, SMT
  <1>3. got * in <= x * (out - got)
    <2>1. /\ got * (in + x) = got * in + got * x
          /\ x * (out - got) = x * out - got * x
          /\ got * in \in Nat /\ got * x \in Nat /\ x * out \in Nat
      BY SMT
    <2> QED BY <1>1, <2>1, SMT
  <1>4. y * in <= got * in /\ x * (out - got) <= v * (out - got)
    BY <1>2, ProductMonotone
  <1>5. y * (in + v) <= v * (out - got + y) /\ y * (in + v) \in Nat
    <2>1. /\ y * (in + v) = y * in + v * y
          /\ v * (out - got + y) = v * (out - got) + v * y
          /\ y * in \in Nat /\ got * in \in Nat /\ v * y \in Nat
      BY <1>2, SMT
    <2>2. x * (out - got) \in Nat /\ v * (out - got) \in Nat
      BY <1>2, Products
    <2> QED BY <1>3, <1>4, <2>1, <2>2, SMT
  <1>6. out - got + y \in Nat \ {0}
    BY <1>2, SMT
  <1> QED BY <1>5, <1>6, DivAtMost DEF getAmountOut

(* The two round trips, in a pool that is alive.                           *)
LEMMA NoTrip == IInv => NoRoundTripPays
  <1> SUFFICES ASSUME IInv, totalLPTokens # 0, NEW v \in Amount
               PROVE  ~SwapTripPays(v) /\ \A a \in Amount : ~DepositTripPays(a, v)
    BY DEF NoRoundTripPays
  <1>1. /\ appleReserve \in Nat \ {0} /\ ethReserve \in Nat \ {0}
        /\ totalLPTokens \in Nat \ {0} /\ v \in Nat
    BY Words DEF IInv, TypeOK, PoolAlive
  <1>2. ~SwapTripPays(v)
    <2> DEFINE out == SwapOut(v, ethReserve, appleReserve)
               x == v - Fee(v)
               y == out - Fee(out)
    <2>1. x \in Nat /\ x <= v
      BY <1>1, FeePart
    <2>2. out = getAmountOut(x, ethReserve, appleReserve) /\ out \in Nat
      BY <1>1, <2>1, SwapOutput DEF SwapOut
    <2>3. y \in Nat /\ y <= out
      <3> HIDE DEF out
      <3> QED BY <2>2, FeePart
    <2>4. /\ getAmountOut(y, appleReserve - out, ethReserve + v) \in Nat
          /\ getAmountOut(y, appleReserve - out, ethReserve + v) <= v
      <3> HIDE DEF out, x, y
      <3> QED BY <1>1, <2>1, <2>2, <2>3, TripReturn
    <2>5. SwapOut(out, appleReserve - out, ethReserve + v)
            = getAmountOut(y, appleReserve - out, ethReserve + v)
      BY DEF SwapOut
    <2>6. ~(SwapOut(out, appleReserve - out, ethReserve + v) > v)
      BY <1>1, <2>4, <2>5
    <2> QED BY <2>6 DEF SwapTripPays
  <1>3. ASSUME NEW a \in Amount PROVE ~DepositTripPays(a, v)
    <2> DEFINE lp == Minted(a, v)
    <2>1. a \in Nat
      BY Words
    <2>2. /\ lp \in Nat
          /\ lp <= (a * totalLPTokens) \div appleReserve
          /\ lp <= (v * totalLPTokens) \div ethReserve
      BY <1>1, <2>1, MintedParts
    <2> HIDE DEF lp
    <2>3. ~((lp * (appleReserve + a)) \div (totalLPTokens + lp) > a)
      BY <1>1, <2>1, <2>2, SharesReturn
    <2>4. ~((lp * (ethReserve + v)) \div (totalLPTokens + lp) > v)
      BY <1>1, <2>2, SharesReturn
    <2> QED BY <2>3, <2>4 DEF DepositTripPays, lp
  <1> QED BY <1>2, <1>3

(* Neither a deposit withdrawn at once nor a purchase sold at once pays    *)
(* its maker, whatever the pool, the fee and the rounding.                 *)
THEOREM NoRoundTripPaysHolds == Spec => []NoRoundTripPays
  BY Invariance, NoTrip, PTL

-------------------------------------------------------------------------------
(* The shares add up.  The library's induction takes an operator, so what  *)
(* a recursive function is at every argument is proved of the least one    *)
(* at which it is not.                                                     *)

(* Among finite sets some one has no other as its part.                    *)
LEMMA MinimalSubset ==
  ASSUME NEW S, IsFiniteSet(S), NEW F, F \subseteq SUBSET S, F # {}
  PROVE  \E T \in F : \A U \in F : U \subseteq T => U = T
  <1>1. F \subseteq FiniteSubsetsOf(S)
    BY FS_Subset DEF FiniteSubsetsOf
  <1>2. PICK T \in F : \A U \in F : ~(<<U, T>> \in StrictSubsetOrdering(S))
    BY <1>1, WFMin, FS_StrictSubsetOrderingWellFounded
  <1>3. \A U \in F : U \subseteq T => U = T
    BY <1>2 DEF StrictSubsetOrdering
  <1> QED
    BY <1>3

(* Among naturals some one is the least.                                   *)
LEMMA LeastNatural ==
  ASSUME NEW N, N \subseteq Nat, N # {}
  PROVE  \E n \in N : \A m \in N : n <= m
  <1>1. PICK top \in N : TRUE
    OBVIOUS
  <1> DEFINE Below == {n \in N : n <= top}
             F == {0 .. n : n \in Below}
             S == 0 .. top
  <1>2. IsFiniteSet(S) /\ F \subseteq SUBSET S /\ F # {}
    <2>1. \A n \in Below : 0 .. n \subseteq 0 .. top
      BY <1>1
    <2>2. 0 .. top \in F
      BY <1>1
    <2>3. IsFiniteSet(0 .. top)
      BY <1>1, FS_Interval
    <2> QED
      BY <2>1, <2>2, <2>3
  <1>3. PICK T \in F : \A U \in F : U \subseteq T => U = T
    <2> HIDE DEF F, S
    <2> QED
      BY <1>2, MinimalSubset
  <1>4. PICK n \in Below : T = 0 .. n
    BY <1>3
  <1>5. ASSUME NEW m \in N, m < n PROVE FALSE
    <2>1. m \in Below /\ 0 .. m \subseteq 0 .. n /\ n \in 0 .. n /\ n \notin 0 .. m
      BY <1>4, <1>5
    <2> QED
      BY <1>3, <1>4, <2>1
  <1> QED
    BY <1>4, <1>5

(* A sum over a set, as MapThenSumSet computes it: of the rest, and of an  *)
(* element that is picked.                                                 *)
Pick(s) == CHOOSE x \in s : TRUE

Sums(b, D, f) ==
  f = [s \in D |-> IF s = {} THEN 0 ELSE b[Pick(s)] + f[s \ {Pick(s)}]]

Sum(b, S) == (CHOOSE h : Sums(b, SUBSET S, h))[S]

(* A part of a finite set, with and without what is picked of it.          *)
LEMMA Part ==
  ASSUME NEW S, IsFiniteSet(S), NEW s, s \subseteq S
  PROVE  /\ Cardinality(s) \in Nat /\ Cardinality(s) <= Cardinality(S)
         /\ Cardinality(s) = 0 => s = {}
  BY FS_Subset, FS_CardinalityType, FS_EmptySet

(* What is left of a part when one element is picked has one element fewer.*)
LEMMA PartRest ==
  ASSUME NEW S, IsFiniteSet(S), NEW s, s \subseteq S, s # {}
  PROVE  /\ Pick(s) \in s /\ s \ {Pick(s)} \subseteq S /\ s \ {Pick(s)} # s
         /\ Cardinality(s \ {Pick(s)}) = Cardinality(s) - 1
  <1>1. Pick(s) \in s
    BY Zenon DEF Pick
  <1>2. IsFiniteSet(s)
    BY FS_Subset
  <1>3. Cardinality(s \ {Pick(s)}) = Cardinality(s) - 1
    BY <1>1, <1>2, FS_RemoveElement
  <1> QED
    BY <1>1, <1>3

(* The recursive function of a sum exists: else it fails to from some least*)
(* cardinality on.                                                         *)
LEMMA SumsExist ==
  ASSUME NEW b, NEW S, IsFiniteSet(S)
  PROVE  \E f : Sums(b, SUBSET S, f)
  <1> DEFINE Small(n) == {s \in SUBSET S : Cardinality(s) <= n}
             N == {n \in Nat : ~\E f : Sums(b, Small(n), f)}
  <1>3. ASSUME N # {} PROVE FALSE
    <2>1. PICK n \in Nat : n \in N /\ \A m \in N : n <= m
      <3>1. N \subseteq Nat
        OBVIOUS
      <3> HIDE DEF N
      <3> QED
        BY <1>3, <3>1, LeastNatural
    <2>2. CASE n = 0
      <3> DEFINE f == [s \in Small(n) |-> 0]
      <3>1. \A s \in Small(n) : s = {}
        <4> SUFFICES ASSUME NEW s \in SUBSET S, Cardinality(s) <= 0 PROVE s = {}
          BY <2>2
        <4> QED
          BY Part
      <3>2. Sums(b, Small(n), f)
        BY <3>1 DEF Sums
      <3> QED
        BY <2>1, <3>2
    <2>3. CASE n # 0
      <3>1. n - 1 \in Nat /\ n - 1 \notin N
        <4> HIDE DEF N
        <4> QED
          BY <2>1, <2>3
      <3>2. PICK g : Sums(b, Small(n - 1), g)
        BY <3>1
      <3> DEFINE f == [s \in Small(n) |->
                         IF s = {} THEN 0 ELSE b[Pick(s)] + g[s \ {Pick(s)}]]
      <3>3. \A s \in Small(n) : s # {} => s \ {Pick(s)} \in Small(n - 1)
        <4> SUFFICES ASSUME NEW s \in SUBSET S, Cardinality(s) <= n, s # {}
                     PROVE  /\ s \ {Pick(s)} \in SUBSET S
                            /\ Cardinality(s \ {Pick(s)}) <= n - 1
          OBVIOUS
        <4> QED
          BY Part, PartRest
      <3>4. \A s \in Small(n - 1) : s \in Small(n)
        <4> SUFFICES ASSUME NEW s \in SUBSET S, Cardinality(s) <= n - 1
                     PROVE  Cardinality(s) <= n
          OBVIOUS
        <4> QED
          BY Part
      <3>5. \A s \in Small(n - 1) : f[s] = g[s]
        BY <3>2, <3>4 DEF Sums
      <3>6. \A s \in Small(n) : s # {} => f[s \ {Pick(s)}] = g[s \ {Pick(s)}]
        BY <3>3, <3>5
      <3>7. Sums(b, Small(n), f)
        BY <3>6 DEF Sums
      <3> QED
        BY <2>1, <3>7
    <2> QED
      BY <2>2, <2>3
  <1>4. Cardinality(S) \in Nat
    BY FS_CardinalityType
  <1>5. PICK f : Sums(b, Small(Cardinality(S)), f)
    BY <1>3, <1>4
  <1>6. Small(Cardinality(S)) = SUBSET S
    BY Part, Zenon
  <1> QED
    BY <1>5, <1>6

(* A change of one term changes the sum by as much.                        *)
LEMMA SumChange ==
  ASSUME NEW S, IsFiniteSet(S), NEW b \in [S -> Int], NEW c \in [S -> Int], NEW p \in S,
         \A x \in S \ {p} : c[x] = b[x]
  PROVE  Sum(b, S) \in Int /\ Sum(c, S) = Sum(b, S) + (c[p] - b[p])
  <1>1. PICK f : f = (CHOOSE h : Sums(b, SUBSET S, h)) /\ Sums(b, SUBSET S, f)
    BY SumsExist
  <1>2. PICK g : g = (CHOOSE h : Sums(c, SUBSET S, h)) /\ Sums(c, SUBSET S, g)
    BY SumsExist
  <1> DEFINE d == c[p] - b[p]
             Q(s) == f[s] \in Int /\ g[s] = IF p \in s THEN f[s] + d ELSE f[s]
             F == {s \in SUBSET S : ~Q(s)}
  <1>3. ASSUME F # {} PROVE FALSE
    <2>1. PICK s \in SUBSET S : s \in F /\ \A u \in F : u \subseteq s => u = s
      <3>1. F \subseteq SUBSET S
        OBVIOUS
      <3> HIDE DEF F
      <3> QED
        BY <1>3, <3>1, MinimalSubset
    <2>2. s # {}
      <3>1. f[{}] = 0 /\ g[{}] = 0
        BY <1>1, <1>2 DEF Sums
      <3>2. Q({})
        BY <3>1
      <3> QED
        BY <2>1, <3>2
    <2> DEFINE x == Pick(s)
               u == s \ {x}
    <2>3. x \in s /\ x \in S /\ u \in SUBSET S /\ u # s
      BY <2>2, PartRest
    <2>4. Q(u)
      BY <2>1, <2>3
    <2>5. f[s] = b[x] + f[u] /\ g[s] = c[x] + g[u]
      BY <1>1, <1>2, <2>2 DEF Sums
    <2>6. b[x] \in Int /\ c[x] = IF x = p THEN b[x] + d ELSE b[x]
      BY <2>3
    <2>7. d \in Int
      OBVIOUS
    <2> HIDE DEF x, d
    <2>8. Q(s)
      BY <2>3, <2>4, <2>5, <2>6, <2>7
    <2> QED
      BY <2>1, <2>8
  <1>4. Q(S)
    BY <1>3
  <1> QED
    BY <1>1, <1>2, <1>4 DEF Sum

(* Zeros add up to zero.                                                   *)
LEMMA SumZero ==
  ASSUME NEW S, IsFiniteSet(S), NEW b, b = [p \in S |-> 0]
  PROVE  Sum(b, S) = 0
  <1>1. PICK f : f = (CHOOSE h : Sums(b, SUBSET S, h)) /\ Sums(b, SUBSET S, f)
    BY SumsExist
  <1> DEFINE F == {s \in SUBSET S : f[s] # 0}
  <1>2. ASSUME F # {} PROVE FALSE
    <2>1. PICK s \in SUBSET S : s \in F /\ \A u \in F : u \subseteq s => u = s
      <3>1. F \subseteq SUBSET S
        OBVIOUS
      <3> HIDE DEF F
      <3> QED
        BY <1>2, <3>1, MinimalSubset
    <2>2. s # {}
      <3>1. f[{}] = 0
        BY <1>1 DEF Sums
      <3> QED
        BY <2>1, <3>1
    <2> DEFINE x == Pick(s)
               u == s \ {x}
    <2>3. x \in s /\ x \in S /\ u \in SUBSET S /\ u # s
      BY <2>2, PartRest
    <2>4. f[u] = 0
      BY <2>1, <2>3
    <2>5. f[s] = b[x] + f[u]
      BY <1>1, <2>2 DEF Sums
    <2>6. b[x] = 0
      BY <2>3
    <2> HIDE DEF x
    <2> QED
      BY <2>1, <2>4, <2>5, <2>6
  <1> QED
    BY <1>1, <1>2 DEF Sum

-------------------------------------------------------------------------------
(* Every share that is minted or burnt is somebody's.                      *)
Shares == totalLPTokens = Sum(lpBalances, Accounts)

(* Nobody has a share of a new pool.                                       *)
LEMMA SharesInit == Init => Shares
  <1> SUFFICES ASSUME Init PROVE Shares
    OBVIOUS
  <1>1. /\ lpBalances = [p \in Accounts |-> 0] /\ totalLPTokens = 0
        /\ IsFiniteSet(Accounts)
    BY PoolAssumption DEF Init
  <1> QED BY <1>1, SumZero DEF Shares

(* A total that changes as one provider's shares do stays their sum.       *)
LEMMA SharesMove ==
  ASSUME IInv, Shares, NEW p \in Accounts, lpBalances' \in [Accounts -> Int],
         \A x \in Accounts \ {p} : lpBalances'[x] = lpBalances[x],
         totalLPTokens' = totalLPTokens + (lpBalances'[p] - lpBalances[p])
  PROVE  Shares'
  <1>1. lpBalances \in [Accounts -> Int] /\ IsFiniteSet(Accounts)
    BY PoolAssumption DEF IInv, TypeOK
  <1>2. Sum(lpBalances', Accounts)
          = Sum(lpBalances, Accounts) + (lpBalances'[p] - lpBalances[p])
    BY <1>1, SumChange
  <1> QED BY <1>2 DEF Shares

(* Every transaction changes them so, or neither.                          *)
LEMMA SharesKept == IInv /\ Shares /\ [Next]_vars => Shares'
  <1> SUFFICES ASSUME IInv, Shares, [Next]_vars PROVE Shares'
    OBVIOUS
  <1>1. ASSUME UNCHANGED shares PROVE Shares'
    BY <1>1 DEF shares, Shares
  <1>2. CASE UNCHANGED vars
    BY <1>1, <1>2 DEF vars
  <1>3. ASSUME NEW p \in Accounts, Transaction(p) PROVE Shares'
    <2>1. ASSUME NEW a \in Amount, NEW v \in Amount, AddFirst(p, a, v) \/ AddMore(p, a, v)
          PROVE  Shares'
      <3>1. PICK lp : Deposit(p, a, v, lp)
        BY <2>1 DEF AddFirst, AddMore
      <3>2. /\ lp \in Int /\ lpBalances' = [lpBalances EXCEPT ![p] = @ + lp]
            /\ totalLPTokens' = totalLPTokens + lp /\ lpBalances \in [Accounts -> Int]
        BY <3>1, Words DEF Deposit, IInv, TypeOK
      <3>3. /\ lpBalances' \in [Accounts -> Int]
            /\ \A x \in Accounts \ {p} : lpBalances'[x] = lpBalances[x]
            /\ lpBalances'[p] - lpBalances[p] = lp
        BY <3>2
      <3> QED BY <3>2, <3>3, SharesMove
    <2>2. ASSUME NEW lp \in Word, RemoveLiquidity(p, lp) PROVE Shares'
      <3>1. /\ lp \in Int /\ totalLPTokens \in Int /\ lpBalances \in [Accounts -> Int]
        BY Words DEF IInv, TypeOK
      <3>2. /\ lpBalances' = [lpBalances EXCEPT ![p] = @ - lp]
            /\ totalLPTokens' = totalLPTokens - lp
        BY <2>2 DEF RemoveLiquidity
      <3>3. /\ lpBalances' \in [Accounts -> Int]
            /\ \A x \in Accounts \ {p} : lpBalances'[x] = lpBalances[x]
            /\ totalLPTokens' = totalLPTokens + (lpBalances'[p] - lpBalances[p])
        BY <3>1, <3>2
      <3> QED BY <3>3, SharesMove
    <2>3. ASSUME NEW v \in Amount, NEW least,
                 swapETHForApples(p, v, least) \/ swapApplesForETH(p, v, least)
          PROVE  Shares'
      BY <1>1, <2>3, Zenon DEF swapETHForApples, swapApplesForETH
    <2>4. ASSUME NEW v \in Amount, Donate(p, v) PROVE Shares'
      BY <1>1, <2>4, Zenon DEF Donate
    <2> QED BY <1>3, <2>1, <2>2, <2>3, <2>4 DEF Transaction
  <1> QED BY <1>2, <1>3 DEF Next

(* Whoever deposits and withdraws, the shares of the providers add up to   *)
(* the total that addLiquidity and removeLiquidity divide by.              *)
THEOREM SharesAddUpHolds == Spec => []SharesAddUp
  <1>1. Shares => SharesAddUp
    BY DEF Shares, SharesAddUp, Sum, Sums, Pick, MapThenSumSet, MapThenFoldSet
  <1> QED BY <1>1, Invariance, SharesInit, SharesKept, PTL DEF Spec

-------------------------------------------------------------------------------
(* The first deposit mints the whole part of the geometric mean.           *)

(* A guess is above the root, or its whole part; one that is no less than  *)
(* the guess before shows that guess to be no more than the root.          *)
LEMMA Guess ==
  ASSUME NEW x \in Nat \ {0}, NEW y \in Nat \ {0}
  PROVE  /\ guess(x, y) \in Nat \ {0}
         /\ x < (guess(x, y) + 1) * (guess(x, y) + 1)
         /\ y <= guess(x, y) => y * y <= x
  <1> DEFINE q == x \div y
             g == (q + y) \div 2
  <1>1. q \in Nat /\ q * y <= x /\ x < (q + 1) * y
    BY DivFloor
  <1> HIDE DEF q
  <1>2. g \in Nat /\ 2 * g <= q + y /\ q + y <= 2 * g + 1
    BY <1>1, SMT
  <1> HIDE DEF g
  <1>3. g # 0
    <2> SUFFICES ASSUME g = 0 PROVE FALSE
      OBVIOUS
    <2>1. q = 0 /\ y = 1
      BY <1>1, <1>2
    <2> QED BY <1>1, <2>1
  <1>4. x < (g + 1) * (g + 1)
    <2> DEFINE s == q + 1 + y
               m == 2 * (g + 1)
    <2>1. s \in Nat /\ m \in Nat /\ s <= m
      BY <1>1, <1>2
    <2>2. s * s <= m * m
      <3> HIDE DEF s, m
      <3> QED BY <2>1, ProductMonotone
    <2>3. m * m = 4 * ((g + 1) * (g + 1))
      BY <1>2, SMT
    <2>4. 4 * ((q + 1) * y) <= s * s
      <3>1. s * s = 4 * ((q + 1) * y) + (q + 1 - y) * (q + 1 - y)
        BY <1>1, SMT
      <3>2. (q + 1 - y) * (q + 1 - y) >= 0
        BY <1>1, SMT
      <3>3. (q + 1) * y \in Int /\ (q + 1 - y) * (q + 1 - y) \in Int
        BY <1>1, SMT
      <3> HIDE DEF s
      <3> QED BY <3>1, <3>2, <3>3
    <2>5. (q + 1) * y \in Nat /\ (g + 1) * (g + 1) \in Nat
      BY <1>1, <1>2, Products
    <2>6. s * s \in Nat
      <3> HIDE DEF s, m
      <3> QED BY <2>1, Products
    <2> HIDE DEF s, m
    <2> QED BY <1>1, <2>2, <2>3, <2>4, <2>5, <2>6
  <1>5. ASSUME y <= g PROVE y * y <= x
    <2>1. y <= q
      BY <1>1, <1>2, <1>5
    <2>2. y * y <= q * y
      BY <1>1, <2>1, ProductMonotone
    <2>3. y * y \in Nat /\ q * y \in Nat
      BY <1>1, Products
    <2> QED BY <1>1, <2>2, <2>3
  <1>6. guess(x, y) = g
    BY DEF guess, g, q
  <1> QED BY <1>2, <1>3, <1>4, <1>5, <1>6

(* The loop, from any of the first n guesses.                              *)
Loop(x, n, f) ==
  f = [y \in 1 .. n |-> IF guess(x, y) < y THEN f[guess(x, y)] ELSE y]

(* The recursive function of the loop exists, from however many guesses.   *)
LEMMA LoopExists ==
  ASSUME NEW x \in Nat \ {0}
  PROVE  \E f : Loop(x, x, f)
  <1> DEFINE N == {n \in Nat : ~\E f : Loop(x, n, f)}
  <1>1. ASSUME N # {} PROVE FALSE
    <2>1. PICK n \in Nat : n \in N /\ \A m \in N : n <= m
      <3>1. N \subseteq Nat
        OBVIOUS
      <3> HIDE DEF N
      <3> QED BY <1>1, <3>1, LeastNatural
    <2>2. CASE n = 0
      <3> DEFINE f == [y \in 1 .. 0 |-> y]
      <3>1. Loop(x, 0, f)
        BY DEF Loop
      <3> QED BY <2>1, <2>2, <3>1
    <2>3. CASE n # 0
      <3>1. n - 1 \in Nat /\ n - 1 \notin N
        <4> HIDE DEF N
        <4> QED BY <2>1, <2>3
      <3>2. PICK h : Loop(x, n - 1, h)
        BY <3>1
      <3> DEFINE f == [y \in 1 .. n |-> IF guess(x, y) < y THEN h[guess(x, y)] ELSE y]
      <3>3. \A y \in 1 .. n : guess(x, y) < y => guess(x, y) \in 1 .. n - 1
        <4> SUFFICES ASSUME NEW y \in 1 .. n, guess(x, y) < y PROVE guess(x, y) \in 1 .. n - 1
          OBVIOUS
        <4>1. guess(x, y) \in Nat \ {0}
          BY Guess
        <4> QED BY <4>1
      <3>4. \A y \in 1 .. n - 1 : f[y] = h[y]
        BY <3>2 DEF Loop
      <3>5. \A y \in 1 .. n : guess(x, y) < y => f[guess(x, y)] = h[guess(x, y)]
        BY <3>3, <3>4
      <3>6. Loop(x, n, f)
        BY <3>5 DEF Loop
      <3> QED BY <2>1, <3>6
    <2> QED BY <2>2, <2>3
  <1> QED BY <1>1

(* The loop of sqrt ends with the whole part of the root.                  *)
LEMMA Root ==
  ASSUME NEW x \in Nat \ {0}
  PROVE  /\ sqrt(x) \in Nat \ {0}
         /\ sqrt(x) * sqrt(x) <= x
         /\ x < (sqrt(x) + 1) * (sqrt(x) + 1)
  <1>1. PICK f : f = (CHOOSE h : Loop(x, x, h)) /\ Loop(x, x, f)
    BY LoopExists
  <1> DEFINE Right(r) == r \in Nat \ {0} /\ r * r <= x /\ x < (r + 1) * (r + 1)
             N == {y \in 1 .. x : x < (y + 1) * (y + 1) /\ ~Right(f[y])}
  <1>2. ASSUME N # {} PROVE FALSE
    <2>1. PICK y \in 1 .. x : y \in N /\ \A z \in N : y <= z
      <3>1. N \subseteq Nat /\ N \subseteq 1 .. x
        OBVIOUS
      <3> HIDE DEF N
      <3> QED BY <1>2, <3>1, LeastNatural
    <2>2. /\ guess(x, y) \in Nat \ {0} /\ y \in Nat \ {0}
          /\ x < (guess(x, y) + 1) * (guess(x, y) + 1)
          /\ y <= guess(x, y) => y * y <= x
      BY Guess
    <2>3. f[y] = IF guess(x, y) < y THEN f[guess(x, y)] ELSE y
      BY <1>1 DEF Loop
    <2>4. CASE guess(x, y) < y
      <3>1. guess(x, y) \in 1 .. x /\ guess(x, y) \notin N
        <4> HIDE DEF N
        <4> QED BY <2>1, <2>2, <2>4
      <3>2. Right(f[guess(x, y)])
        BY <2>2, <3>1
      <3> QED BY <2>1, <2>3, <2>4, <3>2
    <2>5. CASE ~(guess(x, y) < y)
      <3>1. Right(y)
        BY <2>1, <2>2, <2>5
      <3> QED BY <2>1, <2>3, <2>5, <3>1
    <2> QED BY <2>4, <2>5
  <1>3. x \in 1 .. x /\ x < (x + 1) * (x + 1)
    BY SMT
  <1>4. Right(f[x])
    BY <1>2, <1>3
  <1>5. sqrt(x) = f[x]
    BY <1>1 DEF sqrt, Loop
  <1> QED BY <1>4, <1>5

(* Only a first deposit mints into a pool without shares, and it mints the *)
(* root.                                                                   *)
LEMMA FirstDeposit ==
  ASSUME IInv, [Next]_vars, totalLPTokens = 0, totalLPTokens' # 0
  PROVE  /\ totalLPTokens' * totalLPTokens' <= k'
         /\ k' < (totalLPTokens' + 1) * (totalLPTokens' + 1)
  <1>1. appleReserve = 0 /\ ethReserve = 0
    BY DEF IInv, PoolAlive
  <1>2. PICK p \in Accounts : Transaction(p)
    BY DEF Next, vars, shares
  <1>3. PICK a \in Amount, v \in Amount : AddFirst(p, a, v)
    <2>1. ~\E a \in Amount, v \in Amount : AddMore(p, a, v)
      BY DEF AddMore
    <2>2. ASSUME NEW lp \in Word, RemoveLiquidity(p, lp) PROVE FALSE
      BY <2>2, Words DEF RemoveLiquidity
    <2>3. ASSUME NEW v \in Amount, NEW least,
                 swapETHForApples(p, v, least) \/ swapApplesForETH(p, v, least)
          PROVE  FALSE
      BY <2>3, Zenon DEF swapETHForApples, swapApplesForETH, shares
    <2>4. ASSUME NEW v \in Amount, Donate(p, v) PROVE FALSE
      BY <2>4, Zenon DEF Donate, shares
    <2> QED BY <1>2, <2>1, <2>2, <2>3, <2>4 DEF Transaction
  <1>4. a * v \in Nat \ {0}
    <2>1. a \in Nat \ {0} /\ v \in Nat \ {0}
      BY Words
    <2> QED BY <2>1, SMT
  <1>5. /\ totalLPTokens' = 0 + sqrt(a * v) /\ appleReserve' = 0 + a /\ ethReserve' = 0 + v
    BY <1>1, <1>3 DEF AddFirst, Deposit
  <1>6. totalLPTokens' = sqrt(a * v) /\ k' = a * v
    BY <1>4, <1>5, Words, Root DEF k
  <1> QED BY <1>4, <1>6, Root

(* Whatever the first deposit, sqrt's loop mints it the whole part of the  *)
(* root: the shares squared are no more than the product of the reserves,  *)
(* and one share more would be.                                            *)
THEOREM FirstDepositIsRootHolds == Spec => FirstDepositIsRoot
  <1>1. IInv /\ [Next]_vars =>
          [totalLPTokens = 0 /\ totalLPTokens' # 0 =>
             /\ totalLPTokens' * totalLPTokens' <= k'
             /\ k' < (totalLPTokens' + 1) * (totalLPTokens' + 1)]_vars
    BY FirstDeposit
  <1> QED BY <1>1, Invariance, PTL DEF Spec, FirstDepositIsRoot
===============================================================================
