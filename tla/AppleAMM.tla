------------------------------- MODULE AppleAMM -------------------------------
(***************************************************************************)
(* contracts/src/AppleAMM.sol: the constant-product pool of APPL and ETH.  *)
(* A transaction is one step (the EVM runs one at a time and the contract  *)
(* is nonReentrant); one that reverts changes nothing and is no step.      *)
(*                                                                         *)
(* Arithmetic is that of the contract: integer division rounds down and a  *)
(* value that does not fit a word reverts, as Solidity 0.8 checks it.  The *)
(* word, 2^256 values in the EVM, and the fee, 30/10000 in the code, are   *)
(* parameters.  APPL is a plain ERC-20 (AppleToken.sol): allowances only   *)
(* make transfers fail and are left out, as are the events.                *)
(***************************************************************************)
EXTENDS Integers, FiniteSetsExt

CONSTANTS
  Accounts,          (* who calls the contract                             *)
  AMM,               (* the contract's own address                         *)
  Supply,            (* bound: APPL and ETH each account starts with       *)
  MaxWord,           (* the largest uint256                                *)
  FEE_NUMERATOR, FEE_DENOMINATOR,
  MaxFees            (* bound: fees collected per currency                 *)

ASSUME PoolAssumption ==
  /\ AMM \notin Accounts /\ IsFiniteSet(Accounts)
  /\ Supply \in Nat /\ MaxWord \in Nat /\ MaxFees \in Nat
  /\ FEE_NUMERATOR \in Nat /\ FEE_DENOMINATOR \in Nat
  /\ FEE_NUMERATOR < FEE_DENOMINATOR

VARIABLES
  appleReserve, ethReserve,
  totalLPTokens, lpBalances,
  totalFeesApple, totalFeesETH,
  apples, ethers       (* the APPL and the ETH each address holds          *)

reserves == <<appleReserve, ethReserve>>
shares   == <<totalLPTokens, lpBalances>>
fees     == <<totalFeesApple, totalFeesETH>>
vars     == <<reserves, shares, fees, apples, ethers>>

Holders == Accounts \cup {AMM}
Word    == 0 .. MaxWord
Amount  == 1 .. Supply          (* zero amounts revert everywhere          *)

(* The state after the constructor and the mints of Deploy.s.sol.          *)
Init ==
  /\ appleReserve = 0 /\ ethReserve = 0
  /\ totalLPTokens = 0 /\ lpBalances = [p \in Accounts |-> 0]
  /\ totalFeesApple = 0 /\ totalFeesETH = 0
  /\ apples = [h \in Holders |-> IF h = AMM THEN 0 ELSE Supply]
  /\ ethers = [h \in Holders |-> IF h = AMM THEN 0 ELSE Supply]

(* n units of a currency go from one address to another.                   *)
Moved(balances, from, to, n) ==
  [balances EXCEPT ![from] = @ - n, ![to] = @ + n]

-------------------------------------------------------------------------------
(* Liquidity.                                                              *)

(* The Babylonian loop: guess after guess until they stop falling.  The    *)
(* code starts from x and (x + 1) / 2, which is the guess after x.         *)
guess(x, y) == (x \div y + y) \div 2

sqrt(x) ==
  LET loop[y \in 1 .. x] == IF guess(x, y) < y THEN loop[guess(x, y)] ELSE y
  IN  IF x = 0 THEN 0 ELSE loop[x]

(* Mutant of Deposit: an earlier share of the provider is forgotten.       *)
DepositForgotten(p, a, v, lp) ==
  /\ lp \in Word \ {0}
  /\ {appleReserve + a, ethReserve + v, totalLPTokens + lp} \subseteq Word
  /\ a <= apples[p] /\ v <= ethers[p]
  /\ appleReserve' = appleReserve + a
  /\ ethReserve' = ethReserve + v
  /\ totalLPTokens' = totalLPTokens + lp
  /\ lpBalances' = [lpBalances EXCEPT ![p] = lp]
  /\ apples' = Moved(apples, p, AMM, a)
  /\ ethers' = Moved(ethers, p, AMM, v)
  /\ UNCHANGED fees

(* The deposit of a APPL and v ETH that mints lp shares.                   *)
Deposit(p, a, v, lp) ==
  /\ lp \in Word \ {0}
  /\ {appleReserve + a, ethReserve + v, totalLPTokens + lp} \subseteq Word
  /\ a <= apples[p] /\ v <= ethers[p]
  /\ appleReserve' = appleReserve + a
  /\ ethReserve' = ethReserve + v
  /\ totalLPTokens' = totalLPTokens + lp
  /\ lpBalances' = [lpBalances EXCEPT ![p] = @ + lp]
  /\ apples' = Moved(apples, p, AMM, a)
  /\ ethers' = Moved(ethers, p, AMM, v)
  /\ UNCHANGED fees

(* Mutant of AddFirst: one share fewer than the root.                      *)
AddFirstShort(p, a, v) ==
  /\ totalLPTokens = 0
  /\ a * v + 1 \in Word
  /\ Deposit(p, a, v, sqrt(a * v) - 1)

(* addLiquidity to a pool without shares: the geometric mean.              *)
AddFirst(p, a, v) ==
  /\ totalLPTokens = 0
  /\ a * v + 1 \in Word
  /\ Deposit(p, a, v, sqrt(a * v))

(* addLiquidity to one with shares: the smaller of the two proportions.    *)
Minted(a, v) ==
  LET fromApple == (a * totalLPTokens) \div appleReserve
      fromETH   == (v * totalLPTokens) \div ethReserve
  IN  IF fromApple < fromETH THEN fromApple ELSE fromETH

AddMore(p, a, v) ==
  /\ totalLPTokens # 0 /\ appleReserve # 0 /\ ethReserve # 0
  /\ {a * totalLPTokens, v * totalLPTokens} \subseteq Word
  /\ Deposit(p, a, v, Minted(a, v))

(* Mutant of ShareOf: rounded up.                                          *)
ShareUp(lp, reserve) == (lp * reserve + totalLPTokens - 1) \div totalLPTokens

(* removeLiquidity: the share of each reserve that lp is of all shares.    *)
ShareOf(lp, reserve) == (lp * reserve) \div totalLPTokens

(* Mutants of RemoveLiquidity: the ETH reserve, or the total, is kept.     *)
RemoveKeepsReserve(p, lp) ==
  /\ lp # 0 /\ lp <= lpBalances[p] /\ lp <= totalLPTokens
  /\ LET appleOut == ShareOf(lp, appleReserve)
         ethOut   == ShareOf(lp, ethReserve)
     IN  /\ appleOut # 0 /\ ethOut # 0 /\ ethOut <= ethers[AMM]
         /\ appleReserve' = appleReserve - appleOut
         /\ apples' = Moved(apples, AMM, p, appleOut)
         /\ ethers' = Moved(ethers, AMM, p, ethOut)
  /\ lpBalances' = [lpBalances EXCEPT ![p] = @ - lp]
  /\ totalLPTokens' = totalLPTokens - lp
  /\ UNCHANGED <<ethReserve, fees>>

RemoveKeepsTotal(p, lp) ==
  /\ lp # 0 /\ lp <= lpBalances[p]
  /\ LET appleOut == ShareOf(lp, appleReserve)
         ethOut   == ShareOf(lp, ethReserve)
     IN  /\ appleOut # 0 /\ ethOut # 0
         /\ appleReserve' = appleReserve - appleOut
         /\ ethReserve' = ethReserve - ethOut
         /\ apples' = Moved(apples, AMM, p, appleOut)
         /\ ethers' = Moved(ethers, AMM, p, ethOut)
  /\ lpBalances' = [lpBalances EXCEPT ![p] = @ - lp]
  /\ UNCHANGED <<totalLPTokens, fees>>

RemoveLiquidity(p, lp) ==
  /\ lp # 0 /\ lp <= lpBalances[p] /\ lp <= totalLPTokens
  /\ {lp * appleReserve, lp * ethReserve} \subseteq Word
  /\ LET appleOut == ShareOf(lp, appleReserve)
         ethOut   == ShareOf(lp, ethReserve)
     IN  /\ appleOut # 0 /\ ethOut # 0
         /\ appleOut <= appleReserve /\ ethOut <= ethReserve
         /\ appleOut <= apples[AMM] /\ ethOut <= ethers[AMM]
         /\ appleReserve' = appleReserve - appleOut
         /\ ethReserve' = ethReserve - ethOut
         /\ apples' = Moved(apples, AMM, p, appleOut)
         /\ ethers' = Moved(ethers, AMM, p, ethOut)
  /\ lpBalances' = [lpBalances EXCEPT ![p] = @ - lp]
  /\ totalLPTokens' = totalLPTokens - lp
  /\ UNCHANGED fees

-------------------------------------------------------------------------------
(* Swaps.                                                                  *)

Fee(amountIn) == (amountIn * FEE_NUMERATOR) \div FEE_DENOMINATOR

(* Mutant of getAmountOut: the input is not added to its reserve.          *)
AmountOutAtSpot(amountIn, reserveIn, reserveOut) ==
  (amountIn * reserveOut) \div reserveIn

getAmountOut(amountIn, reserveIn, reserveOut) ==
  (amountIn * reserveOut) \div (reserveIn + amountIn)

(* What a swap of amountIn returns.                                        *)
SwapOut(amountIn, reserveIn, reserveOut) ==
  getAmountOut(amountIn - Fee(amountIn), reserveIn, reserveOut)

(* The conditions under which a swap that wants at least minOut does not   *)
(* revert.                                                                 *)
SwapAllowed(amountIn, reserveIn, reserveOut, minOut) ==
  LET net == amountIn - Fee(amountIn)
      out == SwapOut(amountIn, reserveIn, reserveOut)
  IN  /\ reserveIn # 0 /\ reserveOut # 0 /\ net # 0
      /\ {amountIn * FEE_NUMERATOR, net * reserveOut, reserveIn + amountIn} \subseteq Word
      /\ minOut <= out /\ out < reserveOut

(* Mutant of swapETHForApples: the fee is kept out of the reserve.         *)
BuyFeeAside(p, v, minApples) ==
  LET out == SwapOut(v, ethReserve, appleReserve) IN
  /\ SwapAllowed(v, ethReserve, appleReserve, minApples)
  /\ v <= ethers[p] /\ out <= apples[AMM]
  /\ totalFeesETH + Fee(v) <= MaxFees
  /\ ethReserve' = ethReserve + v - Fee(v)
  /\ appleReserve' = appleReserve - out
  /\ totalFeesETH' = totalFeesETH + Fee(v)
  /\ ethers' = Moved(ethers, p, AMM, v)
  /\ apples' = Moved(apples, AMM, p, out)
  /\ UNCHANGED <<totalFeesApple, shares>>

swapETHForApples(p, v, minApples) ==
  LET out == SwapOut(v, ethReserve, appleReserve) IN
  /\ SwapAllowed(v, ethReserve, appleReserve, minApples)
  /\ v <= ethers[p] /\ out <= apples[AMM]
  /\ totalFeesETH + Fee(v) <= MaxFees
  /\ ethReserve' = ethReserve + v
  /\ appleReserve' = appleReserve - out
  /\ totalFeesETH' = totalFeesETH + Fee(v)
  /\ ethers' = Moved(ethers, p, AMM, v)
  /\ apples' = Moved(apples, AMM, p, out)
  /\ UNCHANGED <<totalFeesApple, shares>>

swapApplesForETH(p, a, minETH) ==
  LET out == SwapOut(a, appleReserve, ethReserve) IN
  /\ SwapAllowed(a, appleReserve, ethReserve, minETH)
  /\ a <= apples[p] /\ out <= ethers[AMM]
  /\ totalFeesApple + Fee(a) <= MaxFees
  /\ appleReserve' = appleReserve + a
  /\ ethReserve' = ethReserve - out
  /\ totalFeesApple' = totalFeesApple + Fee(a)
  /\ apples' = Moved(apples, p, AMM, a)
  /\ ethers' = Moved(ethers, AMM, p, out)
  /\ UNCHANGED <<totalFeesETH, shares>>

(* receive(): ETH sent to the contract with no call, no reserve counts it. *)
Donate(p, v) ==
  /\ v <= ethers[p]
  /\ ethers' = Moved(ethers, p, AMM, v)
  /\ UNCHANGED <<reserves, shares, fees, apples>>

-------------------------------------------------------------------------------
Transaction(p) ==
  \/ \E a \in Amount, v \in Amount : AddFirst(p, a, v) \/ AddMore(p, a, v)
  \/ \E lp \in Word : RemoveLiquidity(p, lp)
  \/ \E v \in Amount, least \in {0, 1} : swapETHForApples(p, v, least)
  \/ \E a \in Amount, least \in {0, 1} : swapApplesForETH(p, a, least)
  \/ \E v \in Amount : Donate(p, v)

Next == \E p \in Accounts : Transaction(p)

Spec == Init /\ [][Next]_vars

-------------------------------------------------------------------------------
(* Properties.                                                             *)

(* The variables hold values of their types: no word over- or underflows.  *)
TypeOK ==
  /\ appleReserve \in Word /\ ethReserve \in Word
  /\ totalLPTokens \in Word /\ lpBalances \in [Accounts -> Int]
  /\ totalFeesApple \in Nat /\ totalFeesETH \in Nat
  /\ apples \in [Holders -> Int] /\ ethers \in [Holders -> Int]

k == appleReserve * ethReserve

(* The shares of the providers add up to the total that addLiquidity and   *)
(* removeLiquidity divide by.                                              *)
SharesAddUp ==
  totalLPTokens = MapThenSumSet(LAMBDA p : lpBalances[p], Accounts)

(* The contract holds what its reserves say: neither a swap nor a removal  *)
(* can fail for want of the currency it promised.                          *)
Solvent == appleReserve <= apples[AMM] /\ ethReserve <= ethers[AMM]

(* A pool is empty in all three ways or in none: shares are never left on  *)
(* an empty reserve, which would divide by zero in addLiquidity, nor a     *)
(* reserve without shares, which the next first deposit would own.         *)
PoolAlive ==
  /\ totalLPTokens = 0 <=> appleReserve = 0
  /\ totalLPTokens = 0 <=> ethReserve = 0

(* Rounding never works against the providers who stay: what one share is  *)
(* worth, as the geometric mean of the reserves per share, never falls,    *)
(* whoever deposits, withdraws or swaps.                                   *)
ShareValueNeverFalls ==
  [][totalLPTokens # 0 /\ totalLPTokens' # 0 =>
       k' * totalLPTokens * totalLPTokens >= k * totalLPTokens' * totalLPTokens']_vars

(* A fee stays with the providers: a swap raises the product of the        *)
(* reserves at least by the fee's part of it.                              *)
FeesStayInPool ==
  [][fees' # fees =>
       k' >= k + (totalFeesETH' - totalFeesETH) * appleReserve'
               + (totalFeesApple' - totalFeesApple) * ethReserve']_vars

(* No round trip pays: what a deposit puts in, withdrawing its shares at   *)
(* once does not exceed, and selling the APPL just bought does not return  *)
(* more ETH than they cost.                                                *)
DepositTripPays(a, v) ==
  LET lp == Minted(a, v)
      back(reserve, n) == (lp * (reserve + n)) \div (totalLPTokens + lp)
  IN  back(appleReserve, a) > a \/ back(ethReserve, v) > v

SwapTripPays(v) ==
  LET out == SwapOut(v, ethReserve, appleReserve)
  IN  out < appleReserve /\ SwapOut(out, appleReserve - out, ethReserve + v) > v

NoRoundTripPays ==
  totalLPTokens # 0 =>
    \A v \in Amount : ~SwapTripPays(v) /\ \A a \in Amount : ~DepositTripPays(a, v)

(* A first deposit mints the whole part of the geometric mean, for every   *)
(* deposit the loop of sqrt is run on: no share is backed by less than one *)
(* of each reserve's root, and less than one share is withheld.            *)
FirstDepositIsRoot ==
  [][totalLPTokens = 0 /\ totalLPTokens' # 0 =>
       /\ totalLPTokens' * totalLPTokens' <= k'
       /\ k' < (totalLPTokens' + 1) * (totalLPTokens' + 1)]_vars
===============================================================================
