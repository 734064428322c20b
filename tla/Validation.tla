----------------------------- MODULE Validation -----------------------------
(***************************************************************************)
(* The checks a request body passes before a service method is called:     *)
(* Validate of the request types of transport/http/auth and                *)
(* transport/http/profile that carry a code, and of the profile update.    *)
(*                                                                         *)
(* A string is a sequence of character classes.  len counts bytes, range   *)
(* loops and unicode predicates see characters, so a class has a width.    *)
(* What google/uuid decides is a property of the value.                    *)
(***************************************************************************)
EXTENDS Naturals, Sequences, FiniteSets

CONSTANTS
  minPasswordLength,  \* in bytes
  otpLength,          \* in bytes
  maxNameLength,      \* in bytes: maxFirstNameLength, maxLastNameLength
  MaxProbe            \* bound: characters of the strings that are tried

(* The strings tried are long enough for a code.                            *)
ASSUME ValidationAssumption ==
  /\ minPasswordLength \in Nat /\ maxNameLength \in Nat
  /\ MaxProbe \in Nat /\ otpLength \in 1..MaxProbe

(* ASCII digits, digits of other scripts, ASCII letters, the characters of  *)
(* passwordSpecialChars, white space, and other multi-byte characters.      *)
Chars == {"digit", "udigit", "letter", "special", "space", "wide"}

Strings == {SubSeq(s, 1, n) : s \in [1..MaxProbe -> Chars], n \in 0..MaxProbe}

Count(s, class) == Cardinality({i \in DOMAIN s : s[i] \in class})

(* Go's len(s): a digit of another script takes two bytes, a wide character *)
(* three.                                                                   *)
Size(s) == Len(s) + Count(s, {"udigit"}) + 2 * Count(s, {"wide"})

HasAny(s, class) == \E i \in DOMAIN s : s[i] \in class

(* strings.TrimSpace.                                                       *)
TrimSpace(s) ==
  LET solid == {i \in DOMAIN s : s[i] # "space"} IN
  IF solid = {} THEN <<>>
  ELSE SubSeq(s, CHOOSE i \in solid : \A j \in solid : i <= j,
                 CHOOSE i \in solid : \A j \in solid : j <= i)

-----------------------------------------------------------------------------
(* The fields map: the fields whose code is not "".                         *)
Failing(codes) == {f \in DOMAIN codes : codes[f] # ""}

Required(s, missing) == IF TrimSpace(s) = <<>> THEN missing ELSE ""

(* unicode.IsDigit knows the digits of every script.                        *)
containsDigit(s) == HasAny(s, {"digit", "udigit"})

validatePassword(p) ==
  CASE Size(p) < minPasswordLength -> "password_too_short"
    [] Size(p) >= minPasswordLength /\ ~containsDigit(p) -> "password_missing_digit"
    [] Size(p) >= minPasswordLength /\ containsDigit(p) /\ ~HasAny(p, {"special"})
         -> "password_missing_special_char"
    [] OTHER -> ""

(* Fault: the digits of every script are let through, as in containsDigit.  *)
validateOTPUnicode(c) ==
  CASE c = <<>> -> "otp_required"
    [] c # <<>> /\ Size(c) # otpLength -> "otp_invalid_format"
    [] c # <<>> /\ \E i \in DOMAIN c : c[i] \notin {"digit", "udigit"} -> "otp_invalid_format"
    [] OTHER -> ""

(* '0' <= r <= '9' holds of ASCII digits only.                              *)
validateOTP(c) ==
  CASE c = <<>> -> "otp_required"
    [] c # <<>> /\ Size(c) # otpLength -> "otp_invalid_format"
    [] c # <<>> /\ HasAny(c, Chars \ {"digit"}) -> "otp_invalid_format"
    [] OTHER -> ""

-----------------------------------------------------------------------------
(* Validate of each request type that carries a code.                       *)
SetupVerifyRequest(token, otp) ==
  Failing([setupToken |-> Required(token, "setup_token_required"), otp |-> validateOTP(otp)])

LoginVerifyOTPRequest(token, otp) ==
  Failing([challengeToken |-> Required(token, "challenge_token_required"), otp |-> validateOTP(otp)])

ChangePasswordRequest(current, new, otp) ==
  Failing([currentPassword |-> IF current = <<>> THEN "current_password_required" ELSE "",
           newPassword |-> validatePassword(new), otp |-> validateOTP(otp)])

PasswordResetVerifyOTPRequest(token, otp) ==
  Failing([flowToken |-> Required(token, "flow_token_required"), otp |-> validateOTP(otp)])

(* The validateOTP of transport/http/profile, which mirrors that of auth.   *)
validateProfileOTP(c) ==
  CASE c = <<>> -> "otp_required"
    [] c # <<>> /\ Size(c) # otpLength -> "otp_invalid_format"
    [] c # <<>> /\ HasAny(c, Chars \ {"digit"}) -> "otp_invalid_format"
    [] OTHER -> ""

DeleteAccountRequest(otp) == Failing([otp |-> validateProfileOTP(otp)])

validateName(s, required, tooLong) ==
  LET name == TrimSpace(s) IN
  CASE name = <<>> -> required
    [] Size(name) > maxNameLength -> tooLong
    [] OTHER -> ""

(* The avatar is absent, empty, a media id or something else.               *)
UpdateProfileRequest(first, last, picture, ids) ==
  Failing([firstName |-> validateName(first, "first_name_required", "first_name_too_long"),
           lastName |-> validateName(last, "last_name_required", "last_name_too_long"),
           avatar |-> IF picture \in ids \cup {"absent", "empty"} THEN "" ELSE "avatar_invalid"])

-----------------------------------------------------------------------------
(* What an authenticator app displays: otpLength digits, zeros in front     *)
(* included.                                                                *)
Displayed == [1..otpLength -> {"digit"}]

(* The failing fields of each of the five requests, of two packages, that   *)
(* carry a code, all other fields being right; the strings some of them let *)
(* through, and those they do not agree on.                                 *)
OTPVerdicts(c) ==
  LET token == <<"letter">>
      new == <<"digit", "special">> \o [i \in 1..minPasswordLength |-> "letter"]
  IN {SetupVerifyRequest(token, c), LoginVerifyOTPRequest(token, c),
      PasswordResetVerifyOTPRequest(token, c),
      ChangePasswordRequest(token, new, c), DeleteAccountRequest(c)}

CodesLetThrough == {c \in Strings : {} \in OTPVerdicts(c)}
CodesSplit      == {c \in Strings : OTPVerdicts(c) \notin {{{}}, {{"otp"}}}}
=============================================================================
