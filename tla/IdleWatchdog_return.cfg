SPECIFICATION Spec
PROPERTY HangupForgottenOnReturn
