----------------------------- MODULE MCBilling ------------------------------
EXTENDS Billing, TLC

CONSTANTS pay1, pay2

\* Which session is which does not matter.
Sessions == Permutations({pay1, pay2})

Every  == {"checkout", "payInvoice", "upgrade", "downgrade", "cancelDowngrade", "cancel", "cancelNow"}
Downgrading == {"checkout", "upgrade", "downgrade"}
Managed == {"checkout", "upgrade", "downgrade", "cancel", "cancelNow",
            "suspend", "reactivate", "changePlan"}
Racing == {"checkout", "upgrade", "cancelNow"}
=============================================================================
